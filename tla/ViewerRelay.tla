----------------------------- MODULE ViewerRelay -----------------------------
(***************************************************************************)
(* The relay of one session: its scrollback, its viewers and the fan-out of *)
(* its output.  Sources: HandleWorkerMessage ("output"), the start of       *)
(* SpawnSession, RegisterViewer and                                         *)
(* UnregisterViewer of server/internal/worker/hub.go, scrollback.go, and    *)
(* relayViaHub of server/internal/proxy/websocket.go.                       *)
(*                                                                          *)
(* Output is counted in bytes from the creation of the relay, so that the   *)
(* scrollback is an interval of positions and a chunk a start and a length. *)
(* A producer is the handler of a connection of the session's worker: one,  *)
(* or two while an old connection still drains.  A step is one critical     *)
(* section of h.mu, relay.mu or the scrollback's mutex, or a write to one   *)
(* viewer; relay.mu is held across the steps of a fan-out.                  *)
(***************************************************************************)
EXTENDS Naturals, FiniteSets

CONSTANTS
  Viewers,          \* ViewerConn objects: connections of viewers, each used once
  Producers,
  Relays,           \* SessionRelay objects, each allocated at most once
  Watched,          \* the one the refinement is stated for: any of them
  None, Out,
  ScrollbackSize,   \* maxSize of the scrollback, in bytes
  MaxChunk,         \* bound: length of an output message
  MaxOutput         \* bound: length of a relay's output

ASSUME RelayAssumption ==
  /\ Watched \in Relays
  /\ None \notin Relays \cup Producers /\ Out \notin Nat
  /\ Viewers \cap Producers = {}
  /\ ScrollbackSize \in Nat \ {0} /\ MaxChunk \in Nat \ {0} /\ MaxOutput \in Nat

VARIABLES
  current,          \* h.sessions[sessionID], or None
  lo, hi,           \* the scrollback holds the output from lo to hi
  viewers,          \* SessionRelay.Viewers
  rmu,              \* the producer that holds relay.mu during its fan-out
  pc, mine,         \* where a goroutine is, and the relay it works on
  start, len,       \* a producer's chunk
  pending,          \* viewers the fan-out has yet to write to
  snapHi,           \* the end of the scrollback sent to a viewer when it opened
  fanned, joined,   \* history: output fanned out by a relay; the same at a viewer's join
  shown, shownTo    \* history: output a viewer got since, and where its last chunk ended

relayVars == <<current, lo, hi, viewers, rmu, fanned>>
prodVars  == <<start, len, pending>>
viewVars  == <<snapHi, joined, shown, shownTo>>
vars == <<relayVars, prodVars, viewVars, pc, mine>>

Procs == Producers \cup Viewers
PCs == {"idle", "create", "write", "fanout", "send", "snapshot", "join", "watching",
        "leaving", "remove", "gone"}

Init ==
  /\ current = None
  /\ lo = [r \in Relays |-> 0] /\ hi = [r \in Relays |-> 0]
  /\ viewers = [r \in Relays |-> {}]
  /\ rmu = [r \in Relays |-> None]
  /\ fanned = [r \in Relays |-> 0]
  /\ pc = [p \in Procs |-> "idle"]
  /\ mine = [p \in Procs |-> None]
  /\ start = [p \in Producers |-> 0] /\ len = [p \in Producers |-> 0]
  /\ pending = [p \in Producers |-> {}]
  /\ snapHi = [v \in Viewers |-> 0] /\ joined = [v \in Viewers |-> 0]
  /\ shown = [v \in Viewers |-> 0] /\ shownTo = [v \in Viewers |-> 0]

Goto(p, label) == pc' = [pc EXCEPT ![p] = label]

\* A relay nobody has seen yet.
Fresh(r) == r # current /\ hi[r] = 0 /\ viewers[r] = {} /\ \A p \in Procs : mine[p] # r

-----------------------------------------------------------------------------
\* SpawnSession makes sure that there is a relay before the worker hears of the session.
SpawnRelay ==
  /\ current = None
  /\ \E r \in Relays : Fresh(r) /\ current' = r
  /\ UNCHANGED <<lo, hi, viewers, rmu, fanned, prodVars, viewVars, pc, mine>>

(* HandleWorkerMessage, case "output".                                     *)

\* Under RLock: is there a relay?
Output(p) ==
  /\ pc[p] = "idle"
  /\ \E n \in 1..MaxChunk : len' = [len EXCEPT ![p] = n]
  /\ mine' = [mine EXCEPT ![p] = current]
  /\ Goto(p, IF current = None THEN "create" ELSE "write")
  /\ UNCHANGED <<relayVars, start, pending, viewVars>>

\* Under Lock: the new relay replaces whatever is in the map by now.
CreateRelay(p) ==
  /\ pc[p] = "create"
  /\ \E r \in Relays :
       /\ Fresh(r)
       /\ current' = r
       /\ mine' = [mine EXCEPT ![p] = r]
  /\ Goto(p, "write")
  /\ UNCHANGED <<lo, hi, viewers, rmu, fanned, prodVars, viewVars>>

\* ScrollbackBuffer.Write: append, then keep the last ScrollbackSize bytes.
Keep(first, end) == IF end - first > ScrollbackSize THEN end - ScrollbackSize ELSE first

Write(p) ==
  LET r == mine[p] IN
  /\ pc[p] = "write" /\ hi[r] + len[p] <= MaxOutput
  /\ start' = [start EXCEPT ![p] = hi[r]]
  /\ hi' = [hi EXCEPT ![r] = @ + len[p]]
  /\ lo' = [lo EXCEPT ![r] = Keep(@, hi[r] + len[p])]
  /\ Goto(p, "fanout")
  /\ UNCHANGED <<current, viewers, rmu, fanned, len, pending, viewVars, mine>>

FanoutLock(p) ==
  LET r == mine[p] IN
  /\ pc[p] = "fanout" /\ rmu[r] = None
  /\ rmu' = [rmu EXCEPT ![r] = p]
  /\ pending' = [pending EXCEPT ![p] = viewers[r]]
  /\ fanned' = [fanned EXCEPT ![r] = @ + len[p]]
  /\ Goto(p, "send")
  /\ UNCHANGED <<current, lo, hi, viewers, start, len, viewVars, mine>>

\* A write to a viewer that is gone fails and is only logged.
SendTo(p, v) ==
  /\ pc[p] = "send" /\ v \in pending[p]
  /\ pending' = [pending EXCEPT ![p] = @ \ {v}]
  /\ IF pc[v] = "watching"
     THEN /\ shown' = [shown EXCEPT ![v] = @ + len[p]]
          /\ shownTo' = [shownTo EXCEPT ![v] = start[p] + len[p]]
     ELSE UNCHANGED <<shown, shownTo>>
  /\ UNCHANGED <<relayVars, start, len, snapHi, joined, pc, mine>>

\* Mutant: the loop over the viewers ends at the first failed write.
FanoutUnlockAtError(p) ==
  /\ pc[p] = "send" /\ (pending[p] = {} \/ \E v \in pending[p] : pc[v] # "watching")
  /\ rmu' = [rmu EXCEPT ![mine[p]] = None]
  /\ Goto(p, "idle")
  /\ UNCHANGED <<current, lo, hi, viewers, fanned, prodVars, viewVars, mine>>

\* Mutant: relay.mu is not released.
FanoutKeepsLock(p) ==
  /\ pc[p] = "send" /\ pending[p] = {}
  /\ Goto(p, "idle")
  /\ UNCHANGED <<relayVars, prodVars, viewVars, mine>>

FanoutUnlock(p) ==
  /\ pc[p] = "send" /\ pending[p] = {}
  /\ rmu' = [rmu EXCEPT ![mine[p]] = None]
  /\ Goto(p, "idle")
  /\ UNCHANGED <<current, lo, hi, viewers, fanned, prodVars, viewVars, mine>>

-----------------------------------------------------------------------------
(* RegisterViewer, the read loop of relayViaHub, UnregisterViewer.         *)

Open(v) ==
  /\ pc[v] = "idle"
  /\ IF current # None
     THEN mine' = [mine EXCEPT ![v] = current] /\ UNCHANGED current
     ELSE \E r \in Relays : Fresh(r) /\ current' = r /\ mine' = [mine EXCEPT ![v] = r]
  /\ Goto(v, "snapshot")
  /\ UNCHANGED <<lo, hi, viewers, rmu, fanned, prodVars, viewVars>>

\* Mutant: the scrollback is taken from the relay that is in the map by now.
SnapshotOfMap(v) ==
  /\ pc[v] = "snapshot"
  /\ snapHi' = [snapHi EXCEPT ![v] = hi[current]]
  /\ Goto(v, "join")
  /\ UNCHANGED <<relayVars, prodVars, joined, shown, shownTo, mine>>

\* Scrollback.Bytes, copied and then written to the viewer.
Snapshot(v) ==
  /\ pc[v] = "snapshot"
  /\ snapHi' = [snapHi EXCEPT ![v] = hi[mine[v]]]
  /\ Goto(v, "join")
  /\ UNCHANGED <<relayVars, prodVars, joined, shown, shownTo, mine>>

Join(v) ==
  LET r == mine[v] IN
  /\ pc[v] = "join" /\ rmu[r] = None
  /\ viewers' = [viewers EXCEPT ![r] = @ \cup {v}]
  /\ joined' = [joined EXCEPT ![v] = fanned[r]]
  /\ shownTo' = [shownTo EXCEPT ![v] = fanned[r]]
  /\ Goto(v, "watching")
  /\ UNCHANGED <<current, lo, hi, rmu, fanned, prodVars, snapHi, shown, mine>>

\* The viewer's connection breaks; its read loop will notice.
Break(v) ==
  /\ pc[v] = "watching"
  /\ shown' = [shown EXCEPT ![v] = 0]
  /\ Goto(v, "leaving")
  /\ UNCHANGED <<relayVars, prodVars, snapHi, joined, shownTo, mine>>

\* UnregisterViewer looks the relay up again, under RLock: the one in the map now; relays
\* never leave the map.
LeaveLookup(v) ==
  /\ pc[v] = "leaving"
  /\ mine' = [mine EXCEPT ![v] = current]
  /\ Goto(v, "remove")
  /\ UNCHANGED <<relayVars, prodVars, viewVars>>

\* The viewer stays with a relay that was replaced: nothing is deleted from this one.
Leave(v) ==
  LET r == mine[v] IN
  /\ pc[v] = "remove" /\ rmu[r] = None
  /\ viewers' = [viewers EXCEPT ![r] = @ \ {v}]
  /\ Goto(v, "gone")
  /\ UNCHANGED <<current, lo, hi, rmu, fanned, prodVars, viewVars, mine>>

-----------------------------------------------------------------------------
Produce(p) ==
  \/ Output(p) \/ CreateRelay(p) \/ Write(p) \/ FanoutLock(p) \/ FanoutUnlock(p)
  \/ \E v \in Viewers : SendTo(p, v)

View(v) == Open(v) \/ Snapshot(v) \/ Join(v) \/ Break(v) \/ LeaveLookup(v) \/ Leave(v)

Next == SpawnRelay \/ (\E p \in Producers : Produce(p)) \/ (\E v \in Viewers : View(v))

Spec == Init /\ [][Next]_vars

\* A handler runs, mutexes are handed on although others keep asking for them, and
\* writes to viewers return: the last is an assumption about the network, there is
\* no write deadline (hub.go:226-232).  Workers and viewers owe no output and no visit,
\* and nobody waits for a viewer that leaves.
Fairness ==
  /\ \A p \in Producers :
       /\ WF_vars(CreateRelay(p) \/ Write(p) \/ FanoutUnlock(p) \/ \E v \in Viewers : SendTo(p, v))
       /\ SF_vars(FanoutLock(p))
  /\ \A v \in Viewers : WF_vars(Snapshot(v)) /\ SF_vars(Join(v))

FairSpec == Spec /\ Fairness

-----------------------------------------------------------------------------
(* Properties.                                                             *)

TypeOK ==
  /\ current \in Relays \cup {None}
  /\ lo \in [Relays -> Nat] /\ hi \in [Relays -> Nat] /\ fanned \in [Relays -> Nat]
  /\ viewers \in [Relays -> SUBSET Viewers]
  /\ rmu \in [Relays -> Producers \cup {None}]
  /\ pc \in [Procs -> PCs] /\ mine \in [Procs -> Relays \cup {None}]
  /\ start \in [Producers -> Nat] /\ len \in [Producers -> Nat]
  /\ pending \in [Producers -> SUBSET Viewers]
  /\ snapHi \in [Viewers -> Nat] /\ joined \in [Viewers -> Nat]
  /\ shown \in [Viewers -> Nat] /\ shownTo \in [Viewers -> Nat]

\* The scrollback never holds more than its size and never drops what still fits:
\* it is the last ScrollbackSize bytes of the output (scrollback.go:25-34), whichever
\* handlers write to it.
ScrollbackIsTail ==
  \A r \in Relays : lo[r] = IF hi[r] > ScrollbackSize THEN hi[r] - ScrollbackSize ELSE 0

\* The chunk a viewer is still waiting for, of the fan-out in progress.
Due(v) ==
  IF rmu[mine[v]] # None /\ v \in pending[rmu[mine[v]]] THEN len[rmu[mine[v]]] ELSE 0

\* A viewer that watches has been shown exactly what its relay has fanned out since it
\* joined, each chunk once, but for the one the fan-out in progress owes it
\* (hub.go:224-233, 394-396, 411-413): joining, leaving and fan-out do not overlap.
ExactlyOnce ==
  \A v \in Viewers : pc[v] = "watching" => joined[v] + shown[v] + Due(v) = fanned[mine[v]]

OneProducer == \A p, q \in Producers : p = q

\* With one connection delivering the session's output, it is shown in order and
\* without holes: the last chunk ended where the count says it should.
InOrder ==
  OneProducer => \A v \in Viewers : pc[v] = "watching" => shownTo[v] = joined[v] + shown[v]

\* ... and at most the one chunk that was on its way when the viewer opened is shown
\* twice, once from the scrollback and once live (hub.go:222-225, 387-396).
OneChunkTwice ==
  OneProducer => \A v \in Viewers :
    pc[v] = "watching" => snapHi[v] <= joined[v] + MaxChunk

\* A relay keeps the promise of Broadcast to those who watch it, whatever number of
\* producers writes to it and whichever relay is in the map.
At == [v \in Viewers |-> IF pc[v] = "watching" /\ mine[v] = Watched THEN joined[v] ELSE Out]
Seen == [v \in Viewers |-> IF pc[v] = "watching" /\ mine[v] = Watched THEN shown[v] ELSE 0]
B == INSTANCE Broadcast WITH sent <- fanned[Watched], at <- At, seen <- Seen
ImplementsBroadcast == B!Spec

\* Nobody waits for relay.mu for ever, although others keep taking it: output that was
\* accepted is fanned out and the handler reads on, and a viewer that has opened the
\* session gets to watch it (hub.go:224-233, 394-396, 411-413).
NobodyWaits ==
  /\ \A p \in Producers : pc[p] = "fanout" ~> pc[p] = "idle"
  /\ \A v \in Viewers : pc[v] = "snapshot" ~> pc[v] = "watching"

-----------------------------------------------------------------------------
(* What the repository says and the code does not keep.                    *)

\* README.md:22 "New viewers instantly see everything Claude has output": what a
\* viewer is shown live starts no later than its scrollback ended.
NoGap == \A v \in Viewers : pc[v] = "watching" => joined[v] <= snapHi[v]

\* README.md:23 "Multi-viewer": whoever watches the session watches the relay that
\* the hub gives the session's output to.
NoOrphan == \A v \in Viewers : pc[v] = "watching" => mine[v] = current
=============================================================================
