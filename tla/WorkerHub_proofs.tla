-------------------------- MODULE WorkerHub_proofs --------------------------
(***************************************************************************)
(* Proofs about WorkerHub for every value of its constants: any number of  *)
(* workers, sessions and connections, overlapping reconnections, crashes,  *)
(* removals and renames included.                                          *)
(*                                                                         *)
(* IInv is the inductive invariant.  Its parts beside the types say that   *)
(* whatever concerns a session is found only at the worker in its row      *)
(* (OwnedProcs, OwnedHub, OwnedMsgs), that a goroutine which marks sessions *)
(* holds h.mu and has taken the worker out of the map (Marking), and that  *)
(* the registered connection has resumed what is offline (Resumed).        *)
(* OrderlyInv is what holds besides while handlers do not overlap: one     *)
(* handler of a worker is registered at a time (RegisteredOne), and what   *)
(* says running is listed with it or being marked (Running).               *)
(***************************************************************************)
EXTENDS WorkerHub, TLAPS

\* The places where a goroutine is working on the session cur[p].
Acting == Spawning \cup {"startedRead", "startedWrite", "exitedRead", "exitedWrite",
                         "createRelay", "output", "fanout", "markWrite", "markRelay"}

\* Each goroutine works on a session of the worker it acts for, and the connection
\* it looked up is one of that worker.
OwnedProcs ==
  /\ \A s \in Sessions : pc[s] # "idle" => owner[s] # None
  /\ \A p \in Procs : pc[p] \in Acting => cur[p] \in Sessions /\ owner[cur[p]] = WorkerFor(p)
  /\ \A p \in Procs : pc[p] \in {"relay", "send"} =>
                        want[p] \in Conns /\ ConnWorker[want[p]] = WorkerFor(p)

\* The hub's maps and the goroutines' lists keep a worker's sessions to it.
OwnedHub ==
  /\ \A w \in Workers : workers[w] # None => ConnWorker[workers[w]] = w
  /\ \A c \in Conns : \A s \in sessionIDs[c] \cup todo[c] : owner[s] = ConnWorker[c]
  /\ \A p \in Conns \cup Workers : \A s \in marks[p] : owner[s] = WorkerFor(p)
  /\ \A s \in Sessions : relay[s] \in {NoRelay, None, owner[s]}

\* Every message in the queue q is about a session of w.
About(q, w) == \A i \in 1..Len(q) : owner[q[i].sess] = w

\* The messages in flight, the agents' sockets and their PTYs belong to the worker.
OwnedMsgs ==
  /\ \A c \in Conns : About(toWorker[c], ConnWorker[c]) /\ About(toServer[c], ConnWorker[c])
  /\ \A w \in Workers : sock[w] # None => ConnWorker[sock[w]] = w
  /\ \A w \in Workers, s \in Sessions : ptys[w][s] > 0 => owner[s] = w

\* Whoever marks sessions holds h.mu, and its worker is not in the map.
Marking ==
  \A p \in Conns \cup Workers : pc[p] \in {"marking", "markWrite", "markRelay"} =>
    hmu = p /\ workers[WorkerFor(p)] = None

\* NoForgottenSession, and why it is kept: the connection a registered handler looked
\* up for a spawn is its own.
Resumed ==
  /\ \A c \in Conns : pc[c] \in {"relay", "send"} /\ workers[ConnWorker[c]] = c => want[c] = c
  /\ NoForgottenSession

IInv == /\ TypeHub /\ TypeRows /\ TypeProcs /\ TypeNet /\ TypeAgent /\ TypeRest
        /\ OwnedProcs /\ OwnedHub /\ OwnedMsgs /\ Marking /\ Resumed

USE DEF hubVars, dbVars, procVars, netVars, agentVars, apiVars, bounds, faultVars, locals, outside,
        Goto, Procs, PCs, Statuses, WorkerFor, Acting, Spawning

-----------------------------------------------------------------------------

\* A message about a session of w keeps a queue about w.
LEMMA QueueAppend ==
  ASSUME NEW S, NEW q \in Seq(S), NEW m \in S, NEW w,
         owner[m.sess] = w, About(q, w)
  PROVE  Append(q, m) \in Seq(S) /\ About(Append(q, m), w)
  BY DEF About

\* So does taking the first message, which is itself about w.
LEMMA QueueTail ==
  ASSUME NEW S, NEW q \in Seq(S), q # <<>>, NEW w, About(q, w)
  PROVE  /\ Head(q) \in S /\ owner[Head(q).sess] = w
         /\ Tail(q) \in Seq(S) /\ About(Tail(q), w)
  BY DEF About

\* An empty queue is about any worker.
LEMMA QueueEmpty ==
  ASSUME NEW S, NEW w PROVE <<>> \in Seq(S) /\ About(<<>>, w)
  BY DEF About

\* Writing to a connection of the session's worker keeps the outgoing queues in order.
LEMMA WriteLemma ==
  ASSUME TypeNet, OwnedMsgs, NEW c \in Conns, NEW s \in Sessions,
         NEW type \in {"spawn", "input", "kill"}, owner[s] = ConnWorker[c],
         WriteToWorker(c, type, s)
  PROVE  /\ toWorker' \in [Conns -> Seq(ToWorkerMsgs)]
         /\ \A d \in Conns : About(toWorker'[d], ConnWorker[d])
<1>1. [type |-> type, sess |-> s] \in ToWorkerMsgs
  BY DEF ToWorkerMsgs
<1>2. \A d \in Conns : toWorker[d] \in Seq(ToWorkerMsgs) /\ About(toWorker[d], ConnWorker[d])
  BY DEF TypeNet, OwnedMsgs
<1>3. LET q == Append(toWorker[c], [type |-> type, sess |-> s])
      IN  q \in Seq(ToWorkerMsgs) /\ About(q, ConnWorker[c])
  BY <1>1, <1>2, QueueAppend
<1>4. QED
  BY <1>2, <1>3 DEF WriteToWorker, TypeNet

\* So does what an agent sends about a session of its own for the incoming ones.
LEMMA SendLemma ==
  ASSUME TypeNet, OwnedMsgs, NEW w \in Workers, NEW s \in Sessions,
         NEW type \in {"started", "exited", "output"}, owner[s] = w,
         SendToServer(w, type, s)
  PROVE  /\ toServer' \in [Conns -> Seq(ToServerMsgs)]
         /\ \A d \in Conns : About(toServer'[d], ConnWorker[d])
<1>1. [type |-> type, sess |-> s] \in ToServerMsgs
  BY DEF ToServerMsgs
<1>2. \A d \in Conns : toServer[d] \in Seq(ToServerMsgs) /\ About(toServer[d], ConnWorker[d])
  BY DEF TypeNet, OwnedMsgs
<1>3. CASE sock[w] # None
  <2>1. sock[w] \in Conns /\ ConnWorker[sock[w]] = w
    BY <1>3 DEF TypeNet, OwnedMsgs
  <2>2. LET q == Append(toServer[sock[w]], [type |-> type, sess |-> s])
        IN  q \in Seq(ToServerMsgs) /\ About(q, ConnWorker[sock[w]])
    BY <1>1, <1>2, <2>1, QueueAppend
  <2>3. QED
    BY <1>2, <2>1, <2>2 DEF SendToServer, TypeNet
<1>4. CASE sock[w] = None
  BY <1>2, <1>4 DEF SendToServer, TypeNet
<1>5. QED
  BY <1>3, <1>4

\* An agent reads messages about its own sessions only.
LEMMA AgentReceiveLemma ==
  ASSUME TypeNet, OwnedMsgs, NEW w \in Workers, NEW type, AgentReceive(w, type)
  PROVE  /\ Head(toWorker[sock[w]]).sess \in Sessions
         /\ owner[Head(toWorker[sock[w]]).sess] = w
         /\ toWorker' \in [Conns -> Seq(ToWorkerMsgs)]
         /\ \A d \in Conns : About(toWorker'[d], ConnWorker[d])
<1>1. sock[w] \in Conns /\ ConnWorker[sock[w]] = w
  BY DEF TypeNet, OwnedMsgs, AgentReceive
<1>2. \A d \in Conns : toWorker[d] \in Seq(ToWorkerMsgs) /\ About(toWorker[d], ConnWorker[d])
  BY DEF TypeNet, OwnedMsgs
<1>3. LET q == toWorker[sock[w]]
      IN  /\ Head(q) \in ToWorkerMsgs /\ owner[Head(q).sess] = w
          /\ Tail(q) \in Seq(ToWorkerMsgs) /\ About(Tail(q), w)
  BY <1>1, <1>2, QueueTail DEF AgentReceive
<1>4. Head(toWorker[sock[w]]).sess \in Sessions
  BY <1>3 DEF ToWorkerMsgs
<1>5. QED
  BY <1>1, <1>2, <1>3, <1>4 DEF AgentReceive, TypeNet

\* A handler reads messages about the sessions of its worker only.
LEMMA ReceiveLemma ==
  ASSUME TypeNet, TypeProcs, OwnedMsgs, NEW c \in Conns, NEW type, Receive(c, type)
  PROVE  /\ pc[c] = "reading"
         /\ cur'[c] \in Sessions /\ owner[cur'[c]] = ConnWorker[c]
         /\ cur' \in [Procs -> Sessions \cup {None}]
         /\ \A p \in Procs : p # c => cur'[p] = cur[p]
         /\ toServer' \in [Conns -> Seq(ToServerMsgs)]
         /\ \A d \in Conns : About(toServer'[d], ConnWorker[d])
<1>1. \A d \in Conns : toServer[d] \in Seq(ToServerMsgs) /\ About(toServer[d], ConnWorker[d])
  BY DEF TypeNet, OwnedMsgs
<1>2. LET q == toServer[c]
      IN  /\ Head(q) \in ToServerMsgs /\ owner[Head(q).sess] = ConnWorker[c]
          /\ Tail(q) \in Seq(ToServerMsgs) /\ About(Tail(q), ConnWorker[c])
  BY <1>1, QueueTail DEF Receive
<1>3. Head(toServer[c]).sess \in Sessions
  BY <1>2 DEF ToServerMsgs
<1>4. cur' = [cur EXCEPT ![c] = Head(toServer[c]).sess] /\ cur'[c] = Head(toServer[c]).sess
  BY DEF Receive, TypeProcs
<1>5. QED
  BY <1>1, <1>2, <1>3, <1>4 DEF Receive, TypeNet, TypeProcs

-----------------------------------------------------------------------------
\* Every step keeps the invariant: one step of the proof for each action, and under it
\* one for the parts the action leaves alone and one for each it could disturb.
LEMMA StepIInv == IInv /\ [Next]_vars => IInv'
<1> SUFFICES ASSUME IInv, [Next]_vars PROVE IInv'
  OBVIOUS
<1> USE SetsAssumption, BoundsAssumption DEF IInv
<1>1. ASSUME NEW c \in Conns, Connect(c) PROVE IInv'
  <2>1. TypeHub' /\ TypeRows' /\ TypeAgent' /\ TypeRest' /\ OwnedHub'
    BY <1>1 DEF Connect, TypeHub, TypeRows, TypeAgent, TypeRest, OwnedHub
  <2>2. TypeProcs'
    BY <1>1 DEF Connect, TypeProcs, TypeHub, TypeRows, OwnedProcs
  <2>3. TypeNet'
    BY <1>1 DEF Connect, TypeNet, TypeProcs, TypeAgent, OwnedProcs
  <2>4. OwnedProcs'
    BY <1>1 DEF Connect, TypeProcs, TypeRows, TypeHub, OwnedProcs, OwnedHub
  <2>5. OwnedMsgs'
    BY <1>1 DEF Connect, OwnedMsgs, TypeNet, About
  <2>6. Marking'
    BY <1>1 DEF Connect, TypeProcs, TypeHub, Marking
  <2>7. Resumed'
    BY <1>1 DEF Connect, TypeHub, TypeRows, TypeProcs, TypeRest, OwnedProcs,
                OwnedHub, Marking, Resumed, NoForgottenSession, PastFindResumable,
                Spawning
  <2>8. QED
    BY <2>1, <2>2, <2>3, <2>4, <2>5, <2>6, <2>7
<1>2. ASSUME NEW c \in Conns, Drop(c) PROVE IInv'
  <2>1. TypeHub' /\ TypeRows' /\ TypeProcs' /\ TypeAgent' /\ TypeRest'
        /\ OwnedProcs' /\ OwnedHub' /\ OwnedMsgs' /\ Marking' /\ Resumed'
    BY <1>2 DEF Drop, TypeHub, TypeRows, TypeProcs, TypeAgent, TypeRest, OwnedProcs,
                OwnedHub, OwnedMsgs, Marking, Resumed, About, NoForgottenSession,
                PastFindResumable, Spawning
  <2>2. TypeNet'
    BY <1>2 DEF Drop, TypeNet, TypeProcs, TypeAgent, OwnedProcs
  <2>3. QED
    BY <2>1, <2>2
<1>3. ASSUME NEW c \in Conns, RegisterConn(c) PROVE IInv'
  <2>1. TypeRows' /\ TypeNet' /\ TypeAgent' /\ TypeRest' /\ OwnedMsgs'
    BY <1>3 DEF RegisterConn, TypeRows, TypeNet, TypeAgent, TypeRest, OwnedMsgs, About
  <2>2. TypeHub'
    BY <1>3 DEF RegisterConn, TypeHub, TypeProcs, TypeRows, OwnedProcs
  <2>3. TypeProcs'
    BY <1>3 DEF RegisterConn, TypeProcs, TypeHub, TypeRows, OwnedProcs
  <2>4. OwnedProcs'
    BY <1>3 DEF RegisterConn, TypeProcs, TypeRows, TypeHub, OwnedProcs, OwnedHub
  <2>5. OwnedHub'
    BY <1>3 DEF RegisterConn, TypeHub, TypeRows, TypeProcs, OwnedProcs, OwnedHub
  <2>6. Marking'
    BY <1>3 DEF RegisterConn, TypeProcs, TypeHub, Marking
  <2>7. Resumed'
    BY <1>3 DEF RegisterConn, TypeHub, TypeRows, TypeProcs, TypeRest, OwnedProcs,
                OwnedHub, Marking, Resumed, NoForgottenSession, PastFindResumable,
                Spawning
  <2>8. QED
    BY <2>1, <2>2, <2>3, <2>4, <2>5, <2>6, <2>7
<1>4. ASSUME NEW c \in Conns, RegisterRow(c) PROVE IInv'
  <2>1. TypeHub' /\ TypeNet' /\ TypeAgent' /\ TypeRest' /\ OwnedHub' /\ OwnedMsgs'
    BY <1>4 DEF RegisterRow, TypeHub, TypeNet, TypeAgent, TypeRest, OwnedHub,
                OwnedMsgs, About
  <2>2. TypeRows'
    BY <1>4 DEF RegisterRow, TypeRows, TypeProcs, TypeRest, OwnedProcs
  <2>3. TypeProcs'
    BY <1>4 DEF RegisterRow, TypeProcs, TypeHub, TypeRows, OwnedProcs
  <2>4. OwnedProcs'
    BY <1>4 DEF RegisterRow, TypeProcs, TypeRows, TypeHub, OwnedProcs, OwnedHub
  <2>5. Marking'
    BY <1>4 DEF RegisterRow, TypeProcs, TypeHub, Marking
  <2>6. Resumed'
    BY <1>4 DEF RegisterRow, TypeHub, TypeRows, TypeProcs, TypeRest, OwnedProcs,
                OwnedHub, Marking, Resumed, NoForgottenSession, PastFindResumable,
                Spawning
  <2>7. QED
    BY <2>1, <2>2, <2>3, <2>4, <2>5, <2>6
<1>5. ASSUME NEW c \in Conns, FindResumable(c) PROVE IInv'
  <2>1. TypeHub' /\ TypeRows' /\ TypeNet' /\ TypeAgent' /\ TypeRest' /\ OwnedMsgs'
    BY <1>5 DEF FindResumable, Resumable, TypeHub, TypeRows, TypeNet, TypeAgent,
                TypeRest, OwnedMsgs, About
  <2>2. TypeProcs'
    BY <1>5 DEF FindResumable, Resumable, TypeProcs, TypeHub, TypeRows, OwnedProcs
  <2>3. OwnedProcs'
    BY <1>5 DEF FindResumable, Resumable, TypeProcs, TypeRows, TypeHub, OwnedProcs,
                OwnedHub
  <2>4. OwnedHub'
    BY <1>5 DEF FindResumable, Resumable, TypeHub, TypeRows, TypeProcs, OwnedProcs,
                OwnedHub
  <2>5. Marking'
    BY <1>5 DEF FindResumable, Resumable, TypeProcs, TypeHub, Marking
  <2>6. Resumed'
    BY <1>5 DEF FindResumable, Resumable, TypeHub, TypeRows, TypeProcs, TypeRest,
                OwnedProcs, OwnedHub, Marking, Resumed, NoForgottenSession,
                PastFindResumable, Spawning
  <2>7. QED
    BY <2>1, <2>2, <2>3, <2>4, <2>5, <2>6
<1>6. ASSUME NEW c \in Conns, ResumeNext(c) PROVE IInv'
  <2>1. TypeHub' /\ TypeRows' /\ TypeNet' /\ TypeAgent' /\ TypeRest' /\ OwnedMsgs'
    BY <1>6 DEF ResumeNext, TypeHub, TypeRows, TypeNet, TypeAgent, TypeRest,
                OwnedMsgs, About
  <2>2. TypeProcs'
    BY <1>6 DEF ResumeNext, TypeProcs, TypeHub, TypeRows, OwnedProcs
  <2>3. OwnedProcs'
    BY <1>6 DEF ResumeNext, TypeProcs, TypeRows, TypeHub, OwnedProcs, OwnedHub
  <2>4. OwnedHub'
    BY <1>6 DEF ResumeNext, TypeHub, TypeRows, TypeProcs, OwnedProcs, OwnedHub
  <2>5. Marking'
    BY <1>6 DEF ResumeNext, TypeProcs, TypeHub, Marking
  <2>6. Resumed'
    BY <1>6 DEF ResumeNext, TypeHub, TypeRows, TypeProcs, TypeRest, OwnedProcs,
                OwnedHub, Marking, Resumed, NoForgottenSession, PastFindResumable,
                Spawning
  <2>7. QED
    BY <2>1, <2>2, <2>3, <2>4, <2>5, <2>6
<1>7. ASSUME NEW c \in Conns, ResumeDone(c) PROVE IInv'
  <2>1. TypeHub' /\ TypeRows' /\ TypeNet' /\ TypeAgent' /\ TypeRest' /\ OwnedHub'
        /\ OwnedMsgs'
    BY <1>7 DEF ResumeDone, TypeHub, TypeRows, TypeNet, TypeAgent, TypeRest,
                OwnedHub, OwnedMsgs, About
  <2>2. TypeProcs'
    BY <1>7 DEF ResumeDone, TypeProcs, TypeHub, TypeRows, OwnedProcs
  <2>3. OwnedProcs'
    BY <1>7 DEF ResumeDone, TypeProcs, TypeRows, TypeHub, OwnedProcs, OwnedHub
  <2>4. Marking'
    BY <1>7 DEF ResumeDone, TypeProcs, TypeHub, Marking
  <2>5. Resumed'
    BY <1>7 DEF ResumeDone, TypeHub, TypeRows, TypeProcs, TypeRest, OwnedProcs,
                OwnedHub, Marking, Resumed, NoForgottenSession, PastFindResumable,
                Spawning
  <2>6. QED
    BY <2>1, <2>2, <2>3, <2>4, <2>5
<1>8. ASSUME NEW c \in Conns, ReceiveStarted(c) PROVE IInv'
  <2>1. /\ pc[c] = "reading"
        /\ cur'[c] \in Sessions /\ owner[cur'[c]] = ConnWorker[c]
        /\ cur' \in [Procs -> Sessions \cup {None}]
        /\ \A p \in Procs : p # c => cur'[p] = cur[p]
        /\ toServer' \in [Conns -> Seq(ToServerMsgs)]
        /\ \A d \in Conns : About(toServer'[d], ConnWorker[d])
    BY <1>8, ReceiveLemma DEF ReceiveStarted
  <2>2. TypeRows' /\ TypeAgent' /\ TypeRest'
    BY <1>8 DEF ReceiveStarted, Registered, TypeRows, TypeAgent, TypeRest
  <2>3. TypeHub'
    BY <1>8, <2>1 DEF ReceiveStarted, Registered, TypeHub, TypeProcs, TypeRows,
                      OwnedProcs
  <2>4. TypeProcs'
    BY <1>8, <2>1 DEF ReceiveStarted, Registered, TypeProcs, TypeHub, TypeRows,
                      OwnedProcs
  <2>5. TypeNet'
    BY <1>8, <2>1 DEF ReceiveStarted, Registered, TypeNet, TypeProcs, TypeAgent,
                      OwnedProcs
  <2>6. OwnedProcs'
    BY <1>8, <2>1 DEF ReceiveStarted, Registered, TypeProcs, TypeRows, TypeHub,
                      OwnedProcs, OwnedHub
  <2>7. OwnedHub'
    BY <1>8, <2>1 DEF ReceiveStarted, Registered, TypeHub, TypeRows, TypeProcs,
                      OwnedProcs, OwnedHub
  <2>8. OwnedMsgs'
    BY <1>8, <2>1 DEF ReceiveStarted, Registered, OwnedMsgs, About
  <2>9. Marking'
    BY <1>8, <2>1 DEF ReceiveStarted, Registered, TypeProcs, TypeHub, Marking
  <2>10. Resumed'
    BY <1>8, <2>1 DEF ReceiveStarted, Registered, TypeHub, TypeRows, TypeProcs,
                      TypeRest, OwnedProcs, OwnedHub, Marking, Resumed,
                      NoForgottenSession, PastFindResumable, Spawning
  <2>11. QED
    BY <2>2, <2>3, <2>4, <2>5, <2>6, <2>7, <2>8, <2>9, <2>10
<1>9. ASSUME NEW c \in Conns, ReceiveExited(c) PROVE IInv'
  <2>1. /\ pc[c] = "reading"
        /\ cur'[c] \in Sessions /\ owner[cur'[c]] = ConnWorker[c]
        /\ cur' \in [Procs -> Sessions \cup {None}]
        /\ \A p \in Procs : p # c => cur'[p] = cur[p]
        /\ toServer' \in [Conns -> Seq(ToServerMsgs)]
        /\ \A d \in Conns : About(toServer'[d], ConnWorker[d])
    BY <1>9, ReceiveLemma DEF ReceiveExited
  <2>2. TypeRows' /\ TypeAgent' /\ TypeRest'
    BY <1>9 DEF ReceiveExited, Registered, TypeRows, TypeAgent, TypeRest
  <2>3. TypeHub'
    BY <1>9, <2>1 DEF ReceiveExited, Registered, TypeHub, TypeProcs, TypeRows,
                      OwnedProcs
  <2>4. TypeProcs'
    BY <1>9, <2>1 DEF ReceiveExited, Registered, TypeProcs, TypeHub, TypeRows,
                      OwnedProcs
  <2>5. TypeNet'
    BY <1>9, <2>1 DEF ReceiveExited, Registered, TypeNet, TypeProcs, TypeAgent,
                      OwnedProcs
  <2>6. OwnedProcs'
    BY <1>9, <2>1 DEF ReceiveExited, Registered, TypeProcs, TypeRows, TypeHub,
                      OwnedProcs, OwnedHub
  <2>7. OwnedHub'
    BY <1>9, <2>1 DEF ReceiveExited, Registered, TypeHub, TypeRows, TypeProcs,
                      OwnedProcs, OwnedHub
  <2>8. OwnedMsgs'
    BY <1>9, <2>1 DEF ReceiveExited, Registered, OwnedMsgs, About
  <2>9. Marking'
    BY <1>9, <2>1 DEF ReceiveExited, Registered, TypeProcs, TypeHub, Marking
  <2>10. Resumed'
    BY <1>9, <2>1 DEF ReceiveExited, Registered, TypeHub, TypeRows, TypeProcs,
                      TypeRest, OwnedProcs, OwnedHub, Marking, Resumed,
                      NoForgottenSession, PastFindResumable, Spawning
  <2>11. QED
    BY <2>2, <2>3, <2>4, <2>5, <2>6, <2>7, <2>8, <2>9, <2>10
<1>10. ASSUME NEW c \in Conns, RowRead(c) PROVE IInv'
  <2>1. TypeHub' /\ TypeRows' /\ TypeNet' /\ TypeAgent' /\ TypeRest' /\ OwnedHub'
        /\ OwnedMsgs'
    BY <1>10 DEF RowRead, TypeHub, TypeRows, TypeNet, TypeAgent, TypeRest, OwnedHub,
                 OwnedMsgs, About
  <2>2. TypeProcs'
    BY <1>10 DEF RowRead, TypeProcs, TypeHub, TypeRows, OwnedProcs
  <2>3. OwnedProcs'
    BY <1>10 DEF RowRead, TypeProcs, TypeRows, TypeHub, OwnedProcs, OwnedHub
  <2>4. Marking'
    BY <1>10 DEF RowRead, TypeProcs, TypeHub, Marking
  <2>5. Resumed'
    BY <1>10 DEF RowRead, TypeHub, TypeRows, TypeProcs, TypeRest, OwnedProcs,
                 OwnedHub, Marking, Resumed, NoForgottenSession, PastFindResumable,
                 Spawning
  <2>6. QED
    BY <2>1, <2>2, <2>3, <2>4, <2>5
<1>11. ASSUME NEW c \in Conns, RowWrite(c) PROVE IInv'
  <2>1. TypeHub' /\ TypeNet' /\ TypeAgent' /\ TypeRest' /\ OwnedHub' /\ OwnedMsgs'
    BY <1>11 DEF RowWrite, TypeHub, TypeNet, TypeAgent, TypeRest, OwnedHub,
                 OwnedMsgs, About
  <2>2. TypeRows'
    BY <1>11 DEF RowWrite, TypeRows, TypeProcs, TypeRest, OwnedProcs
  <2>3. TypeProcs'
    BY <1>11 DEF RowWrite, TypeProcs, TypeHub, TypeRows, OwnedProcs
  <2>4. OwnedProcs'
    BY <1>11 DEF RowWrite, TypeProcs, TypeRows, TypeHub, OwnedProcs, OwnedHub
  <2>5. Marking'
    BY <1>11 DEF RowWrite, TypeProcs, TypeHub, Marking
  <2>6. Resumed'
    BY <1>11 DEF RowWrite, TypeHub, TypeRows, TypeProcs, TypeRest, OwnedProcs,
                 OwnedHub, Marking, Resumed, NoForgottenSession, PastFindResumable,
                 Spawning
  <2>7. QED
    BY <2>1, <2>2, <2>3, <2>4, <2>5, <2>6
<1>12. ASSUME NEW c \in Conns, ReceiveOutput(c) PROVE IInv'
  <2>1. /\ pc[c] = "reading"
        /\ cur'[c] \in Sessions /\ owner[cur'[c]] = ConnWorker[c]
        /\ cur' \in [Procs -> Sessions \cup {None}]
        /\ \A p \in Procs : p # c => cur'[p] = cur[p]
        /\ toServer' \in [Conns -> Seq(ToServerMsgs)]
        /\ \A d \in Conns : About(toServer'[d], ConnWorker[d])
    BY <1>12, ReceiveLemma DEF ReceiveOutput
  <2>2. TypeHub' /\ TypeRows' /\ TypeAgent' /\ TypeRest' /\ OwnedHub'
    BY <1>12 DEF ReceiveOutput, TypeHub, TypeRows, TypeAgent, TypeRest, OwnedHub
  <2>3. TypeProcs'
    BY <1>12, <2>1 DEF ReceiveOutput, TypeProcs, TypeHub, TypeRows, OwnedProcs
  <2>4. TypeNet'
    BY <1>12, <2>1 DEF ReceiveOutput, TypeNet, TypeProcs, TypeAgent, OwnedProcs
  <2>5. OwnedProcs'
    BY <1>12, <2>1 DEF ReceiveOutput, TypeProcs, TypeRows, TypeHub, OwnedProcs,
                       OwnedHub
  <2>6. OwnedMsgs'
    BY <1>12, <2>1 DEF ReceiveOutput, OwnedMsgs, About
  <2>7. Marking'
    BY <1>12, <2>1 DEF ReceiveOutput, TypeProcs, TypeHub, Marking
  <2>8. Resumed'
    BY <1>12, <2>1 DEF ReceiveOutput, TypeHub, TypeRows, TypeProcs, TypeRest,
                       OwnedProcs, OwnedHub, Marking, Resumed, NoForgottenSession,
                       PastFindResumable, Spawning
  <2>9. QED
    BY <2>2, <2>3, <2>4, <2>5, <2>6, <2>7, <2>8
<1>13. ASSUME NEW c \in Conns, CreateRelay(c) PROVE IInv'
  <2>1. TypeRows' /\ TypeNet' /\ TypeAgent' /\ TypeRest' /\ OwnedMsgs'
    BY <1>13 DEF CreateRelay, TypeRows, TypeNet, TypeAgent, TypeRest, OwnedMsgs, About
  <2>2. TypeHub'
    BY <1>13 DEF CreateRelay, TypeHub, TypeProcs, TypeRows, OwnedProcs
  <2>3. TypeProcs'
    BY <1>13 DEF CreateRelay, TypeProcs, TypeHub, TypeRows, OwnedProcs
  <2>4. OwnedProcs'
    BY <1>13 DEF CreateRelay, TypeProcs, TypeRows, TypeHub, OwnedProcs, OwnedHub
  <2>5. OwnedHub'
    BY <1>13 DEF CreateRelay, TypeHub, TypeRows, TypeProcs, OwnedProcs, OwnedHub
  <2>6. Marking'
    BY <1>13 DEF CreateRelay, TypeProcs, TypeHub, Marking
  <2>7. Resumed'
    BY <1>13 DEF CreateRelay, TypeHub, TypeRows, TypeProcs, TypeRest, OwnedProcs,
                 OwnedHub, Marking, Resumed, NoForgottenSession, PastFindResumable,
                 Spawning
  <2>8. QED
    BY <2>1, <2>2, <2>3, <2>4, <2>5, <2>6, <2>7
<1>14. ASSUME NEW c \in Conns, ReadError(c) PROVE IInv'
  <2>1. TypeHub' /\ TypeRows' /\ TypeAgent' /\ TypeRest' /\ OwnedHub'
    BY <1>14 DEF ReadError, TypeHub, TypeRows, TypeAgent, TypeRest, OwnedHub
  <2>2. TypeProcs'
    BY <1>14 DEF ReadError, TypeProcs, TypeHub, TypeRows, OwnedProcs
  <2>3. TypeNet'
    BY <1>14 DEF ReadError, TypeNet, TypeProcs, TypeAgent, OwnedProcs
  <2>4. OwnedProcs'
    BY <1>14 DEF ReadError, TypeProcs, TypeRows, TypeHub, OwnedProcs, OwnedHub
  <2>5. OwnedMsgs'
    BY <1>14, SMTT(40) DEF ReadError, OwnedMsgs, About
  <2>6. Marking'
    BY <1>14 DEF ReadError, TypeProcs, TypeHub, Marking
  <2>7. Resumed'
    BY <1>14 DEF ReadError, TypeHub, TypeRows, TypeProcs, TypeRest, OwnedProcs,
                 OwnedHub, Marking, Resumed, NoForgottenSession, PastFindResumable,
                 Spawning
  <2>8. QED
    BY <2>1, <2>2, <2>3, <2>4, <2>5, <2>6, <2>7
<1>15. ASSUME NEW p \in Conns \cup Sessions, SpawnLookup(p) PROVE IInv'
  <2>1. TypeHub' /\ TypeRows' /\ TypeNet' /\ TypeAgent' /\ TypeRest' /\ OwnedHub'
        /\ OwnedMsgs'
    BY <1>15 DEF SpawnLookup, AfterSpawn, TypeHub, TypeRows, TypeNet, TypeAgent,
                 TypeRest, OwnedHub, OwnedMsgs, About
  <2>2. TypeProcs'
    BY <1>15 DEF SpawnLookup, AfterSpawn, TypeProcs, TypeHub, TypeRows, OwnedProcs
  <2>3. OwnedProcs'
    BY <1>15 DEF SpawnLookup, AfterSpawn, TypeProcs, TypeRows, TypeHub, OwnedProcs,
                 OwnedHub
  <2>4. Marking'
    BY <1>15 DEF SpawnLookup, AfterSpawn, TypeProcs, TypeHub, Marking
  <2>5. Resumed'
    BY <1>15 DEF SpawnLookup, AfterSpawn, TypeHub, TypeRows, TypeProcs, TypeRest,
                 OwnedProcs, OwnedHub, Marking, Resumed, NoForgottenSession,
                 PastFindResumable, Spawning
  <2>6. QED
    BY <2>1, <2>2, <2>3, <2>4, <2>5
<1>16. ASSUME NEW p \in Conns \cup Sessions, SpawnRelay(p) PROVE IInv'
  <2>1. TypeRows' /\ TypeNet' /\ TypeAgent' /\ TypeRest' /\ OwnedMsgs'
    BY <1>16 DEF SpawnRelay, TypeRows, TypeNet, TypeAgent, TypeRest, OwnedMsgs, About
  <2>2. TypeHub'
    BY <1>16 DEF SpawnRelay, TypeHub, TypeProcs, TypeRows, OwnedProcs
  <2>3. TypeProcs'
    BY <1>16 DEF SpawnRelay, TypeProcs, TypeHub, TypeRows, OwnedProcs
  <2>4. OwnedProcs'
    BY <1>16 DEF SpawnRelay, TypeProcs, TypeRows, TypeHub, OwnedProcs, OwnedHub
  <2>5. OwnedHub'
    BY <1>16 DEF SpawnRelay, TypeHub, TypeRows, TypeProcs, OwnedProcs, OwnedHub
  <2>6. Marking'
    BY <1>16 DEF SpawnRelay, TypeProcs, TypeHub, Marking
  <2>7. Resumed'
    BY <1>16 DEF SpawnRelay, TypeHub, TypeRows, TypeProcs, TypeRest, OwnedProcs,
                 OwnedHub, Marking, Resumed, NoForgottenSession, PastFindResumable,
                 Spawning
  <2>8. QED
    BY <2>1, <2>2, <2>3, <2>4, <2>5, <2>6, <2>7
<1>17. ASSUME NEW p \in Conns \cup Sessions, SpawnSend(p) PROVE IInv'
  <2>1. /\ cur[p] \in Sessions /\ want[p] \in Conns
        /\ owner[cur[p]] = ConnWorker[want[p]]
    BY <1>17 DEF SpawnSend, OwnedProcs
  <2>2. /\ toWorker' \in [Conns -> Seq(ToWorkerMsgs)]
        /\ \A d \in Conns : About(toWorker'[d], ConnWorker[d])
    BY <1>17, <2>1, WriteLemma DEF SpawnSend
  <2>3. TypeHub' /\ TypeRows' /\ TypeAgent' /\ OwnedHub'
    BY <1>17 DEF SpawnSend, AfterSpawn, TypeHub, TypeRows, TypeAgent, OwnedHub
  <2>4. TypeProcs'
    BY <1>17, <2>1, <2>2 DEF SpawnSend, AfterSpawn, TypeProcs, TypeHub, TypeRows,
                             OwnedProcs
  <2>5. TypeNet'
    BY <1>17, <2>1, <2>2 DEF SpawnSend, AfterSpawn, TypeNet, TypeProcs, TypeAgent,
                             OwnedProcs
  <2>6. TypeRest'
    BY <1>17, <2>1, <2>2 DEF SpawnSend, AfterSpawn, TypeRest, TypeProcs, TypeRows,
                             OwnedProcs
  <2>7. OwnedProcs'
    BY <1>17, <2>1, <2>2 DEF SpawnSend, AfterSpawn, TypeProcs, TypeRows, TypeHub,
                             OwnedProcs, OwnedHub
  <2>8. OwnedMsgs'
    BY <1>17, <2>1, <2>2 DEF SpawnSend, AfterSpawn, OwnedMsgs, About
  <2>9. Marking'
    BY <1>17, <2>1, <2>2 DEF SpawnSend, AfterSpawn, TypeProcs, TypeHub, Marking
  <2>10. Resumed'
    BY <1>17, <2>1, <2>2 DEF SpawnSend, AfterSpawn, TypeHub, TypeRows, TypeProcs,
                             TypeRest, OwnedProcs, OwnedHub, Marking, Resumed,
                             NoForgottenSession, PastFindResumable, Spawning
  <2>11. QED
    BY <2>3, <2>4, <2>5, <2>6, <2>7, <2>8, <2>9, <2>10
<1>18. ASSUME NEW p \in Conns \cup Workers, NotRegistered(p) PROVE IInv'
  <2>1. TypeHub' /\ TypeRows' /\ TypeNet' /\ TypeAgent' /\ TypeRest' /\ OwnedHub'
        /\ OwnedMsgs'
    BY <1>18 DEF NotRegistered, AfterUnregister, TypeHub, TypeRows, TypeNet,
                 TypeAgent, TypeRest, OwnedHub, OwnedMsgs, About
  <2>2. TypeProcs'
    BY <1>18 DEF NotRegistered, AfterUnregister, TypeProcs, TypeHub, TypeRows,
                 OwnedProcs
  <2>3. OwnedProcs'
    BY <1>18 DEF NotRegistered, AfterUnregister, TypeProcs, TypeRows, TypeHub,
                 OwnedProcs, OwnedHub
  <2>4. Marking'
    BY <1>18 DEF NotRegistered, AfterUnregister, TypeProcs, TypeHub, Marking
  <2>5. Resumed'
    BY <1>18 DEF NotRegistered, AfterUnregister, TypeHub, TypeRows, TypeProcs,
                 TypeRest, OwnedProcs, OwnedHub, Marking, Resumed,
                 NoForgottenSession, PastFindResumable, Spawning
  <2>6. QED
    BY <2>1, <2>2, <2>3, <2>4, <2>5
<1>19. ASSUME NEW p \in Conns \cup Workers, UnregisterLock(p) PROVE IInv'
  <2>1. TypeRows' /\ TypeNet' /\ TypeAgent' /\ TypeRest' /\ OwnedMsgs'
    BY <1>19 DEF UnregisterLock, TypeRows, TypeNet, TypeAgent, TypeRest, OwnedMsgs,
                 About
  <2>2. TypeHub'
    BY <1>19 DEF UnregisterLock, TypeHub, TypeProcs, TypeRows, OwnedProcs
  <2>3. TypeProcs'
    BY <1>19 DEF UnregisterLock, TypeProcs, TypeHub, TypeRows, OwnedProcs
  <2>4. OwnedProcs'
    BY <1>19 DEF UnregisterLock, TypeProcs, TypeRows, TypeHub, OwnedProcs, OwnedHub
  <2>5. OwnedHub'
    BY <1>19 DEF UnregisterLock, TypeHub, TypeRows, TypeProcs, OwnedProcs, OwnedHub
  <2>6. Marking'
    BY <1>19 DEF UnregisterLock, TypeProcs, TypeHub, Marking
  <2>7. Resumed'
    BY <1>19 DEF UnregisterLock, TypeHub, TypeRows, TypeProcs, TypeRest, OwnedProcs,
                 OwnedHub, Marking, Resumed, NoForgottenSession, PastFindResumable,
                 Spawning
  <2>8. QED
    BY <2>1, <2>2, <2>3, <2>4, <2>5, <2>6, <2>7
<1>20. ASSUME NEW p \in Conns \cup Workers, MarkRelay(p) PROVE IInv'
  <2>1. TypeRows' /\ TypeNet' /\ TypeAgent' /\ TypeRest' /\ OwnedMsgs'
    BY <1>20 DEF MarkRelay, TypeRows, TypeNet, TypeAgent, TypeRest, OwnedMsgs, About
  <2>2. TypeHub'
    BY <1>20 DEF MarkRelay, TypeHub, TypeProcs, TypeRows, OwnedProcs
  <2>3. TypeProcs'
    BY <1>20 DEF MarkRelay, TypeProcs, TypeHub, TypeRows, OwnedProcs
  <2>4. OwnedProcs'
    BY <1>20 DEF MarkRelay, TypeProcs, TypeRows, TypeHub, OwnedProcs, OwnedHub
  <2>5. OwnedHub'
    BY <1>20 DEF MarkRelay, TypeHub, TypeRows, TypeProcs, OwnedProcs, OwnedHub
  <2>6. Marking'
    BY <1>20 DEF MarkRelay, TypeProcs, TypeHub, Marking
  <2>7. Resumed'
    BY <1>20 DEF MarkRelay, TypeHub, TypeRows, TypeProcs, TypeRest, OwnedProcs,
                 OwnedHub, Marking, Resumed, NoForgottenSession, PastFindResumable,
                 Spawning
  <2>8. QED
    BY <2>1, <2>2, <2>3, <2>4, <2>5, <2>6, <2>7
<1>21. ASSUME NEW p \in Conns \cup Workers, MarkRead(p) PROVE IInv'
  <2>1. TypeHub' /\ TypeRows' /\ TypeNet' /\ TypeAgent' /\ TypeRest' /\ OwnedMsgs'
    BY <1>21 DEF MarkRead, TypeHub, TypeRows, TypeNet, TypeAgent, TypeRest,
                 OwnedMsgs, About
  <2>2. TypeProcs'
    BY <1>21 DEF MarkRead, TypeProcs, TypeHub, TypeRows, OwnedProcs
  <2>3. OwnedProcs'
    BY <1>21 DEF MarkRead, TypeProcs, TypeRows, TypeHub, OwnedProcs, OwnedHub
  <2>4. OwnedHub'
    BY <1>21 DEF MarkRead, TypeHub, TypeRows, TypeProcs, OwnedProcs, OwnedHub
  <2>5. Marking'
    BY <1>21 DEF MarkRead, TypeProcs, TypeHub, Marking
  <2>6. Resumed'
    BY <1>21 DEF MarkRead, TypeHub, TypeRows, TypeProcs, TypeRest, OwnedProcs,
                 OwnedHub, Marking, Resumed, NoForgottenSession, PastFindResumable,
                 Spawning
  <2>7. QED
    BY <2>1, <2>2, <2>3, <2>4, <2>5, <2>6
<1>22. ASSUME NEW p \in Conns \cup Workers, MarkWrite(p) PROVE IInv'
  <2>1. TypeNet' /\ TypeAgent' /\ TypeRest' /\ OwnedMsgs'
    BY <1>22 DEF MarkWrite, TypeNet, TypeAgent, TypeRest, OwnedMsgs, About
  <2>2. TypeHub'
    BY <1>22 DEF MarkWrite, TypeHub
  <2>3. TypeRows'
    BY <1>22 DEF MarkWrite, TypeRows, TypeProcs, TypeRest, OwnedProcs
  <2>4. TypeProcs'
    BY <1>22 DEF MarkWrite, TypeProcs, TypeHub, TypeRows, OwnedProcs
  <2>5. OwnedProcs'
    BY <1>22 DEF MarkWrite, TypeProcs, TypeRows, TypeHub, OwnedProcs, OwnedHub
  <2>6. OwnedHub'
    BY <1>22 DEF MarkWrite, TypeHub, TypeRows, TypeProcs, OwnedProcs, OwnedHub
  <2>7. Marking'
    BY <1>22 DEF MarkWrite, TypeProcs, TypeHub, Marking
  <2>8. Resumed'
    BY <1>22 DEF MarkWrite, TypeHub, TypeRows, TypeProcs, TypeRest, OwnedProcs,
                 OwnedHub, Marking, Resumed, NoForgottenSession, PastFindResumable,
                 Spawning
  <2>9. QED
    BY <2>1, <2>2, <2>3, <2>4, <2>5, <2>6, <2>7, <2>8
<1>23. ASSUME NEW p \in Conns \cup Workers, UnregisterUnlock(p) PROVE IInv'
  <2>1. TypeRows' /\ TypeNet' /\ TypeAgent' /\ TypeRest' /\ OwnedHub' /\ OwnedMsgs'
    BY <1>23 DEF UnregisterUnlock, TypeRows, TypeNet, TypeAgent, TypeRest, OwnedHub,
                 OwnedMsgs, About
  <2>2. TypeHub'
    BY <1>23 DEF UnregisterUnlock, TypeHub, TypeProcs, TypeRows, OwnedProcs
  <2>3. TypeProcs'
    BY <1>23 DEF UnregisterUnlock, TypeProcs, TypeHub, TypeRows, OwnedProcs
  <2>4. OwnedProcs'
    BY <1>23 DEF UnregisterUnlock, TypeProcs, TypeRows, TypeHub, OwnedProcs, OwnedHub
  <2>5. Marking'
    BY <1>23 DEF UnregisterUnlock, TypeProcs, TypeHub, Marking
  <2>6. Resumed'
    BY <1>23 DEF UnregisterUnlock, TypeHub, TypeRows, TypeProcs, TypeRest,
                 OwnedProcs, OwnedHub, Marking, Resumed, NoForgottenSession,
                 PastFindResumable, Spawning
  <2>7. QED
    BY <2>1, <2>2, <2>3, <2>4, <2>5, <2>6
<1>24. ASSUME NEW p \in Conns \cup Workers, WorkerRowRead(p) PROVE IInv'
  <2>1. TypeHub' /\ TypeRows' /\ TypeNet' /\ TypeAgent' /\ TypeRest' /\ OwnedHub'
        /\ OwnedMsgs'
    BY <1>24 DEF WorkerRowRead, AfterUnregister, TypeHub, TypeRows, TypeNet,
                 TypeAgent, TypeRest, OwnedHub, OwnedMsgs, About
  <2>2. TypeProcs'
    BY <1>24 DEF WorkerRowRead, AfterUnregister, TypeProcs, TypeHub, TypeRows,
                 OwnedProcs
  <2>3. OwnedProcs'
    BY <1>24 DEF WorkerRowRead, AfterUnregister, TypeProcs, TypeRows, TypeHub,
                 OwnedProcs, OwnedHub
  <2>4. Marking'
    BY <1>24 DEF WorkerRowRead, AfterUnregister, TypeProcs, TypeHub, Marking
  <2>5. Resumed'
    BY <1>24 DEF WorkerRowRead, AfterUnregister, TypeHub, TypeRows, TypeProcs,
                 TypeRest, OwnedProcs, OwnedHub, Marking, Resumed,
                 NoForgottenSession, PastFindResumable, Spawning
  <2>6. QED
    BY <2>1, <2>2, <2>3, <2>4, <2>5
<1>25. ASSUME NEW p \in Conns \cup Workers, WorkerRowWrite(p) PROVE IInv'
  <2>1. TypeHub' /\ TypeNet' /\ TypeAgent' /\ TypeRest' /\ OwnedHub' /\ OwnedMsgs'
    BY <1>25 DEF WorkerRowWrite, AfterUnregister, TypeHub, TypeNet, TypeAgent,
                 TypeRest, OwnedHub, OwnedMsgs, About
  <2>2. TypeRows'
    BY <1>25 DEF WorkerRowWrite, AfterUnregister, TypeRows, TypeProcs, TypeRest,
                 OwnedProcs
  <2>3. TypeProcs'
    BY <1>25 DEF WorkerRowWrite, AfterUnregister, TypeProcs, TypeHub, TypeRows,
                 OwnedProcs
  <2>4. OwnedProcs'
    BY <1>25 DEF WorkerRowWrite, AfterUnregister, TypeProcs, TypeRows, TypeHub,
                 OwnedProcs, OwnedHub
  <2>5. Marking'
    BY <1>25 DEF WorkerRowWrite, AfterUnregister, TypeProcs, TypeHub, Marking
  <2>6. Resumed'
    BY <1>25 DEF WorkerRowWrite, AfterUnregister, TypeHub, TypeRows, TypeProcs,
                 TypeRest, OwnedProcs, OwnedHub, Marking, Resumed,
                 NoForgottenSession, PastFindResumable, Spawning
  <2>7. QED
    BY <2>1, <2>2, <2>3, <2>4, <2>5, <2>6
<1>26. ASSUME NEW w \in Workers, RemoveWorker(w) PROVE IInv'
  <2>1. TypeHub' /\ TypeRows' /\ TypeNet' /\ TypeAgent' /\ OwnedHub' /\ OwnedMsgs'
    BY <1>26 DEF RemoveWorker, TypeHub, TypeRows, TypeNet, TypeAgent, OwnedHub,
                 OwnedMsgs, About
  <2>2. TypeProcs'
    BY <1>26 DEF RemoveWorker, TypeProcs, TypeHub, TypeRows, OwnedProcs
  <2>3. TypeRest'
    BY <1>26 DEF RemoveWorker, TypeRest, TypeProcs, TypeRows, OwnedProcs
  <2>4. OwnedProcs'
    BY <1>26 DEF RemoveWorker, TypeProcs, TypeRows, TypeHub, OwnedProcs, OwnedHub
  <2>5. Marking'
    BY <1>26 DEF RemoveWorker, TypeProcs, TypeHub, Marking
  <2>6. Resumed'
    BY <1>26 DEF RemoveWorker, TypeHub, TypeRows, TypeProcs, TypeRest, OwnedProcs,
                 OwnedHub, Marking, Resumed, NoForgottenSession, PastFindResumable,
                 Spawning
  <2>7. QED
    BY <2>1, <2>2, <2>3, <2>4, <2>5, <2>6
<1>27. ASSUME NEW w \in Workers, DeleteWorkerRow(w) PROVE IInv'
  <2>1. TypeHub' /\ TypeNet' /\ TypeAgent' /\ TypeRest' /\ OwnedHub' /\ OwnedMsgs'
    BY <1>27 DEF DeleteWorkerRow, TypeHub, TypeNet, TypeAgent, TypeRest, OwnedHub,
                 OwnedMsgs, About
  <2>2. TypeRows'
    BY <1>27 DEF DeleteWorkerRow, TypeRows, TypeProcs, TypeRest, OwnedProcs
  <2>3. TypeProcs'
    BY <1>27 DEF DeleteWorkerRow, TypeProcs, TypeHub, TypeRows, OwnedProcs
  <2>4. OwnedProcs'
    BY <1>27 DEF DeleteWorkerRow, TypeProcs, TypeRows, TypeHub, OwnedProcs, OwnedHub
  <2>5. Marking'
    BY <1>27 DEF DeleteWorkerRow, TypeProcs, TypeHub, Marking
  <2>6. Resumed'
    BY <1>27 DEF DeleteWorkerRow, TypeHub, TypeRows, TypeProcs, TypeRest, OwnedProcs,
                 OwnedHub, Marking, Resumed, NoForgottenSession, PastFindResumable,
                 Spawning
  <2>7. QED
    BY <2>1, <2>2, <2>3, <2>4, <2>5, <2>6
<1>28. ASSUME NEW w \in Workers, AgentSpawn(w) PROVE IInv'
  <2>1. /\ Head(toWorker[sock[w]]).sess \in Sessions
        /\ owner[Head(toWorker[sock[w]]).sess] = w
        /\ toWorker' \in [Conns -> Seq(ToWorkerMsgs)]
        /\ \A d \in Conns : About(toWorker'[d], ConnWorker[d])
    BY <1>28, AgentReceiveLemma DEF AgentSpawn
  <2>2. /\ toServer' \in [Conns -> Seq(ToServerMsgs)]
        /\ \A d \in Conns : About(toServer'[d], ConnWorker[d])
    BY <1>28, <2>1, SendLemma DEF AgentSpawn
  <2>3. TypeHub' /\ TypeRows' /\ TypeProcs' /\ TypeRest' /\ OwnedProcs'
        /\ OwnedHub' /\ Marking' /\ Resumed'
    BY <1>28 DEF AgentSpawn, TypeHub, TypeRows, TypeProcs, TypeRest, OwnedProcs,
                 OwnedHub, Marking, Resumed, NoForgottenSession, PastFindResumable,
                 Spawning
  <2>4. TypeNet'
    BY <1>28, <2>1, <2>2 DEF AgentSpawn, TypeNet, TypeProcs, TypeAgent, OwnedProcs
  <2>5. TypeAgent'
    BY <1>28, <2>1, <2>2, SMTT(40) DEF AgentSpawn, TypeAgent, TypeNet
  <2>6. OwnedMsgs'
    BY <1>28, <2>1, <2>2, SMTT(40) DEF AgentSpawn, OwnedMsgs, TypeAgent, About
  <2>7. QED
    BY <2>3, <2>4, <2>5, <2>6
<1>29. ASSUME NEW w \in Workers, AgentSpawnFails(w) PROVE IInv'
  <2>1. /\ Head(toWorker[sock[w]]).sess \in Sessions
        /\ owner[Head(toWorker[sock[w]]).sess] = w
        /\ toWorker' \in [Conns -> Seq(ToWorkerMsgs)]
        /\ \A d \in Conns : About(toWorker'[d], ConnWorker[d])
    BY <1>29, AgentReceiveLemma DEF AgentSpawnFails
  <2>2. /\ toServer' \in [Conns -> Seq(ToServerMsgs)]
        /\ \A d \in Conns : About(toServer'[d], ConnWorker[d])
    BY <1>29, <2>1, SendLemma DEF AgentSpawnFails
  <2>3. TypeHub' /\ TypeRows' /\ TypeProcs' /\ TypeAgent' /\ TypeRest'
        /\ OwnedProcs' /\ OwnedHub' /\ Marking' /\ Resumed'
    BY <1>29 DEF AgentSpawnFails, TypeHub, TypeRows, TypeProcs, TypeAgent, TypeRest,
                 OwnedProcs, OwnedHub, Marking, Resumed, NoForgottenSession,
                 PastFindResumable, Spawning
  <2>4. TypeNet'
    BY <1>29, <2>1, <2>2 DEF AgentSpawnFails, TypeNet, TypeProcs, TypeAgent,
                             OwnedProcs
  <2>5. OwnedMsgs'
    BY <1>29, <2>1, <2>2 DEF AgentSpawnFails, OwnedMsgs, About
  <2>6. QED
    BY <2>3, <2>4, <2>5
<1>30. ASSUME NEW w \in Workers, AgentKill(w) PROVE IInv'
  <2>1. /\ Head(toWorker[sock[w]]).sess \in Sessions
        /\ owner[Head(toWorker[sock[w]]).sess] = w
        /\ toWorker' \in [Conns -> Seq(ToWorkerMsgs)]
        /\ \A d \in Conns : About(toWorker'[d], ConnWorker[d])
    BY <1>30, AgentReceiveLemma DEF AgentKill
  <2>2. TypeHub' /\ TypeRows' /\ TypeProcs' /\ TypeRest' /\ OwnedProcs'
        /\ OwnedHub' /\ Marking' /\ Resumed'
    BY <1>30 DEF AgentKill, TypeHub, TypeRows, TypeProcs, TypeRest, OwnedProcs,
                 OwnedHub, Marking, Resumed, NoForgottenSession, PastFindResumable,
                 Spawning
  <2>3. TypeNet'
    BY <1>30, <2>1 DEF AgentKill, TypeNet, TypeProcs, TypeAgent, OwnedProcs
  <2>4. TypeAgent'
    BY <1>30, <2>1 DEF AgentKill, TypeAgent, TypeNet
  <2>5. OwnedMsgs'
    BY <1>30, <2>1 DEF AgentKill, OwnedMsgs, About
  <2>6. QED
    BY <2>2, <2>3, <2>4, <2>5
<1>31. ASSUME NEW w \in Workers, AgentInput(w) PROVE IInv'
  <2>1. /\ Head(toWorker[sock[w]]).sess \in Sessions
        /\ owner[Head(toWorker[sock[w]]).sess] = w
        /\ toWorker' \in [Conns -> Seq(ToWorkerMsgs)]
        /\ \A d \in Conns : About(toWorker'[d], ConnWorker[d])
    BY <1>31, AgentReceiveLemma DEF AgentInput
  <2>2. TypeHub' /\ TypeRows' /\ TypeProcs' /\ TypeAgent' /\ TypeRest'
        /\ OwnedProcs' /\ OwnedHub' /\ Marking' /\ Resumed'
    BY <1>31 DEF AgentInput, TypeHub, TypeRows, TypeProcs, TypeAgent, TypeRest,
                 OwnedProcs, OwnedHub, Marking, Resumed, NoForgottenSession,
                 PastFindResumable, Spawning
  <2>3. TypeNet'
    BY <1>31, <2>1 DEF AgentInput, TypeNet, TypeProcs, TypeAgent, OwnedProcs
  <2>4. OwnedMsgs'
    BY <1>31, <2>1 DEF AgentInput, OwnedMsgs, About
  <2>5. QED
    BY <2>2, <2>3, <2>4
<1>32. ASSUME NEW w \in Workers, AgentClosed(w) PROVE IInv'
  <2>1. /\ toWorker' \in [Conns -> Seq(ToWorkerMsgs)]
        /\ \A d \in Conns : About(toWorker'[d], ConnWorker[d])
    BY <1>32, QueueEmpty DEF AgentClosed, TypeNet, OwnedMsgs
  <2>2. TypeHub' /\ TypeRows' /\ TypeProcs' /\ TypeAgent' /\ TypeRest'
        /\ OwnedProcs' /\ OwnedHub' /\ Marking' /\ Resumed'
    BY <1>32 DEF AgentClosed, TypeHub, TypeRows, TypeProcs, TypeAgent, TypeRest,
                 OwnedProcs, OwnedHub, Marking, Resumed, NoForgottenSession,
                 PastFindResumable, Spawning
  <2>3. TypeNet'
    BY <1>32, <2>1 DEF AgentClosed, TypeNet, TypeProcs, TypeAgent, OwnedProcs
  <2>4. OwnedMsgs'
    BY <1>32, <2>1 DEF AgentClosed, OwnedMsgs, About
  <2>5. QED
    BY <2>2, <2>3, <2>4
<1>33. ASSUME NEW w \in Workers, AgentRestart(w) PROVE IInv'
  <2>1. TypeHub' /\ TypeRows' /\ TypeProcs' /\ TypeRest' /\ OwnedProcs'
        /\ OwnedHub' /\ Marking' /\ Resumed'
    BY <1>33 DEF AgentRestart, TypeHub, TypeRows, TypeProcs, TypeRest, OwnedProcs,
                 OwnedHub, Marking, Resumed, NoForgottenSession, PastFindResumable,
                 Spawning
  <2>2. TypeNet'
    BY <1>33 DEF AgentRestart, TypeNet, TypeProcs, TypeAgent, OwnedProcs
  <2>3. TypeAgent'
    BY <1>33 DEF AgentRestart, TypeAgent, TypeNet
  <2>4. OwnedMsgs'
    BY <1>33 DEF AgentRestart, OwnedMsgs, TypeAgent, TypeNet, About
  <2>5. QED
    BY <2>1, <2>2, <2>3, <2>4
<1>34. ASSUME NEW w \in Workers, NEW s \in Sessions, PtyOutput(w, s) PROVE IInv'
  <2>1. /\ toServer' \in [Conns -> Seq(ToServerMsgs)]
        /\ \A d \in Conns : About(toServer'[d], ConnWorker[d])
    BY <1>34, SendLemma DEF PtyOutput, OwnedMsgs
  <2>2. TypeHub' /\ TypeRows' /\ TypeProcs' /\ TypeAgent' /\ TypeRest'
        /\ OwnedProcs' /\ OwnedHub' /\ Marking' /\ Resumed'
    BY <1>34 DEF PtyOutput, TypeHub, TypeRows, TypeProcs, TypeAgent, TypeRest,
                 OwnedProcs, OwnedHub, Marking, Resumed, NoForgottenSession,
                 PastFindResumable, Spawning
  <2>3. TypeNet'
    BY <1>34, <2>1 DEF PtyOutput, TypeNet, TypeProcs, TypeAgent, OwnedProcs
  <2>4. OwnedMsgs'
    BY <1>34, <2>1 DEF PtyOutput, OwnedMsgs, About
  <2>5. QED
    BY <2>2, <2>3, <2>4
<1>35. ASSUME NEW w \in Workers, NEW s \in Sessions, PtyExit(w, s) PROVE IInv'
  <2>1. /\ toServer' \in [Conns -> Seq(ToServerMsgs)]
        /\ \A d \in Conns : About(toServer'[d], ConnWorker[d])
    BY <1>35, SendLemma DEF PtyExit, OwnedMsgs
  <2>2. TypeHub' /\ TypeRows' /\ TypeProcs' /\ TypeRest' /\ OwnedProcs'
        /\ OwnedHub' /\ Marking' /\ Resumed'
    BY <1>35 DEF PtyExit, TypeHub, TypeRows, TypeProcs, TypeRest, OwnedProcs,
                 OwnedHub, Marking, Resumed, NoForgottenSession, PastFindResumable,
                 Spawning
  <2>3. TypeNet'
    BY <1>35, <2>1 DEF PtyExit, TypeNet, TypeProcs, TypeAgent, OwnedProcs
  <2>4. TypeAgent'
    BY <1>35, <2>1 DEF PtyExit, TypeAgent, TypeNet
  <2>5. OwnedMsgs'
    BY <1>35, <2>1 DEF PtyExit, OwnedMsgs, TypeAgent, About
  <2>6. QED
    BY <2>2, <2>3, <2>4, <2>5
<1>36. ASSUME NEW s \in Sessions, CreateSession(s) PROVE IInv'
  <2>1. TypeHub' /\ TypeNet' /\ TypeAgent' /\ TypeRest'
    BY <1>36 DEF CreateSession, TypeHub, TypeNet, TypeAgent, TypeRest
  <2>2. TypeRows'
    BY <1>36 DEF CreateSession, TypeRows, TypeProcs, TypeRest, OwnedProcs
  <2>3. TypeProcs'
    BY <1>36 DEF CreateSession, TypeProcs, TypeHub, TypeRows, OwnedProcs
  <2>4. OwnedProcs'
    BY <1>36 DEF CreateSession, TypeProcs, TypeRows, TypeHub, OwnedProcs, OwnedHub
  <2>5. OwnedHub'
    BY <1>36 DEF CreateSession, TypeHub, TypeRows, TypeProcs, OwnedProcs, OwnedHub
  <2>6. OwnedMsgs'
    BY <1>36 DEF CreateSession, OwnedMsgs, TypeRows, OwnedProcs, TypeNet, TypeAgent,
                 About
  <2>7. Marking'
    BY <1>36 DEF CreateSession, TypeProcs, TypeHub, Marking
  <2>8. Resumed'
    BY <1>36 DEF CreateSession, TypeHub, TypeRows, TypeProcs, TypeRest, OwnedProcs,
                 OwnedHub, Marking, Resumed, NoForgottenSession, PastFindResumable,
                 Spawning
  <2>9. QED
    BY <2>1, <2>2, <2>3, <2>4, <2>5, <2>6, <2>7, <2>8
<1>37. ASSUME NEW s \in Sessions, RenameRead(s) PROVE IInv'
  <2>1. TypeHub' /\ TypeRows' /\ TypeProcs' /\ TypeNet' /\ TypeAgent'
        /\ OwnedProcs' /\ OwnedHub' /\ OwnedMsgs' /\ Marking' /\ Resumed'
    BY <1>37 DEF RenameRead, TypeHub, TypeRows, TypeProcs, TypeNet, TypeAgent,
                 OwnedProcs, OwnedHub, OwnedMsgs, Marking, Resumed, About,
                 NoForgottenSession, PastFindResumable, Spawning
  <2>2. TypeRest'
    BY <1>37 DEF RenameRead, TypeRest, TypeProcs, TypeRows, OwnedProcs
  <2>3. QED
    BY <2>1, <2>2
<1>38. ASSUME NEW s \in Sessions, RenameWrite(s) PROVE IInv'
  <2>1. TypeHub' /\ TypeProcs' /\ TypeNet' /\ TypeAgent' /\ OwnedProcs'
        /\ OwnedHub' /\ OwnedMsgs' /\ Marking'
    BY <1>38 DEF RenameWrite, TypeHub, TypeProcs, TypeNet, TypeAgent, OwnedProcs,
                 OwnedHub, OwnedMsgs, Marking, About
  <2>2. TypeRows'
    BY <1>38 DEF RenameWrite, TypeRows, TypeProcs, TypeRest, OwnedProcs
  <2>3. TypeRest'
    BY <1>38 DEF RenameWrite, TypeRest, TypeProcs, TypeRows, OwnedProcs
  <2>4. Resumed'
    BY <1>38 DEF RenameWrite, TypeHub, TypeRows, TypeProcs, TypeRest, OwnedProcs,
                 OwnedHub, Marking, Resumed, NoForgottenSession, PastFindResumable,
                 Spawning
  <2>5. QED
    BY <2>1, <2>2, <2>3, <2>4
<1>39. ASSUME NEW s \in Sessions, SendInput(s) PROVE IInv'
  <2>1. Route(s) # None => Route(s) \in Conns /\ owner[s] = ConnWorker[Route(s)]
    BY DEF Route, TypeHub, OwnedHub
  <2>2. /\ toWorker' \in [Conns -> Seq(ToWorkerMsgs)]
        /\ \A d \in Conns : About(toWorker'[d], ConnWorker[d])
    BY <1>39, <2>1, WriteLemma DEF SendInput, TypeNet, OwnedMsgs
  <2>3. TypeHub' /\ TypeRows' /\ TypeProcs' /\ TypeAgent' /\ TypeRest'
        /\ OwnedProcs' /\ OwnedHub' /\ Marking' /\ Resumed'
    BY <1>39 DEF SendInput, TypeHub, TypeRows, TypeProcs, TypeAgent, TypeRest,
                 OwnedProcs, OwnedHub, Marking, Resumed, NoForgottenSession,
                 PastFindResumable, Spawning
  <2>4. TypeNet'
    BY <1>39, <2>1, <2>2 DEF SendInput, TypeNet, TypeProcs, TypeAgent, OwnedProcs
  <2>5. OwnedMsgs'
    BY <1>39, <2>1, <2>2 DEF SendInput, OwnedMsgs, About
  <2>6. QED
    BY <2>3, <2>4, <2>5
<1>40. ASSUME NEW s \in Sessions, DestroyKill(s) PROVE IInv'
  <2>1. Route(s) # None => Route(s) \in Conns /\ owner[s] = ConnWorker[Route(s)]
    BY DEF Route, TypeHub, OwnedHub
  <2>2. /\ toWorker' \in [Conns -> Seq(ToWorkerMsgs)]
        /\ \A d \in Conns : About(toWorker'[d], ConnWorker[d])
    BY <1>40, <2>1, WriteLemma DEF DestroyKill, TypeNet, OwnedMsgs
  <2>3. TypeHub' /\ TypeRows' /\ TypeProcs' /\ TypeAgent' /\ OwnedProcs'
        /\ OwnedHub' /\ Marking' /\ Resumed'
    BY <1>40 DEF DestroyKill, TypeHub, TypeRows, TypeProcs, TypeAgent, OwnedProcs,
                 OwnedHub, Marking, Resumed, NoForgottenSession, PastFindResumable,
                 Spawning
  <2>4. TypeNet'
    BY <1>40, <2>1, <2>2 DEF DestroyKill, TypeNet, TypeProcs, TypeAgent, OwnedProcs
  <2>5. TypeRest'
    BY <1>40, <2>1, <2>2 DEF DestroyKill, TypeRest, TypeProcs, TypeRows, OwnedProcs
  <2>6. OwnedMsgs'
    BY <1>40, <2>1, <2>2 DEF DestroyKill, OwnedMsgs, About
  <2>7. QED
    BY <2>3, <2>4, <2>5, <2>6
<1>41. ASSUME NEW s \in Sessions, DestroyDelete(s) PROVE IInv'
  <2>1. TypeHub' /\ TypeProcs' /\ TypeNet' /\ TypeAgent' /\ OwnedProcs'
        /\ OwnedHub' /\ OwnedMsgs' /\ Marking'
    BY <1>41 DEF DestroyDelete, TypeHub, TypeProcs, TypeNet, TypeAgent, OwnedProcs,
                 OwnedHub, OwnedMsgs, Marking, About
  <2>2. TypeRows'
    BY <1>41 DEF DestroyDelete, TypeRows, TypeProcs, TypeRest, OwnedProcs
  <2>3. TypeRest'
    BY <1>41 DEF DestroyDelete, TypeRest, TypeProcs, TypeRows, OwnedProcs
  <2>4. Resumed'
    BY <1>41 DEF DestroyDelete, TypeHub, TypeRows, TypeProcs, TypeRest, OwnedProcs,
                 OwnedHub, Marking, Resumed, NoForgottenSession, PastFindResumable,
                 Spawning
  <2>5. QED
    BY <2>1, <2>2, <2>3, <2>4
<1>42. ASSUME NEW s \in Sessions, RegisterViewer(s) PROVE IInv'
  <2>1. TypeRows' /\ TypeProcs' /\ TypeNet' /\ TypeAgent' /\ TypeRest'
        /\ OwnedProcs' /\ OwnedMsgs' /\ Marking' /\ Resumed'
    BY <1>42 DEF RegisterViewer, TypeRows, TypeProcs, TypeNet, TypeAgent, TypeRest,
                 OwnedProcs, OwnedMsgs, Marking, Resumed, About, NoForgottenSession,
                 PastFindResumable, Spawning
  <2>2. TypeHub'
    BY <1>42 DEF RegisterViewer, TypeHub, TypeProcs, TypeRows, OwnedProcs
  <2>3. OwnedHub'
    BY <1>42 DEF RegisterViewer, TypeHub, TypeRows, TypeProcs, OwnedProcs, OwnedHub
  <2>4. QED
    BY <2>1, <2>2, <2>3
<1>43. CASE ServerCrash
  <2>1. TypeRows' /\ TypeAgent'
    BY <1>43 DEF ServerCrash, TypeRows, TypeAgent
  <2>2. TypeHub'
    BY <1>43 DEF ServerCrash, TypeHub, TypeProcs, TypeRows, OwnedProcs
  <2>3. TypeProcs'
    BY <1>43 DEF ServerCrash, TypeProcs, TypeHub, TypeRows, OwnedProcs
  <2>4. TypeNet'
    BY <1>43 DEF ServerCrash, TypeNet, TypeProcs, TypeAgent, OwnedProcs
  <2>5. TypeRest'
    BY <1>43 DEF ServerCrash, TypeRest, TypeProcs, TypeRows, OwnedProcs
  <2>6. OwnedProcs'
    BY <1>43 DEF ServerCrash, TypeProcs, TypeRows, TypeHub, OwnedProcs, OwnedHub
  <2>7. OwnedHub'
    BY <1>43 DEF ServerCrash, TypeHub, TypeRows, TypeProcs, OwnedProcs, OwnedHub
  <2>8. OwnedMsgs'
    BY <1>43 DEF ServerCrash, OwnedMsgs, About
  <2>9. Marking'
    BY <1>43 DEF ServerCrash, TypeProcs, TypeHub, Marking
  <2>10. Resumed'
    BY <1>43 DEF ServerCrash, TypeHub, TypeRows, TypeProcs, TypeRest, OwnedProcs,
                 OwnedHub, Marking, Resumed, NoForgottenSession, PastFindResumable,
                 Spawning
  <2>11. QED
    BY <2>1, <2>2, <2>3, <2>4, <2>5, <2>6, <2>7, <2>8, <2>9, <2>10
<1>44. ASSUME NEW c \in Conns, RegisterRowFails(c) PROVE IInv'
  <2>1. TypeHub' /\ TypeRows' /\ TypeNet' /\ TypeAgent' /\ OwnedMsgs' /\ OwnedHub'
    BY <1>44 DEF RegisterRowFails, GoesOn, Fault, TypeHub, TypeRows, TypeNet, TypeAgent, OwnedMsgs, OwnedHub, About
  <2>2. TypeProcs'
    BY <1>44 DEF RegisterRowFails, GoesOn, Fault,
                 TypeProcs, TypeHub, TypeRows, OwnedProcs
  <2>3. TypeRest'
    BY <1>44 DEF RegisterRowFails, GoesOn, Fault,
                 TypeRest, TypeProcs, TypeRows, OwnedProcs
  <2>4. OwnedProcs'
    BY <1>44 DEF RegisterRowFails, GoesOn, Fault,
                 TypeProcs, TypeRows, TypeHub, OwnedProcs, OwnedHub
  <2>5. Marking'
    BY <1>44 DEF RegisterRowFails, GoesOn, Fault,
                 TypeProcs, TypeHub, Marking
  <2>6. Resumed'
    BY <1>44 DEF RegisterRowFails, GoesOn, Fault,
                 TypeHub, TypeRows, TypeProcs, TypeRest, OwnedProcs, OwnedHub,
                 Marking, Resumed, NoForgottenSession, PastFindResumable, Spawning
  <2>7. QED
    BY <2>1, <2>2, <2>3, <2>4, <2>5, <2>6
<1>45. ASSUME NEW c \in Conns, FindResumableFails(c) PROVE IInv'
  <2>1. TypeHub' /\ TypeRows' /\ TypeNet' /\ TypeAgent' /\ OwnedMsgs' /\ OwnedHub'
    BY <1>45 DEF FindResumableFails, GoesOn, Fault, Resumable, TypeHub, TypeRows, TypeNet, TypeAgent, OwnedMsgs, OwnedHub, About
  <2>2. TypeProcs'
    BY <1>45 DEF FindResumableFails, GoesOn, Fault, Resumable,
                 TypeProcs, TypeHub, TypeRows, OwnedProcs
  <2>3. TypeRest'
    BY <1>45 DEF FindResumableFails, GoesOn, Fault, Resumable,
                 TypeRest, TypeProcs, TypeRows, OwnedProcs
  <2>4. OwnedProcs'
    BY <1>45 DEF FindResumableFails, GoesOn, Fault, Resumable,
                 TypeProcs, TypeRows, TypeHub, OwnedProcs, OwnedHub
  <2>5. Marking'
    BY <1>45 DEF FindResumableFails, GoesOn, Fault, Resumable,
                 TypeProcs, TypeHub, Marking
  <2>6. Resumed'
    BY <1>45 DEF FindResumableFails, GoesOn, Fault, Resumable,
                 TypeHub, TypeRows, TypeProcs, TypeRest, OwnedProcs, OwnedHub,
                 Marking, Resumed, NoForgottenSession, PastFindResumable, Spawning
  <2>7. QED
    BY <2>1, <2>2, <2>3, <2>4, <2>5, <2>6
<1>46. ASSUME NEW c \in Conns, SessionRowFails(c) PROVE IInv'
  <2>1. TypeHub' /\ TypeRows' /\ TypeNet' /\ TypeAgent' /\ OwnedMsgs' /\ OwnedHub'
    BY <1>46 DEF SessionRowFails, GoesOn, Fault, TypeHub, TypeRows, TypeNet, TypeAgent, OwnedMsgs, OwnedHub, About
  <2>2. TypeProcs'
    BY <1>46 DEF SessionRowFails, GoesOn, Fault,
                 TypeProcs, TypeHub, TypeRows, OwnedProcs
  <2>3. TypeRest'
    BY <1>46 DEF SessionRowFails, GoesOn, Fault,
                 TypeRest, TypeProcs, TypeRows, OwnedProcs
  <2>4. OwnedProcs'
    BY <1>46 DEF SessionRowFails, GoesOn, Fault,
                 TypeProcs, TypeRows, TypeHub, OwnedProcs, OwnedHub
  <2>5. Marking'
    BY <1>46 DEF SessionRowFails, GoesOn, Fault,
                 TypeProcs, TypeHub, Marking
  <2>6. Resumed'
    BY <1>46 DEF SessionRowFails, GoesOn, Fault,
                 TypeHub, TypeRows, TypeProcs, TypeRest, OwnedProcs, OwnedHub,
                 Marking, Resumed, NoForgottenSession, PastFindResumable, Spawning
  <2>7. QED
    BY <2>1, <2>2, <2>3, <2>4, <2>5, <2>6
<1>47. ASSUME NEW p \in Conns \cup Workers, MarkReadFails(p) PROVE IInv'
  <2>1. TypeHub' /\ TypeRows' /\ TypeNet' /\ TypeAgent' /\ OwnedMsgs'
    BY <1>47 DEF MarkReadFails, GoesOn, Fault, TypeHub, TypeRows, TypeNet, TypeAgent, OwnedMsgs, About
  <2>2. TypeProcs'
    BY <1>47 DEF MarkReadFails, GoesOn, Fault,
                 TypeProcs, TypeHub, TypeRows, OwnedProcs
  <2>3. TypeRest'
    BY <1>47 DEF MarkReadFails, GoesOn, Fault,
                 TypeRest, TypeProcs, TypeRows, OwnedProcs
  <2>4. OwnedProcs'
    BY <1>47 DEF MarkReadFails, GoesOn, Fault,
                 TypeProcs, TypeRows, TypeHub, OwnedProcs, OwnedHub
  <2>5. OwnedHub'
    BY <1>47 DEF MarkReadFails, GoesOn, Fault,
                 TypeHub, TypeRows, TypeProcs, OwnedProcs, OwnedHub
  <2>6. Marking'
    BY <1>47 DEF MarkReadFails, GoesOn, Fault,
                 TypeProcs, TypeHub, Marking
  <2>7. Resumed'
    BY <1>47 DEF MarkReadFails, GoesOn, Fault,
                 TypeHub, TypeRows, TypeProcs, TypeRest, OwnedProcs, OwnedHub,
                 Marking, Resumed, NoForgottenSession, PastFindResumable, Spawning
  <2>8. QED
    BY <2>1, <2>2, <2>3, <2>4, <2>5, <2>6, <2>7
<1>48. ASSUME NEW p \in Conns \cup Workers, MarkWriteFails(p) PROVE IInv'
  <2>1. TypeHub' /\ TypeRows' /\ TypeNet' /\ TypeAgent' /\ OwnedMsgs' /\ OwnedHub'
    BY <1>48 DEF MarkWriteFails, GoesOn, Fault, TypeHub, TypeRows, TypeNet, TypeAgent, OwnedMsgs, OwnedHub, About
  <2>2. TypeProcs'
    BY <1>48 DEF MarkWriteFails, GoesOn, Fault,
                 TypeProcs, TypeHub, TypeRows, OwnedProcs
  <2>3. TypeRest'
    BY <1>48 DEF MarkWriteFails, GoesOn, Fault,
                 TypeRest, TypeProcs, TypeRows, OwnedProcs
  <2>4. OwnedProcs'
    BY <1>48 DEF MarkWriteFails, GoesOn, Fault,
                 TypeProcs, TypeRows, TypeHub, OwnedProcs, OwnedHub
  <2>5. Marking'
    BY <1>48 DEF MarkWriteFails, GoesOn, Fault,
                 TypeProcs, TypeHub, Marking
  <2>6. Resumed'
    BY <1>48 DEF MarkWriteFails, GoesOn, Fault,
                 TypeHub, TypeRows, TypeProcs, TypeRest, OwnedProcs, OwnedHub,
                 Marking, Resumed, NoForgottenSession, PastFindResumable, Spawning
  <2>7. QED
    BY <2>1, <2>2, <2>3, <2>4, <2>5, <2>6
<1>49. ASSUME NEW p \in Conns \cup Workers, WorkerRowFails(p) PROVE IInv'
  <2>1. TypeHub' /\ TypeRows' /\ TypeNet' /\ TypeAgent' /\ OwnedMsgs' /\ OwnedHub'
    BY <1>49 DEF WorkerRowFails, GoesOn, Fault, AfterUnregister, TypeHub, TypeRows, TypeNet, TypeAgent, OwnedMsgs, OwnedHub, About
  <2>2. TypeProcs'
    BY <1>49 DEF WorkerRowFails, GoesOn, Fault, AfterUnregister,
                 TypeProcs, TypeHub, TypeRows, OwnedProcs
  <2>3. TypeRest'
    BY <1>49 DEF WorkerRowFails, GoesOn, Fault, AfterUnregister,
                 TypeRest, TypeProcs, TypeRows, OwnedProcs
  <2>4. OwnedProcs'
    BY <1>49 DEF WorkerRowFails, GoesOn, Fault, AfterUnregister,
                 TypeProcs, TypeRows, TypeHub, OwnedProcs, OwnedHub
  <2>5. Marking'
    BY <1>49 DEF WorkerRowFails, GoesOn, Fault, AfterUnregister,
                 TypeProcs, TypeHub, Marking
  <2>6. Resumed'
    BY <1>49 DEF WorkerRowFails, GoesOn, Fault, AfterUnregister,
                 TypeHub, TypeRows, TypeProcs, TypeRest, OwnedProcs, OwnedHub,
                 Marking, Resumed, NoForgottenSession, PastFindResumable, Spawning
  <2>7. QED
    BY <2>1, <2>2, <2>3, <2>4, <2>5, <2>6
<1>50. ASSUME NEW c \in Conns, FanOut(c) PROVE IInv'
  <2>1. TypeHub' /\ TypeRows' /\ TypeNet' /\ TypeAgent' /\ OwnedMsgs' /\ TypeRest' /\ OwnedHub'
    BY <1>50 DEF FanOut, TypeHub, TypeRows, TypeNet, TypeAgent, OwnedMsgs, TypeRest, OwnedHub, About
  <2>2. TypeProcs'
    BY <1>50 DEF FanOut,
                 TypeProcs, TypeHub, TypeRows, OwnedProcs
  <2>3. OwnedProcs'
    BY <1>50 DEF FanOut,
                 TypeProcs, TypeRows, TypeHub, OwnedProcs, OwnedHub
  <2>4. Marking'
    BY <1>50 DEF FanOut,
                 TypeProcs, TypeHub, Marking
  <2>5. Resumed'
    BY <1>50 DEF FanOut,
                 TypeHub, TypeRows, TypeProcs, TypeRest, OwnedProcs, OwnedHub,
                 Marking, Resumed, NoForgottenSession, PastFindResumable, Spawning
  <2>6. QED
    BY <2>1, <2>2, <2>3, <2>4, <2>5
<1>51. ASSUME NEW c \in Conns, FannedOut(c) PROVE IInv'
  <2>1. TypeHub' /\ TypeRows' /\ TypeNet' /\ TypeAgent' /\ OwnedMsgs' /\ TypeRest' /\ OwnedHub'
    BY <1>51 DEF FannedOut, TypeHub, TypeRows, TypeNet, TypeAgent, OwnedMsgs, TypeRest, OwnedHub, About
  <2>2. TypeProcs'
    BY <1>51 DEF FannedOut,
                 TypeProcs, TypeHub, TypeRows, OwnedProcs
  <2>3. OwnedProcs'
    BY <1>51 DEF FannedOut,
                 TypeProcs, TypeRows, TypeHub, OwnedProcs, OwnedHub
  <2>4. Marking'
    BY <1>51 DEF FannedOut,
                 TypeProcs, TypeHub, Marking
  <2>5. Resumed'
    BY <1>51 DEF FannedOut,
                 TypeHub, TypeRows, TypeProcs, TypeRest, OwnedProcs, OwnedHub,
                 Marking, Resumed, NoForgottenSession, PastFindResumable, Spawning
  <2>6. QED
    BY <2>1, <2>2, <2>3, <2>4, <2>5
<1>52. ASSUME NEW w \in Workers, AgentSpawnThrows(w) PROVE IInv'
  <2>1. /\ Head(toWorker[sock[w]]).sess \in Sessions
        /\ owner[Head(toWorker[sock[w]]).sess] = w
        /\ toWorker' \in [Conns -> Seq(ToWorkerMsgs)]
        /\ \A d \in Conns : About(toWorker'[d], ConnWorker[d])
    BY <1>52, AgentReceiveLemma DEF AgentSpawnThrows
  <2>2. TypeHub' /\ TypeRows' /\ TypeProcs' /\ TypeAgent' /\ OwnedProcs' /\ OwnedHub'
        /\ Marking' /\ Resumed'
    BY <1>52 DEF AgentSpawnThrows, Fault, TypeHub, TypeRows, TypeProcs, TypeAgent, OwnedProcs,
                 OwnedHub, Marking, Resumed, NoForgottenSession, PastFindResumable, Spawning
  <2>3. TypeRest'
    BY <1>52, <2>1 DEF AgentSpawnThrows, Fault, TypeRest
  <2>4. TypeNet'
    BY <1>52, <2>1 DEF AgentSpawnThrows, TypeNet
  <2>5. OwnedMsgs'
    BY <1>52, <2>1 DEF AgentSpawnThrows, OwnedMsgs, About
  <2>6. QED
    BY <2>2, <2>3, <2>4, <2>5
<1>53. CASE PingBegin \/ PingEnd
  <2>1. /\ hmu' \in {None, Pinger} /\ hmu \in {None, Pinger}
        /\ UNCHANGED <<workers, sessionIDs, relay, dbVars, procVars, outside>>
    BY <1>53 DEF PingBegin, PingEnd
  <2>2. TypeRows' /\ TypeProcs' /\ TypeNet' /\ TypeAgent' /\ TypeRest' /\ OwnedProcs'
        /\ OwnedHub' /\ OwnedMsgs' /\ Resumed'
    BY <2>1 DEF TypeRows, TypeProcs, TypeNet, TypeAgent, TypeRest, OwnedProcs, OwnedHub,
                OwnedMsgs, About, Resumed, NoForgottenSession, PastFindResumable, Spawning
  <2>3. TypeHub' /\ Marking'
    BY <2>1 DEF TypeHub, Marking
  <2>4. QED
    BY <2>2, <2>3
<1>54. ASSUME NEW x \in Conns \cup Sessions, StopsReading(x) PROVE IInv'
  <2>1. TypeHub' /\ TypeRows' /\ TypeProcs' /\ TypeNet' /\ TypeAgent' /\ OwnedProcs'
        /\ OwnedHub' /\ OwnedMsgs' /\ Marking' /\ Resumed'
    BY <1>54 DEF StopsReading, Fault, TypeHub, TypeRows, TypeProcs, TypeNet, TypeAgent,
                 OwnedProcs, OwnedHub, OwnedMsgs, About, Marking, Resumed,
                 NoForgottenSession, PastFindResumable, Spawning
  <2>2. TypeRest'
    BY <1>54 DEF StopsReading, Fault, TypeRest
  <2>3. QED
    BY <2>1, <2>2
<1>55. CASE UNCHANGED vars
  BY <1>55 DEF vars, TypeHub, TypeRows, TypeProcs, TypeNet, TypeAgent, TypeRest,
               OwnedProcs, OwnedHub, OwnedMsgs, Marking, Resumed, NoForgottenSession,
               PastFindResumable, Spawning, About
<1>56. QED
  BY <1>1, <1>2, <1>3, <1>4, <1>5, <1>6, <1>7, <1>8, <1>9, <1>10, <1>11, <1>12, <1>13,
     <1>14, <1>15, <1>16, <1>17, <1>18, <1>19, <1>20, <1>21, <1>22, <1>23, <1>24,
     <1>25, <1>26, <1>27, <1>28, <1>29, <1>30, <1>31, <1>32, <1>33, <1>34, <1>35,
     <1>36, <1>37, <1>38, <1>39, <1>40, <1>41, <1>42, <1>43, <1>44, <1>45, <1>46,
     <1>47, <1>48, <1>49, <1>50, <1>51, <1>52, <1>53, <1>54, <1>55
     DEF Next, Handler, Spawn, Unregister, StatementFails, AgentStep, Request

\* The empty hub satisfies the invariant.
LEMMA InitIInv == Init => IInv
<1> SUFFICES ASSUME Init PROVE IInv
  OBVIOUS
<1> USE SetsAssumption, BoundsAssumption DEF Init
<1>1. TypeHub /\ TypeRows /\ TypeProcs /\ TypeAgent /\ TypeRest
  BY DEF TypeHub, TypeRows, TypeProcs, TypeAgent, TypeRest
<1>2. TypeNet
  BY DEF TypeNet
<1>3. OwnedProcs /\ OwnedHub /\ OwnedMsgs /\ Marking
  BY DEF OwnedProcs, OwnedHub, OwnedMsgs, About, Marking
<1>4. Resumed
  BY DEF Resumed, NoForgottenSession, PastFindResumable
<1>5. QED
  BY <1>1, <1>2, <1>3, <1>4 DEF IInv

\* IInv holds in every state of every behaviour of the hub.
THEOREM Invariance == Spec => []IInv
  BY InitIInv, StepIInv, PTL DEF Spec

\* Every variable keeps its type; in particular no PTY exits more often than it started.
THEOREM TypeCorrect == Spec => []TypeOK
<1>1. IInv => TypeOK
  BY DEF IInv, TypeOK
<1>2. QED
  BY <1>1, Invariance, PTL

\* Routing (hub.go:208-219, 249-261, 278-366): what is sent about a session, and the
\* relay that routes it, never leave the worker in the session's row.
THEOREM RoutingHolds == Spec => []Routing
<1>1. IInv => Routing
  BY DEF IInv, OwnedHub, OwnedMsgs, About, Routing
<1>2. QED
  BY <1>1, Invariance, PTL

\* NoForgottenSession (hub.go:93-108, 113-135): a connected worker has been told to
\* resume every offline session of its, or is about to be, under any interleaving of
\* overlapping connections, removals and crashes.
THEOREM NothingForgotten == Spec => []NoForgottenSession
<1>1. IInv => NoForgottenSession
  BY DEF IInv, Resumed
<1>2. QED
  BY <1>1, Invariance, PTL
-----------------------------------------------------------------------------
(* When handlers of one worker do not overlap, see Orderly.                *)

\* One handler at a time works for a worker, and no request removes it.
Alone ==
  /\ \A c, d \in Conns :
       /\ ConnWorker[c] = ConnWorker[d]
       /\ pc[c] \notin {"idle", "done"} /\ pc[d] \notin {"idle", "done"}
       => c = d
  /\ \A w \in Workers : pc[w] = "idle"

\* It is the registered one between RegisterWorker and UnregisterWorker.
BetweenCalls(c) ==
  pc[c] \notin {"idle", "register", "marking", "markWrite", "markRelay", "workerRow",
                "workerRowWrite", "done"}
RegisteredOne == \A c \in Conns : workers[ConnWorker[c]] = c <=> BetweenCalls(c)

\* What is listed has a relay, so that UnregisterWorker finds it, and what is being recorded
\* as running is listed; only UnregisterWorker has a list of sessions to mark.
Listed ==
  /\ \A c \in Conns : \A s \in sessionIDs[c] : relay[s] # NoRelay
  /\ \A p \in Conns \cup Sessions : pc[p] = "send" => relay[cur[p]] # NoRelay
  /\ \A c \in Conns : pc[c] \in {"startedRead", "startedWrite"} => cur[c] \in sessionIDs[c]
  /\ \A c \in Conns : marks[c] # {} => pc[c] \in {"marking", "markWrite", "markRelay"}

\* Of the messages in the queue q, those of one type are about sessions with a relay.
Relayed(q, type) == \A i \in 1..Len(q) : q[i].type = type => relay[q[i].sess] # NoRelay
Announced ==
  \A c \in Conns : Relayed(toWorker[c], "spawn") /\ Relayed(toServer[c], "started")

Rows == \A w \in Workers \ faulted :
          workerRow[w] = "online" <=> \E c \in Conns : ConnWorker[c] = w /\ Serving(c)
Running ==
  \A s \in Sessions : status[s] = "running" =>
    (owner[s] # None /\ Tracked(s)) \/ s \in staleRename \cup faulted

OneHandler == Alone /\ RegisteredOne /\ Listed /\ Announced /\ Rows /\ Running
OrderlyInv == Orderly => OneHandler

\* The messages in flight: what is added is about a session with a relay.
LEMMA RelayedAppend ==
  ASSUME NEW S, NEW q \in Seq(S), NEW type, Relayed(q, type), NEW m \in S,
         m.type = type => relay[m.sess] # NoRelay
  PROVE  Relayed(Append(q, m), type)
BY DEF Relayed

LEMMA RelayedTail ==
  ASSUME NEW S, NEW q \in Seq(S), q # <<>>, NEW type, Relayed(q, type)
  PROVE  /\ Relayed(Tail(q), type)
         /\ Head(q).type = type => relay[Head(q).sess] # NoRelay
BY DEF Relayed

\* A relay is replaced, but never removed while the server runs.
LEMMA RelaysStay ==
  ASSUME IInv, Alone, Orderly, Orderly', [Next]_vars
  PROVE  \A s \in Sessions : relay[s] # NoRelay => relay'[s] # NoRelay
<1> USE SetsAssumption DEF IInv, Orderly, TypeHub, TypeProcs, TypeRest, OwnedHub, OwnedProcs, Alone
<1>1. ASSUME NEW c \in Conns, Connect(c) \/ Drop(c) \/ Handler(c)
      PROVE  \A s \in Sessions : relay[s] # NoRelay => relay'[s] # NoRelay
  BY <1>1 DEF Connect, Drop, Handler, RegisterConn, RegisterRow, FindResumable, ResumeNext,
              ResumeDone, ReceiveStarted, ReceiveExited, RowRead, RowWrite, ReceiveOutput,
              CreateRelay, FanOut, FannedOut, ReadError
<1>2. ASSUME NEW p \in Conns \cup Sessions, Spawn(p)
      PROVE  \A s \in Sessions : relay[s] # NoRelay => relay'[s] # NoRelay
  BY <1>2 DEF Spawn, SpawnLookup, SpawnRelay, SpawnSend
<1>3. ASSUME NEW p \in Conns \cup Workers, Unregister(p)
      PROVE  \A s \in Sessions : relay[s] # NoRelay => relay'[s] # NoRelay
  BY <1>3 DEF Unregister, NotRegistered, UnregisterLock, MarkRelay, MarkRead, MarkWrite,
              UnregisterUnlock, WorkerRowRead, WorkerRowWrite
<1>4. ASSUME NEW s \in Sessions, Request(s)
      PROVE  \A t \in Sessions : relay[t] # NoRelay => relay'[t] # NoRelay
  BY <1>4 DEF Request, CreateSession, RenameRead, RenameWrite, SendInput, DestroyKill,
              DestroyDelete, RegisterViewer
<1>5. ASSUME NEW w \in Workers, \/ RemoveWorker(w) \/ DeleteWorkerRow(w) \/ AgentStep(w)
                                \/ AgentRestart(w)
                                \/ \E s \in Sessions : PtyOutput(w, s) \/ PtyExit(w, s)
      PROVE  UNCHANGED relay
  BY <1>5 DEF RemoveWorker, DeleteWorkerRow, AgentStep, AgentRestart, PtyOutput, PtyExit,
              AgentSpawn, AgentSpawnFails, AgentSpawnThrows, AgentKill, AgentInput, AgentClosed
<1>6. ~ServerCrash BY DEF ServerCrash
<1>7. ASSUME \/ PingBegin \/ PingEnd \/ StatementFails
             \/ \E x \in Conns \cup Sessions : StopsReading(x)
      PROVE  UNCHANGED relay
  BY <1>7 DEF PingBegin, PingEnd, StopsReading, StatementFails, RegisterRowFails, FindResumableFails, SessionRowFails, MarkReadFails,
              MarkWriteFails, WorkerRowFails, GoesOn
<1> QED BY <1>1, <1>2, <1>3, <1>4, <1>5, <1>6, <1>7 DEF Next, vars

\* So every spawn on its way to an agent, and what it answers, is about a session with a relay.
LEMMA AnnouncedStep ==
  ASSUME IInv, OneHandler, Orderly, Orderly', [Next]_vars PROVE Announced'
<1> DEFINE Fine(out, in) ==
             \A d \in Conns : /\ out[d] \in Seq(ToWorkerMsgs) /\ Relayed(out[d], "spawn")
                              /\ in[d] \in Seq(ToServerMsgs) /\ Relayed(in[d], "started")
<1> USE SetsAssumption DEF IInv, OneHandler, Orderly, TypeProcs, TypeNet, TypeRest
<1>q. Fine(toWorker, toServer)
  BY DEF Announced
<1>m. /\ \A m \in ToWorkerMsgs \cup ToServerMsgs : m.sess \in Sessions
      /\ \A s \in Sessions, type \in {"spawn", "input", "kill"} :
           [type |-> type, sess |-> s] \in ToWorkerMsgs
      /\ \A s \in Sessions, type \in {"started", "exited", "output"} :
           [type |-> type, sess |-> s] \in ToServerMsgs
  BY DEF ToWorkerMsgs, ToServerMsgs
\* It is enough to look at what the steps do to the queues, with the relays of before.
<1>n. SUFFICES Fine(toWorker', toServer')
  <2>1. \A s \in Sessions : relay[s] # NoRelay => relay'[s] # NoRelay BY RelaysStay
  <2>2. ASSUME NEW S \in {ToWorkerMsgs, ToServerMsgs}, NEW q \in Seq(S), NEW type, Relayed(q, type)
        PROVE  \A i \in 1..Len(q) : q[i].type = type => relay'[q[i].sess] # NoRelay
    <3> SUFFICES ASSUME NEW i \in 1..Len(q), q[i].type = type PROVE relay'[q[i].sess] # NoRelay
      OBVIOUS
    <3>1. q[i] \in S OBVIOUS
    <3>2. q[i].sess \in Sessions BY <1>m, <3>1
    <3>3. relay[q[i].sess] # NoRelay BY <2>2 DEF Relayed
    <3> QED BY <2>1, <3>2, <3>3
  <2> QED BY <2>2 DEF Announced, Relayed
<1>e. \A type : <<>> \in Seq(ToWorkerMsgs) /\ <<>> \in Seq(ToServerMsgs) /\ Relayed(<<>>, type)
  BY DEF Relayed
<1>w. ASSUME NEW c \in Conns, NEW s \in Sessions, NEW type \in {"spawn", "input", "kill"},
             type = "spawn" => relay[s] # NoRelay, WriteToWorker(c, type, s)
      PROVE  \A d \in Conns : toWorker'[d] \in Seq(ToWorkerMsgs) /\ Relayed(toWorker'[d], "spawn")
  <2> DEFINE m == [type |-> type, sess |-> s]
  <2>1. Append(toWorker[c], m) \in Seq(ToWorkerMsgs) /\ Relayed(Append(toWorker[c], m), "spawn")
    <3>1. m \in ToWorkerMsgs /\ (m.type = "spawn" => relay[m.sess] # NoRelay) BY <1>w, <1>m
    <3> QED BY <1>q, <3>1, RelayedAppend
  <2> QED BY <1>q, <1>w, <2>1 DEF WriteToWorker
<1>s. ASSUME NEW w \in Workers, NEW s \in Sessions, NEW type \in {"started", "exited", "output"},
             type = "started" => relay[s] # NoRelay, SendToServer(w, type, s)
      PROVE  \A d \in Conns : toServer'[d] \in Seq(ToServerMsgs) /\ Relayed(toServer'[d], "started")
  <2> DEFINE m == [type |-> type, sess |-> s]
  <2>1. CASE sock[w] # None
    <3>1. m \in ToServerMsgs /\ (m.type = "started" => relay[m.sess] # NoRelay) BY <1>s, <1>m
    <3>2. sock[w] \in Conns BY <2>1
    <3>3. /\ Append(toServer[sock[w]], m) \in Seq(ToServerMsgs)
          /\ Relayed(Append(toServer[sock[w]], m), "started")
      BY <1>q, <3>1, <3>2, RelayedAppend
    <3> QED BY <1>q, <1>s, <3>2, <3>3 DEF SendToServer
  <2>2. CASE sock[w] = None BY <1>q, <1>s, <2>2 DEF SendToServer
  <2> QED BY <2>1, <2>2
<1>a. ASSUME NEW w \in Workers, NEW type, AgentReceive(w, type)
      PROVE  /\ \A d \in Conns : toWorker'[d] \in Seq(ToWorkerMsgs) /\ Relayed(toWorker'[d], "spawn")
             /\ Head(toWorker[sock[w]]).sess \in Sessions
             /\ type = "spawn" => relay[Head(toWorker[sock[w]]).sess] # NoRelay
  <2>1. sock[w] \in Conns /\ toWorker[sock[w]] # <<>> BY <1>a DEF AgentReceive
  <2>2. /\ Tail(toWorker[sock[w]]) \in Seq(ToWorkerMsgs) /\ Head(toWorker[sock[w]]) \in ToWorkerMsgs
    BY <1>q, <2>1
  <2>3. /\ Relayed(Tail(toWorker[sock[w]]), "spawn")
        /\ Head(toWorker[sock[w]]).type = "spawn" => relay[Head(toWorker[sock[w]]).sess] # NoRelay
    BY <1>q, <2>1, RelayedTail
  <2> QED BY <1>q, <1>m, <1>a, <2>1, <2>2, <2>3 DEF AgentReceive
<1>r. ASSUME NEW c \in Conns, NEW type, Receive(c, type)
      PROVE  \A d \in Conns : toServer'[d] \in Seq(ToServerMsgs) /\ Relayed(toServer'[d], "started")
  <2>1. toServer[c] # <<>> /\ Tail(toServer[c]) \in Seq(ToServerMsgs) BY <1>q, <1>r DEF Receive
  <2>2. Relayed(Tail(toServer[c]), "started") BY <1>q, <2>1, RelayedTail
  <2> QED BY <1>q, <1>r, <2>1, <2>2 DEF Receive
<1>1. ASSUME NEW c \in Conns, Connect(c) \/ Drop(c) \/ Handler(c)
      PROVE  Fine(toWorker', toServer')
  <2>1. CASE ReceiveStarted(c) \/ ReceiveExited(c) \/ ReceiveOutput(c)
    BY <1>q, <1>r, <2>1 DEF ReceiveStarted, ReceiveExited, ReceiveOutput
  <2>2. CASE ReadError(c) BY <1>q, <1>e, <2>2 DEF ReadError
  <2>3. CASE ~ReceiveStarted(c) /\ ~ReceiveExited(c) /\ ~ReceiveOutput(c) /\ ~ReadError(c)
    <3>1. UNCHANGED <<toWorker, toServer>>
      BY <1>1, <2>3 DEF Connect, Drop, Handler, RegisterConn, RegisterRow, FindResumable, ResumeNext,
                        ResumeDone, RowRead, RowWrite, CreateRelay, FanOut, FannedOut
    <3> QED BY <1>q, <3>1
  <2> QED BY <2>1, <2>2, <2>3
<1>2. ASSUME NEW p \in Conns \cup Sessions, Spawn(p)
      PROVE  Fine(toWorker', toServer')
  <2>1. CASE SpawnSend(p)
    <3>1. want[p] \in Conns /\ cur[p] \in Sessions /\ relay[cur[p]] # NoRelay
      BY <2>1 DEF SpawnSend, OwnedProcs, Listed
    <3> QED BY <1>q, <1>w, <2>1, <3>1 DEF SpawnSend
  <2>2. CASE SpawnLookup(p) \/ SpawnRelay(p) BY <1>q, <2>2 DEF SpawnLookup, SpawnRelay
  <2> QED BY <1>2, <2>1, <2>2 DEF Spawn
<1>3. ASSUME NEW p \in Conns \cup Workers, Unregister(p)
      PROVE  UNCHANGED <<toWorker, toServer>>
  BY <1>3 DEF Unregister, NotRegistered, UnregisterLock, MarkRelay, MarkRead, MarkWrite,
              UnregisterUnlock, WorkerRowRead, WorkerRowWrite
<1>4. ASSUME NEW s \in Sessions, Request(s)
      PROVE  Fine(toWorker', toServer')
  <2>0. Route(s) = None \/ Route(s) \in Conns BY DEF Route, TypeHub
  <2>1. CASE SendInput(s)
    <3>1. WriteToWorker(Route(s), "input", s) /\ Route(s) # None /\ UNCHANGED toServer
      BY <2>1 DEF SendInput
    <3> QED BY <1>q, <1>w, <2>0, <3>1
  <2>2. CASE DestroyKill(s)
    <3>1. CASE Route(s) = None BY <1>q, <2>2, <3>1 DEF DestroyKill
    <3>2. CASE Route(s) # None BY <1>q, <1>w, <2>0, <2>2, <3>2 DEF DestroyKill
    <3> QED BY <3>1, <3>2
  <2>3. CASE \/ CreateSession(s) \/ RenameRead(s) \/ RenameWrite(s) \/ DestroyDelete(s)
             \/ RegisterViewer(s)
    <3>1. UNCHANGED <<toWorker, toServer>>
      BY <2>3 DEF CreateSession, RenameRead, RenameWrite, DestroyDelete, RegisterViewer
    <3> QED BY <1>q, <3>1
  <2> QED BY <1>4, <2>1, <2>2, <2>3 DEF Request
<1>5. ASSUME NEW w \in Workers, AgentStep(w)
      PROVE  Fine(toWorker', toServer')
  <2>1. CASE AgentSpawn(w) BY <1>a, <1>s, <2>1 DEF AgentSpawn
  <2>2. CASE AgentSpawnFails(w) BY <1>a, <1>s, <2>2 DEF AgentSpawnFails
  <2>3. CASE AgentKill(w) \/ AgentInput(w) BY <1>q, <1>a, <2>3 DEF AgentKill, AgentInput
  <2>4. CASE AgentClosed(w) BY <1>q, <1>e, <2>4 DEF AgentClosed
  <2>5. CASE AgentSpawnThrows(w) BY <1>q, <1>a, <2>5 DEF AgentSpawnThrows
  <2> QED BY <1>5, <2>1, <2>2, <2>3, <2>4, <2>5 DEF AgentStep
<1>6. ASSUME NEW w \in Workers, NEW s \in Sessions, PtyOutput(w, s) \/ PtyExit(w, s)
      PROVE  Fine(toWorker', toServer')
  BY <1>q, <1>s, <1>6 DEF PtyOutput, PtyExit
<1>7. ASSUME NEW w \in Workers, AgentRestart(w)
      PROVE  Fine(toWorker', toServer')
  BY <1>q, <1>e, <1>7 DEF AgentRestart
<1>8. ASSUME NEW w \in Workers, RemoveWorker(w) \/ DeleteWorkerRow(w)
      PROVE  UNCHANGED <<toWorker, toServer>>
  BY <1>8 DEF RemoveWorker, DeleteWorkerRow
<1>9. ~ServerCrash BY DEF ServerCrash
<1>10. ASSUME \/ PingBegin \/ PingEnd \/ StatementFails
              \/ \E x \in Conns \cup Sessions : StopsReading(x)
       PROVE  UNCHANGED <<toWorker, toServer>>
  BY <1>10 DEF PingBegin, PingEnd, StopsReading, StatementFails, RegisterRowFails, FindResumableFails, SessionRowFails, MarkReadFails,
              MarkWriteFails, WorkerRowFails, GoesOn
<1> QED BY <1>q, <1>1, <1>2, <1>3, <1>4, <1>5, <1>6, <1>7, <1>8, <1>9, <1>10 DEF Next, vars

\* Who is recording the end of a session.
Ending(c) == pc[c] \in {"markWrite", "exitedRead", "exitedWrite"}

\* Steps that leave alone what a session is tracked by.
LEMMA StillTracked ==
  ASSUME Running, UNCHANGED <<status, owner, workers, sessionIDs, marks, staleRename, faulted>>,
         \A c \in Conns : Ending(c) => pc'[c] = pc[c] /\ cur'[c] = cur[c]
  PROVE  Running'
<1> SUFFICES ASSUME NEW s \in Sessions, Tracked(s) PROVE Tracked(s)'
  BY DEF Running
<1> QED BY DEF Tracked, Ending

\* Every step of the handlers and requests, in orderly circumstances.
LEMMA HandlerStep ==
  ASSUME IInv, OneHandler, Orderly, Orderly', [Next]_vars
  PROVE  (Alone /\ RegisteredOne /\ Listed /\ Rows /\ Running)'
<1> DEFINE Kept == Alone /\ RegisteredOne /\ Listed /\ Rows /\ Running
<1> USE SetsAssumption DEF IInv, OneHandler, Orderly, TypeHub, TypeRows, TypeProcs, TypeRest

<1>1. ASSUME NEW c \in Conns, Connect(c) PROVE Kept'
  <2>1. Alone'
    BY <1>1 DEF Connect, Alone
  <2>2. RegisteredOne'
    BY <1>1 DEF Connect, Alone, RegisteredOne, BetweenCalls, OwnedHub
  <2>3. Listed'
    BY <1>1 DEF Connect, Alone, RegisteredOne, BetweenCalls, Listed, OwnedHub,
        OwnedProcs
  <2>4. Rows'
    BY <1>1 DEF Connect, Alone, RegisteredOne, BetweenCalls, Rows, Serving, OwnedHub
  <2>5. \A d \in Conns : Ending(d) => pc'[d] = pc[d] /\ cur'[d] = cur[d]
    BY <1>1 DEF Connect, Ending
  <2>6. UNCHANGED <<status, owner, workers, sessionIDs, marks, staleRename, faulted>>
    BY <1>1 DEF Connect
  <2> QED BY <2>1, <2>2, <2>3, <2>4, <2>5, <2>6, StillTracked
<1>2. ASSUME NEW c \in Conns, RegisterConn(c) PROVE Kept'
  <2>1. Alone'
    BY <1>2 DEF RegisterConn, Alone
  <2>2. RegisteredOne'
    BY <1>2 DEF RegisterConn, Alone, RegisteredOne, BetweenCalls, OwnedHub
  <2>3. Listed'
    BY <1>2 DEF RegisterConn, Alone, RegisteredOne, BetweenCalls, Listed, OwnedHub,
        OwnedProcs
  <2>4. Rows'
    BY <1>2 DEF RegisterConn, Alone, RegisteredOne, BetweenCalls, Rows, Serving, OwnedHub
  <2>5. Running'
    <3> SUFFICES ASSUME NEW s \in Sessions, owner[s] \in Workers, Tracked(s) PROVE Tracked(s)'
      BY <1>2 DEF RegisterConn, Running
    <3>1. pc[c] = "register" /\ workers' = [workers EXCEPT ![ConnWorker[c]] = c]
          /\ pc' = [pc EXCEPT ![c] = "row"] /\ UNCHANGED <<owner, sessionIDs, marks, cur>>
      BY <1>2 DEF RegisterConn
    <3>2. workers[ConnWorker[c]] = None
      <4> SUFFICES ASSUME NEW d \in Conns, workers[ConnWorker[c]] = d PROVE FALSE
        OBVIOUS
      <4>1. ConnWorker[d] = ConnWorker[c] BY DEF OwnedHub
      <4>2. BetweenCalls(d) BY <4>1 DEF RegisteredOne
      <4>3. pc[d] \notin {"idle", "done"} /\ d # c BY <3>1, <4>2 DEF BetweenCalls
      <4> QED BY <3>1, <4>1, <4>3 DEF Alone
    <3> QED BY <3>1, <3>2 DEF Tracked
  <2> QED BY <2>1, <2>2, <2>3, <2>4, <2>5
<1>3. ASSUME NEW c \in Conns, RegisterRow(c) PROVE Kept'
  <2>1. Alone'
    BY <1>3 DEF RegisterRow, Alone
  <2>2. RegisteredOne'
    BY <1>3 DEF RegisterRow, Alone, RegisteredOne, BetweenCalls, OwnedHub
  <2>3. Listed'
    BY <1>3 DEF RegisterRow, Alone, RegisteredOne, BetweenCalls, Listed, OwnedHub,
        OwnedProcs
  <2>4. Rows'
    BY <1>3 DEF RegisterRow, Alone, RegisteredOne, BetweenCalls, Rows, Serving, OwnedHub
  <2>5. \A d \in Conns : Ending(d) => pc'[d] = pc[d] /\ cur'[d] = cur[d]
    BY <1>3 DEF RegisterRow, Ending
  <2>6. UNCHANGED <<status, owner, workers, sessionIDs, marks, staleRename, faulted>>
    BY <1>3 DEF RegisterRow
  <2> QED BY <2>1, <2>2, <2>3, <2>4, <2>5, <2>6, StillTracked
<1>4. ASSUME NEW c \in Conns, FindResumable(c) PROVE Kept'
  <2>1. Alone'
    BY <1>4 DEF FindResumable, Resumable, Alone
  <2>2. RegisteredOne'
    BY <1>4 DEF FindResumable, Resumable, Alone, RegisteredOne, BetweenCalls, OwnedHub
  <2>3. Listed'
    BY <1>4 DEF FindResumable, Resumable, Alone, RegisteredOne, BetweenCalls, Listed,
        OwnedHub, OwnedProcs
  <2>4. Rows'
    BY <1>4 DEF FindResumable, Resumable, Alone, RegisteredOne, BetweenCalls, Rows,
        Serving, OwnedHub
  <2>5. \A d \in Conns : Ending(d) => pc'[d] = pc[d] /\ cur'[d] = cur[d]
    BY <1>4 DEF FindResumable, Resumable, Ending
  <2>6. UNCHANGED <<status, owner, workers, sessionIDs, marks, staleRename, faulted>>
    BY <1>4 DEF FindResumable, Resumable
  <2> QED BY <2>1, <2>2, <2>3, <2>4, <2>5, <2>6, StillTracked
<1>5. ASSUME NEW c \in Conns, ResumeNext(c) PROVE Kept'
  <2>1. Alone'
    BY <1>5 DEF ResumeNext, Alone
  <2>2. RegisteredOne'
    BY <1>5 DEF ResumeNext, Alone, RegisteredOne, BetweenCalls, OwnedHub
  <2>3. Listed'
    BY <1>5 DEF ResumeNext, Alone, RegisteredOne, BetweenCalls, Listed, OwnedHub,
        OwnedProcs
  <2>4. Rows'
    BY <1>5 DEF ResumeNext, Alone, RegisteredOne, BetweenCalls, Rows, Serving, OwnedHub
  <2>5. \A d \in Conns : Ending(d) => pc'[d] = pc[d] /\ cur'[d] = cur[d]
    BY <1>5 DEF ResumeNext, Ending
  <2>6. UNCHANGED <<status, owner, workers, sessionIDs, marks, staleRename, faulted>>
    BY <1>5 DEF ResumeNext
  <2> QED BY <2>1, <2>2, <2>3, <2>4, <2>5, <2>6, StillTracked
<1>6. ASSUME NEW c \in Conns, ResumeDone(c) PROVE Kept'
  <2>1. Alone'
    BY <1>6 DEF ResumeDone, Alone
  <2>2. RegisteredOne'
    BY <1>6 DEF ResumeDone, Alone, RegisteredOne, BetweenCalls, OwnedHub
  <2>3. Listed'
    BY <1>6 DEF ResumeDone, Alone, RegisteredOne, BetweenCalls, Listed, OwnedHub,
        OwnedProcs
  <2>4. Rows'
    BY <1>6 DEF ResumeDone, Alone, RegisteredOne, BetweenCalls, Rows, Serving, OwnedHub
  <2>5. \A d \in Conns : Ending(d) => pc'[d] = pc[d] /\ cur'[d] = cur[d]
    BY <1>6 DEF ResumeDone, Ending
  <2>6. UNCHANGED <<status, owner, workers, sessionIDs, marks, staleRename, faulted>>
    BY <1>6 DEF ResumeDone
  <2> QED BY <2>1, <2>2, <2>3, <2>4, <2>5, <2>6, StillTracked
<1>7. ASSUME NEW c \in Conns, ReceiveStarted(c) PROVE Kept'
  <2>1. Alone'
    BY <1>7 DEF ReceiveStarted, Receive, Registered, Alone
  <2>2. RegisteredOne'
    BY <1>7 DEF ReceiveStarted, Receive, Registered, Alone, RegisteredOne, BetweenCalls,
        OwnedHub
  <2>3. Listed'
    <3>1. cur'[c] \in Sessions /\ (\A p \in Procs : p # c => cur'[p] = cur[p])
      BY <1>7, ReceiveLemma DEF ReceiveStarted
    <3>2. relay[cur'[c]] # NoRelay
      <4>1. toServer[c] \in Seq(ToServerMsgs) /\ Relayed(toServer[c], "started")
        BY DEF TypeNet, Announced
      <4>2. /\ toServer[c] # <<>> /\ Head(toServer[c]).type = "started"
            /\ cur'[c] = Head(toServer[c]).sess
        BY <1>7 DEF ReceiveStarted, Receive
      <4>3. Head(toServer[c]).type = "started" => relay[Head(toServer[c]).sess] # NoRelay
        BY <4>1, <4>2, RelayedTail
      <4> QED BY <4>2, <4>3
    <3>3. workers[ConnWorker[c]] = c
      BY <1>7 DEF ReceiveStarted, Receive, RegisteredOne, BetweenCalls
    <3>4. /\ sessionIDs' = [sessionIDs EXCEPT ![c] = sessionIDs[c] \cup {cur'[c]}]
      BY <1>7, <3>3 DEF ReceiveStarted, Registered
    <3>5. /\ pc' = [pc EXCEPT ![c] = "startedRead"] /\ UNCHANGED <<relay, marks>>
          /\ pc[c] = "reading"
      BY <1>7 DEF ReceiveStarted, Receive
    <3>6. \A d \in Conns : \A s \in sessionIDs'[d] : relay'[s] # NoRelay
      BY <3>2, <3>4, <3>5 DEF Listed
    <3>7. \A p \in Conns \cup Sessions : pc'[p] = "send" => relay'[cur'[p]] # NoRelay
      BY <3>1, <3>5 DEF Listed
    <3>8. \A d \in Conns : pc'[d] \in {"startedRead", "startedWrite"} => cur'[d] \in sessionIDs'[d]
      BY <3>1, <3>4, <3>5 DEF Listed
    <3>9. \A d \in Conns : marks'[d] # {} => pc'[d] \in {"marking", "markWrite", "markRelay"}
      BY <3>5 DEF Listed
    <3> QED BY <3>6, <3>7, <3>8, <3>9 DEF Listed
  <2>4. Rows'
    BY <1>7 DEF ReceiveStarted, Receive, Registered, Alone, RegisteredOne, BetweenCalls,
        Rows, Serving, OwnedHub
  <2>5. Running'
    <3> SUFFICES ASSUME NEW s \in Sessions, owner[s] \in Workers, Tracked(s) PROVE Tracked(s)'
      BY <1>7 DEF ReceiveStarted, Running
    <3>1. /\ pc[c] = "reading" /\ pc' = [pc EXCEPT ![c] = "startedRead"]
          /\ UNCHANGED <<workers, owner, marks>>
      BY <1>7 DEF ReceiveStarted, Receive
    <3>2. \A p \in Procs : p # c => cur'[p] = cur[p]
      BY <1>7, ReceiveLemma DEF ReceiveStarted
    <3>3. \A d \in Conns : sessionIDs[d] \subseteq sessionIDs'[d]
      BY <1>7 DEF ReceiveStarted, Registered
    <3>4. CASE workers[owner[s]] # None /\ s \in sessionIDs[workers[owner[s]]]
      <4>1. workers[owner[s]] \in Conns BY <3>4 DEF OwnedHub
      <4>2. s \in sessionIDs'[workers[owner[s]]] BY <3>3, <3>4, <4>1
      <4> QED BY <3>1, <3>4, <4>2 DEF Tracked
    <3>5. CASE \E d \in Conns : s \in marks[d] \/ (Ending(d) /\ cur[d] = s)
      <4>1. PICK d \in Conns : s \in marks[d] \/ (Ending(d) /\ cur[d] = s) BY <3>5
      <4>2. s \in marks'[d] \/ (Ending(d)' /\ cur'[d] = s) BY <3>1, <3>2, <4>1 DEF Ending
      <4> QED BY <4>2 DEF Tracked, Ending
    <3> QED BY <3>4, <3>5 DEF Tracked, Ending
  <2> QED BY <2>1, <2>2, <2>3, <2>4, <2>5
<1>8. ASSUME NEW c \in Conns, ReceiveExited(c) PROVE Kept'
  <2>1. Alone'
    BY <1>8 DEF ReceiveExited, Receive, Registered, Alone
  <2>2. RegisteredOne'
    BY <1>8 DEF ReceiveExited, Receive, Registered, Alone, RegisteredOne, BetweenCalls,
        OwnedHub
  <2>3. Listed'
    <3>1. /\ pc[c] = "reading" /\ pc' = [pc EXCEPT ![c] = "exitedRead"]
          /\ UNCHANGED <<relay, marks>>
      BY <1>8 DEF ReceiveExited, Receive
    <3>2. \A p \in Procs : p # c => cur'[p] = cur[p]
      BY <1>8, ReceiveLemma DEF ReceiveExited
    <3>3. /\ \A d \in Conns : sessionIDs'[d] \subseteq sessionIDs[d]
          /\ \A d \in Conns : d # c => sessionIDs'[d] = sessionIDs[d]
      <4>1. workers[ConnWorker[c]] = c BY <3>1 DEF RegisteredOne, BetweenCalls
      <4> QED BY <1>8, <4>1 DEF ReceiveExited, Registered
    <3> QED BY <3>1, <3>2, <3>3 DEF Listed
  <2>4. Rows'
    BY <1>8 DEF ReceiveExited, Receive, Registered, Alone, RegisteredOne, BetweenCalls,
        Rows, Serving, OwnedHub
  <2>5. Running'
    <3> SUFFICES ASSUME NEW s \in Sessions, owner[s] \in Workers, Tracked(s) PROVE Tracked(s)'
      BY <1>8 DEF ReceiveExited, Running
    <3>1. /\ pc[c] = "reading" /\ pc' = [pc EXCEPT ![c] = "exitedRead"]
          /\ UNCHANGED <<workers, owner, marks>>
      BY <1>8 DEF ReceiveExited, Receive
    <3>2. cur'[c] \in Sessions /\ (\A p \in Procs : p # c => cur'[p] = cur[p])
      BY <1>8, ReceiveLemma DEF ReceiveExited
    <3>3. \A d \in Conns : sessionIDs[d] \ {cur'[c]} \subseteq sessionIDs'[d]
      BY <1>8 DEF ReceiveExited, Registered
    <3>4. CASE s = cur'[c] BY <3>1, <3>4 DEF Tracked
    <3>5. CASE /\ s # cur'[c] /\ workers[owner[s]] # None
               /\ s \in sessionIDs[workers[owner[s]]]
      <4>1. workers[owner[s]] \in Conns BY <3>5 DEF OwnedHub
      <4>2. s \in sessionIDs'[workers[owner[s]]] BY <3>3, <3>5, <4>1
      <4> QED BY <3>1, <3>5, <4>2 DEF Tracked
    <3>6. CASE \E d \in Conns : s \in marks[d] \/ (Ending(d) /\ cur[d] = s)
      <4>1. PICK d \in Conns : s \in marks[d] \/ (Ending(d) /\ cur[d] = s) BY <3>6
      <4>2. d = c => s \in marks'[d] BY <3>1, <4>1 DEF Ending
      <4>3. d # c => s \in marks'[d] \/ (Ending(d)' /\ cur'[d] = s) BY <3>1, <3>2, <4>1 DEF Ending
      <4> QED BY <4>2, <4>3 DEF Tracked, Ending
    <3> QED BY <3>4, <3>5, <3>6 DEF Tracked, Ending
  <2> QED BY <2>1, <2>2, <2>3, <2>4, <2>5
<1>9. ASSUME NEW c \in Conns, RowRead(c) PROVE Kept'
  BY <1>9 DEF RowRead, Alone, RegisteredOne, BetweenCalls, Listed, Rows, Serving,
    Running, Tracked, Ending, OwnedHub, OwnedProcs
<1>10. ASSUME NEW c \in Conns, RowWrite(c) PROVE Kept'
  BY <1>10 DEF RowWrite, Alone, RegisteredOne, BetweenCalls, Listed, Rows, Serving,
    Running, Tracked, Ending, OwnedHub, OwnedProcs
<1>11. ASSUME NEW c \in Conns, ReceiveOutput(c) PROVE Kept'
  <2>1. Alone'
    BY <1>11 DEF ReceiveOutput, Receive, Alone
  <2>2. RegisteredOne'
    BY <1>11 DEF ReceiveOutput, Receive, Alone, RegisteredOne, BetweenCalls, OwnedHub
  <2>3. Listed'
    BY <1>11 DEF ReceiveOutput, Receive, Alone, RegisteredOne, BetweenCalls, Listed,
        OwnedHub, OwnedProcs
  <2>4. Rows'
    BY <1>11 DEF ReceiveOutput, Receive, Alone, RegisteredOne, BetweenCalls, Rows,
        Serving, OwnedHub
  <2>5. \A d \in Conns : Ending(d) => pc'[d] = pc[d] /\ cur'[d] = cur[d]
    BY <1>11 DEF ReceiveOutput, Receive, Ending
  <2>6. UNCHANGED <<status, owner, workers, sessionIDs, marks, staleRename, faulted>>
    BY <1>11 DEF ReceiveOutput, Receive
  <2> QED BY <2>1, <2>2, <2>3, <2>4, <2>5, <2>6, StillTracked
<1>12. ASSUME NEW c \in Conns, CreateRelay(c) PROVE Kept'
  <2>1. Alone'
    BY <1>12 DEF CreateRelay, Alone
  <2>2. RegisteredOne'
    BY <1>12 DEF CreateRelay, Alone, RegisteredOne, BetweenCalls, OwnedHub
  <2>3. Listed'
    BY <1>12 DEF CreateRelay, Alone, RegisteredOne, BetweenCalls, Listed, OwnedHub,
        OwnedProcs
  <2>4. Rows'
    BY <1>12 DEF CreateRelay, Alone, RegisteredOne, BetweenCalls, Rows, Serving,
        OwnedHub
  <2>5. \A d \in Conns : Ending(d) => pc'[d] = pc[d] /\ cur'[d] = cur[d]
    BY <1>12 DEF CreateRelay, Ending
  <2>6. UNCHANGED <<status, owner, workers, sessionIDs, marks, staleRename, faulted>>
    BY <1>12 DEF CreateRelay
  <2> QED BY <2>1, <2>2, <2>3, <2>4, <2>5, <2>6, StillTracked
<1>13. ASSUME NEW c \in Conns, ReadError(c) PROVE Kept'
  <2>1. Alone'
    BY <1>13 DEF ReadError, Alone
  <2>2. RegisteredOne'
    BY <1>13 DEF ReadError, Alone, RegisteredOne, BetweenCalls, OwnedHub
  <2>3. Listed'
    BY <1>13 DEF ReadError, Alone, RegisteredOne, BetweenCalls, Listed, OwnedHub,
        OwnedProcs
  <2>4. Rows'
    BY <1>13 DEF ReadError, Alone, RegisteredOne, BetweenCalls, Rows, Serving, OwnedHub
  <2>5. \A d \in Conns : Ending(d) => pc'[d] = pc[d] /\ cur'[d] = cur[d]
    BY <1>13 DEF ReadError, Ending
  <2>6. UNCHANGED <<status, owner, workers, sessionIDs, marks, staleRename, faulted>>
    BY <1>13 DEF ReadError
  <2> QED BY <2>1, <2>2, <2>3, <2>4, <2>5, <2>6, StillTracked
<1>14. ASSUME NEW c \in Conns, NotRegistered(c) PROVE Kept'
  BY <1>14 DEF NotRegistered, RegisteredOne, BetweenCalls
<1>15. ASSUME NEW c \in Conns, UnregisterLock(c) PROVE Kept'
  <2>1. Alone'
    BY <1>15 DEF UnregisterLock, Alone
  <2>2. RegisteredOne'
    BY <1>15 DEF UnregisterLock, Alone, RegisteredOne, BetweenCalls, OwnedHub
  <2>3. Listed'
    BY <1>15 DEF UnregisterLock, Alone, RegisteredOne, BetweenCalls, Listed, OwnedHub,
        OwnedProcs
  <2>4. Rows'
    BY <1>15 DEF UnregisterLock, Alone, RegisteredOne, BetweenCalls, Rows, Serving, OwnedHub
  <2>5. Running'
    <3> SUFFICES ASSUME NEW s \in Sessions, owner[s] \in Workers, Tracked(s) PROVE Tracked(s)'
      BY <1>15 DEF UnregisterLock, Running
    <3>1. /\ workers' = [workers EXCEPT ![ConnWorker[c]] = None]
          /\ pc[c] = "unregister" /\ pc' = [pc EXCEPT ![c] = "marking"]
          /\ marks' = [marks EXCEPT ![c] =
                         {t \in sessionIDs[workers[ConnWorker[c]]] : relay[t] # NoRelay}]
          /\ UNCHANGED <<owner, sessionIDs, cur>>
      BY <1>15 DEF UnregisterLock
    <3>2. workers[ConnWorker[c]] = c BY <3>1 DEF RegisteredOne, BetweenCalls
    <3>3. CASE workers[owner[s]] = c /\ s \in sessionIDs[c]
      <4>1. s \in marks'[c] BY <3>1, <3>2, <3>3 DEF Listed
      <4> QED BY <4>1 DEF Tracked
    <3>4. CASE /\ workers[owner[s]] \notin {None, c} /\ s \in sessionIDs[workers[owner[s]]]
      <4>1. owner[s] # ConnWorker[c] BY <3>2, <3>4
      <4> QED BY <3>1, <3>4, <4>1 DEF Tracked
    <3>5. CASE \E d \in Conns : \/ s \in marks[d]
                                \/ /\ pc[d] \in {"markWrite", "exitedRead", "exitedWrite"}
                                   /\ cur[d] = s
      <4>1. PICK d \in Conns : \/ s \in marks[d]
                               \/ /\ pc[d] \in {"markWrite", "exitedRead", "exitedWrite"}
                                  /\ cur[d] = s
        BY <3>5
      <4>2. d # c BY <3>1, <4>1 DEF Listed
      <4> QED BY <3>1, <4>1, <4>2 DEF Tracked
    <3> QED BY <3>3, <3>4, <3>5 DEF Tracked
  <2> QED BY <2>1, <2>2, <2>3, <2>4, <2>5
<1>16. ASSUME NEW c \in Conns, MarkRelay(c) PROVE Kept'
  <2>1. Alone' /\ RegisteredOne'
    BY <1>16 DEF MarkRelay, Alone, RegisteredOne, BetweenCalls, OwnedHub
  <2>2. Listed'
    BY <1>16 DEF MarkRelay, Alone, RegisteredOne, BetweenCalls, Listed, OwnedHub,
        OwnedProcs
  <2>3. Rows'
    BY <1>16 DEF MarkRelay, Alone, RegisteredOne, BetweenCalls, Rows, Serving, OwnedHub
  <2>4. Running'
    BY <1>16 DEF MarkRelay, Alone, RegisteredOne, BetweenCalls, Listed, Running,
        Tracked, OwnedHub, OwnedProcs
  <2> QED BY <2>1, <2>2, <2>3, <2>4
<1>17. ASSUME NEW c \in Conns, MarkRead(c) PROVE Kept'
  <2>1. Alone'
    BY <1>17 DEF MarkRead, Alone
  <2>2. RegisteredOne'
    BY <1>17 DEF MarkRead, Alone, RegisteredOne, BetweenCalls, OwnedHub
  <2>3. Listed'
    BY <1>17 DEF MarkRead, Alone, RegisteredOne, BetweenCalls, Listed, OwnedHub, OwnedProcs
  <2>4. Rows'
    BY <1>17 DEF MarkRead, Alone, RegisteredOne, BetweenCalls, Rows, Serving, OwnedHub
  <2>5. Running'
    BY <1>17 DEF MarkRead, Alone, RegisteredOne, BetweenCalls, Listed, Running, Tracked,
        OwnedHub, OwnedProcs
  <2> QED BY <2>1, <2>2, <2>3, <2>4, <2>5
<1>18. ASSUME NEW c \in Conns, MarkWrite(c) PROVE Kept'
  <2>1. Alone' /\ RegisteredOne'
    BY <1>18 DEF MarkWrite, Alone, RegisteredOne, BetweenCalls, OwnedHub
  <2>2. Listed'
    BY <1>18 DEF MarkWrite, Alone, RegisteredOne, BetweenCalls, Listed, OwnedHub,
        OwnedProcs
  <2>3. Rows'
    BY <1>18 DEF MarkWrite, Alone, RegisteredOne, BetweenCalls, Rows, Serving, OwnedHub
  <2>4. Running'
    BY <1>18 DEF MarkWrite, Alone, RegisteredOne, BetweenCalls, Listed, Running,
        Tracked, OwnedHub, OwnedProcs
  <2> QED BY <2>1, <2>2, <2>3, <2>4
<1>19. ASSUME NEW c \in Conns, UnregisterUnlock(c) PROVE Kept'
  <2>1. Alone'
    BY <1>19 DEF UnregisterUnlock, Alone
  <2>2. RegisteredOne'
    BY <1>19 DEF UnregisterUnlock, Alone, RegisteredOne, BetweenCalls, OwnedHub
  <2>3. Listed'
    BY <1>19 DEF UnregisterUnlock, Alone, RegisteredOne, BetweenCalls, Listed, OwnedHub,
        OwnedProcs
  <2>4. Rows'
    BY <1>19 DEF UnregisterUnlock, Alone, RegisteredOne, BetweenCalls, Rows, Serving,
        OwnedHub
  <2>5. \A d \in Conns : Ending(d) => pc'[d] = pc[d] /\ cur'[d] = cur[d]
    BY <1>19 DEF UnregisterUnlock, Ending
  <2>6. UNCHANGED <<status, owner, workers, sessionIDs, marks, staleRename, faulted>>
    BY <1>19 DEF UnregisterUnlock
  <2> QED BY <2>1, <2>2, <2>3, <2>4, <2>5, <2>6, StillTracked
<1>20. ASSUME NEW c \in Conns, WorkerRowRead(c) PROVE Kept'
  <2>1. Alone'
    BY <1>20 DEF WorkerRowRead, AfterUnregister, Alone
  <2>2. RegisteredOne'
    BY <1>20 DEF WorkerRowRead, AfterUnregister, Alone, RegisteredOne, BetweenCalls,
        OwnedHub
  <2>3. Listed'
    BY <1>20 DEF WorkerRowRead, AfterUnregister, Alone, RegisteredOne, BetweenCalls,
        Listed, OwnedHub, OwnedProcs
  <2>4. Rows'
    BY <1>20 DEF WorkerRowRead, AfterUnregister, Alone, RegisteredOne, BetweenCalls,
        Rows, Serving, OwnedHub
  <2>5. \A d \in Conns : Ending(d) => pc'[d] = pc[d] /\ cur'[d] = cur[d]
    BY <1>20 DEF WorkerRowRead, AfterUnregister, Ending
  <2>6. UNCHANGED <<status, owner, workers, sessionIDs, marks, staleRename, faulted>>
    BY <1>20 DEF WorkerRowRead, AfterUnregister
  <2> QED BY <2>1, <2>2, <2>3, <2>4, <2>5, <2>6, StillTracked
<1>21. ASSUME NEW c \in Conns, WorkerRowWrite(c) PROVE Kept'
  <2>1. Alone' /\ RegisteredOne'
    BY <1>21 DEF WorkerRowWrite, AfterUnregister, Alone, RegisteredOne, BetweenCalls, OwnedHub
  <2>2. Listed'
    BY <1>21 DEF WorkerRowWrite, AfterUnregister, Alone, RegisteredOne, BetweenCalls, Listed, OwnedHub,
        OwnedProcs
  <2>3. Rows'
    <3>1. /\ pc[c] = "workerRowWrite" /\ pc' = [pc EXCEPT ![c] = "done"]
          /\ workerRow' = [workerRow EXCEPT ![ConnWorker[c]] = "offline"]
          /\ UNCHANGED faulted
      BY <1>21 DEF WorkerRowWrite, AfterUnregister
    <3>2. \A d \in Conns : Serving(d)' <=> Serving(d) /\ d # c
      BY <3>1 DEF Serving
    <3>3. \A d \in Conns : ConnWorker[d] = ConnWorker[c] /\ Serving(d) => d = c
      BY <3>1 DEF Alone, Serving
    <3> QED BY <3>1, <3>2, <3>3 DEF Rows
  <2>4. Running'
    BY <1>21 DEF WorkerRowWrite, AfterUnregister, Alone, RegisteredOne, BetweenCalls, Listed, Running,
        Tracked, OwnedHub, OwnedProcs
  <2> QED BY <2>1, <2>2, <2>3, <2>4
<1>22. ASSUME NEW p \in Conns \cup Sessions, SpawnLookup(p) PROVE Kept'
  <2>1. Alone'
    BY <1>22 DEF SpawnLookup, AfterSpawn, Alone
  <2>2. RegisteredOne'
    BY <1>22 DEF SpawnLookup, AfterSpawn, Alone, RegisteredOne, BetweenCalls, OwnedHub
  <2>3. Listed'
    BY <1>22 DEF SpawnLookup, AfterSpawn, Alone, RegisteredOne, BetweenCalls, Listed,
        OwnedHub, OwnedProcs
  <2>4. Rows'
    BY <1>22 DEF SpawnLookup, AfterSpawn, Alone, RegisteredOne, BetweenCalls, Rows,
        Serving, OwnedHub
  <2>5. \A d \in Conns : Ending(d) => pc'[d] = pc[d] /\ cur'[d] = cur[d]
    BY <1>22 DEF SpawnLookup, AfterSpawn, Ending
  <2>6. UNCHANGED <<status, owner, workers, sessionIDs, marks, staleRename, faulted>>
    BY <1>22 DEF SpawnLookup, AfterSpawn
  <2> QED BY <2>1, <2>2, <2>3, <2>4, <2>5, <2>6, StillTracked
<1>23. ASSUME NEW p \in Conns \cup Sessions, SpawnRelay(p) PROVE Kept'
  <2>1. Alone'
    BY <1>23 DEF SpawnRelay, Alone
  <2>2. RegisteredOne'
    BY <1>23 DEF SpawnRelay, Alone, RegisteredOne, BetweenCalls, OwnedHub
  <2>3. Listed'
    BY <1>23 DEF SpawnRelay, Alone, RegisteredOne, BetweenCalls, Listed, OwnedHub,
        OwnedProcs
  <2>4. Rows'
    BY <1>23 DEF SpawnRelay, Alone, RegisteredOne, BetweenCalls, Rows, Serving, OwnedHub
  <2>5. \A d \in Conns : Ending(d) => pc'[d] = pc[d] /\ cur'[d] = cur[d]
    BY <1>23 DEF SpawnRelay, Ending
  <2>6. UNCHANGED <<status, owner, workers, sessionIDs, marks, staleRename, faulted>>
    BY <1>23 DEF SpawnRelay
  <2> QED BY <2>1, <2>2, <2>3, <2>4, <2>5, <2>6, StillTracked
<1>24. ASSUME NEW p \in Conns \cup Sessions, SpawnSend(p) PROVE Kept'
  <2>1. Alone'
    BY <1>24 DEF SpawnSend, AfterSpawn, Alone
  <2>2. RegisteredOne'
    BY <1>24 DEF SpawnSend, AfterSpawn, Alone, RegisteredOne, BetweenCalls, OwnedHub
  <2>3. Listed'
    BY <1>24 DEF SpawnSend, AfterSpawn, Alone, RegisteredOne, BetweenCalls, Listed,
        OwnedHub, OwnedProcs
  <2>4. Rows'
    BY <1>24 DEF SpawnSend, AfterSpawn, Alone, RegisteredOne, BetweenCalls, Rows,
        Serving, OwnedHub
  <2>5. \A d \in Conns : Ending(d) => pc'[d] = pc[d] /\ cur'[d] = cur[d]
    BY <1>24 DEF SpawnSend, AfterSpawn, Ending
  <2>6. UNCHANGED <<status, owner, workers, sessionIDs, marks, staleRename, faulted>>
    BY <1>24 DEF SpawnSend, AfterSpawn
  <2> QED BY <2>1, <2>2, <2>3, <2>4, <2>5, <2>6, StillTracked
<1>25. ASSUME NEW s \in Sessions, CreateSession(s) PROVE Kept'
  BY <1>25 DEF CreateSession, Alone, RegisteredOne, BetweenCalls, Listed, Rows, Serving,
    Running, Tracked, Ending, OwnedHub, OwnedProcs
<1>26. ASSUME NEW s \in Sessions, RenameWrite(s) PROVE Kept'
  BY <1>26 DEF RenameWrite, Alone, RegisteredOne, BetweenCalls, Listed, Rows, Serving,
    Running, Tracked, Ending, OwnedHub, OwnedProcs
<1>27. ASSUME NEW s \in Sessions, DestroyDelete(s) PROVE Kept'
  BY <1>27 DEF DestroyDelete, Alone, RegisteredOne, BetweenCalls, Listed, Rows, Serving,
    Running, Tracked, Ending, OwnedHub, OwnedProcs
<1>28. ASSUME NEW s \in Sessions, RegisterViewer(s) PROVE Kept'
  BY <1>28 DEF RegisterViewer, Alone, RegisteredOne, BetweenCalls, Listed, Rows, Serving,
    Running, Tracked, Ending, OwnedHub, OwnedProcs
<1>38. ASSUME NEW c \in Conns, FanOut(c) PROVE Kept'
  <2>1. Alone' /\ RegisteredOne'
    BY <1>38 DEF FanOut, Alone, RegisteredOne, BetweenCalls, OwnedHub
  <2>2. Listed'
    BY <1>38 DEF FanOut, Alone, RegisteredOne, BetweenCalls, Listed, OwnedHub,
        OwnedProcs
  <2>3. Rows'
    BY <1>38 DEF FanOut, Alone, RegisteredOne, BetweenCalls, Rows, Serving, OwnedHub
  <2>4. Running'
    BY <1>38 DEF FanOut, Alone, RegisteredOne, BetweenCalls, Listed, Running,
        Tracked, OwnedHub, OwnedProcs
  <2> QED BY <2>1, <2>2, <2>3, <2>4
<1>39. ASSUME NEW c \in Conns, FannedOut(c) PROVE Kept'
  <2>1. Alone' /\ RegisteredOne'
    BY <1>39 DEF FannedOut, Alone, RegisteredOne, BetweenCalls, OwnedHub
  <2>2. Listed'
    BY <1>39 DEF FannedOut, Alone, RegisteredOne, BetweenCalls, Listed, OwnedHub,
        OwnedProcs
  <2>3. Rows'
    BY <1>39 DEF FannedOut, Alone, RegisteredOne, BetweenCalls, Rows, Serving, OwnedHub
  <2>4. Running'
    BY <1>39 DEF FannedOut, Alone, RegisteredOne, BetweenCalls, Listed, Running,
        Tracked, OwnedHub, OwnedProcs
  <2> QED BY <2>1, <2>2, <2>3, <2>4
<1>40. ASSUME NEW c \in Conns, RegisterRowFails(c) PROVE Kept'
  <2>1. Alone' /\ RegisteredOne'
    BY <1>40 DEF RegisterRowFails, GoesOn, Fault, Alone, RegisteredOne, BetweenCalls, OwnedHub
  <2>2. Listed'
    BY <1>40 DEF RegisterRowFails, GoesOn, Fault, Alone, RegisteredOne, BetweenCalls, Listed, OwnedHub,
        OwnedProcs
  <2>3. Rows'
    BY <1>40 DEF RegisterRowFails, GoesOn, Fault, Alone, RegisteredOne, BetweenCalls, Rows, Serving, OwnedHub
  <2>4. Running'
    BY <1>40 DEF RegisterRowFails, GoesOn, Fault, Alone, RegisteredOne, BetweenCalls, Listed, Running,
        Tracked, OwnedHub, OwnedProcs
  <2> QED BY <2>1, <2>2, <2>3, <2>4
<1>41. ASSUME NEW c \in Conns, FindResumableFails(c) PROVE Kept'
  <2>1. Alone' /\ RegisteredOne'
    BY <1>41 DEF FindResumableFails, Resumable, GoesOn, Fault, Alone, RegisteredOne, BetweenCalls, OwnedHub
  <2>2. Listed'
    BY <1>41 DEF FindResumableFails, Resumable, GoesOn, Fault, Alone, RegisteredOne, BetweenCalls, Listed, OwnedHub,
        OwnedProcs
  <2>3. Rows'
    BY <1>41 DEF FindResumableFails, Resumable, GoesOn, Fault, Alone, RegisteredOne, BetweenCalls, Rows, Serving, OwnedHub
  <2>4. Running'
    BY <1>41 DEF FindResumableFails, Resumable, GoesOn, Fault, Alone, RegisteredOne, BetweenCalls, Listed, Running,
        Tracked, OwnedHub, OwnedProcs
  <2> QED BY <2>1, <2>2, <2>3, <2>4
<1>42. ASSUME NEW c \in Conns, SessionRowFails(c) PROVE Kept'
  <2>1. Alone' /\ RegisteredOne'
    BY <1>42 DEF SessionRowFails, GoesOn, Fault, Alone, RegisteredOne, BetweenCalls, OwnedHub
  <2>2. Listed'
    BY <1>42 DEF SessionRowFails, GoesOn, Fault, Alone, RegisteredOne, BetweenCalls, Listed, OwnedHub,
        OwnedProcs
  <2>3. Rows'
    BY <1>42 DEF SessionRowFails, GoesOn, Fault, Alone, RegisteredOne, BetweenCalls, Rows, Serving, OwnedHub
  <2>4. Running'
    BY <1>42 DEF SessionRowFails, GoesOn, Fault, Alone, RegisteredOne, BetweenCalls, Listed, Running,
        Tracked, OwnedHub, OwnedProcs
  <2> QED BY <2>1, <2>2, <2>3, <2>4
<1>43. ASSUME NEW c \in Conns, MarkReadFails(c) PROVE Kept'
  <2>1. Alone' /\ RegisteredOne'
    BY <1>43 DEF MarkReadFails, GoesOn, Fault, Alone, RegisteredOne, BetweenCalls, OwnedHub
  <2>2. Listed'
    BY <1>43 DEF MarkReadFails, GoesOn, Fault, Alone, RegisteredOne, BetweenCalls, Listed, OwnedHub,
        OwnedProcs
  <2>3. Rows'
    BY <1>43 DEF MarkReadFails, GoesOn, Fault, Alone, RegisteredOne, BetweenCalls, Rows, Serving, OwnedHub
  <2>4. Running'
    BY <1>43 DEF MarkReadFails, GoesOn, Fault, Alone, RegisteredOne, BetweenCalls, Listed, Running,
        Tracked, OwnedHub, OwnedProcs
  <2> QED BY <2>1, <2>2, <2>3, <2>4
<1>44. ASSUME NEW c \in Conns, MarkWriteFails(c) PROVE Kept'
  <2>1. Alone' /\ RegisteredOne'
    BY <1>44 DEF MarkWriteFails, GoesOn, Fault, Alone, RegisteredOne, BetweenCalls, OwnedHub
  <2>2. Listed'
    BY <1>44 DEF MarkWriteFails, GoesOn, Fault, Alone, RegisteredOne, BetweenCalls, Listed, OwnedHub,
        OwnedProcs
  <2>3. Rows'
    BY <1>44 DEF MarkWriteFails, GoesOn, Fault, Alone, RegisteredOne, BetweenCalls, Rows, Serving, OwnedHub
  <2>4. Running'
    BY <1>44 DEF MarkWriteFails, GoesOn, Fault, Alone, RegisteredOne, BetweenCalls, Listed, Running,
        Tracked, OwnedHub, OwnedProcs
  <2> QED BY <2>1, <2>2, <2>3, <2>4
<1>45. ASSUME NEW c \in Conns, WorkerRowFails(c) PROVE Kept'
  <2>1. Alone' /\ RegisteredOne'
    <3>1. /\ pc[c] \in {"workerRow", "workerRowWrite"} /\ pc' = [pc EXCEPT ![c] = "done"]
          /\ UNCHANGED workers
      BY <1>45 DEF WorkerRowFails, AfterUnregister, GoesOn, Alone
    <3> QED BY <3>1 DEF Alone, RegisteredOne, BetweenCalls, OwnedHub
  <2>2. Listed'
    BY <1>45 DEF WorkerRowFails, AfterUnregister, GoesOn, Fault, Alone, RegisteredOne, BetweenCalls, Listed, OwnedHub,
        OwnedProcs
  <2>3. Rows'
    BY <1>45 DEF WorkerRowFails, AfterUnregister, GoesOn, Fault, Alone, RegisteredOne, BetweenCalls, Rows, Serving, OwnedHub
  <2>4. Running'
    BY <1>45 DEF WorkerRowFails, AfterUnregister, GoesOn, Fault, Alone, RegisteredOne, BetweenCalls, Listed, Running,
        Tracked, OwnedHub, OwnedProcs
  <2> QED BY <2>1, <2>2, <2>3, <2>4
<1>46. ASSUME NEW w \in Workers PROVE ~MarkReadFails(w) /\ ~MarkWriteFails(w) /\ ~WorkerRowFails(w)
  BY DEF MarkReadFails, MarkWriteFails, WorkerRowFails, Alone
<1>47. ASSUME StatementFails PROVE Kept'
  BY <1>40, <1>41, <1>42, <1>43, <1>44, <1>45, <1>46, <1>47 DEF StatementFails
<1>48. ASSUME \/ PingBegin \/ PingEnd \/ \E x \in Conns \cup Sessions : StopsReading(x)
              \/ \E w \in Workers : AgentSpawnThrows(w)
       PROVE  Kept'
  <2>1. /\ UNCHANGED <<workers, sessionIDs, relay, dbVars, procVars, staleRename>>
        /\ faulted \subseteq faulted'
    BY <1>48 DEF PingBegin, PingEnd, StopsReading, AgentSpawnThrows, Fault
  <2> QED BY <2>1 DEF Alone, RegisteredOne, BetweenCalls, Listed, Rows, Serving, Running, Tracked
<1>29. ASSUME \/ \E c \in Conns : Drop(c)
              \/ \E w \in Workers : (AgentStep(w) /\ ~AgentSpawnThrows(w)) \/ AgentRestart(w)
              \/ \E w \in Workers, s \in Sessions : PtyOutput(w, s) \/ PtyExit(w, s)
              \/ \E s \in Sessions : RenameRead(s) \/ SendInput(s) \/ DestroyKill(s)
              \/ UNCHANGED vars
       PROVE  Kept'
  <2>1. UNCHANGED <<hubVars, dbVars, procVars, staleRename, faulted>>
    BY <1>29 DEF Drop, AgentStep, AgentRestart, PtyOutput, PtyExit, AgentSpawn, AgentSpawnFails,
                 AgentKill, AgentInput, AgentClosed, RenameRead, SendInput, DestroyKill, vars
  <2> QED BY <2>1 DEF Alone, RegisteredOne, BetweenCalls, Listed, Rows, Serving, Running, Tracked, Ending
<1>30. ASSUME NEW w \in Workers
       PROVE  ~RemoveWorker(w) /\ ~DeleteWorkerRow(w) /\ ~Unregister(w) /\ ~ServerCrash
  BY DEF RemoveWorker, DeleteWorkerRow, Unregister, NotRegistered, UnregisterLock, MarkRelay,
         MarkRead, MarkWrite, UnregisterUnlock, WorkerRowRead, WorkerRowWrite, ServerCrash, Alone
<1>31. ~ServerCrash BY DEF ServerCrash
<1>32. ASSUME NEW c \in Conns, Handler(c) \/ Connect(c) \/ Drop(c) PROVE Kept'
  BY <1>32, <1>1, <1>2, <1>3, <1>4, <1>5, <1>6, <1>7, <1>8, <1>9, <1>10, <1>11, <1>12, <1>13, <1>29,
     <1>38, <1>39 DEF Handler
<1>33. ASSUME NEW c \in Conns, Unregister(c) PROVE Kept'
  BY <1>33, <1>14, <1>15, <1>16, <1>17, <1>18, <1>19, <1>20, <1>21 DEF Unregister
<1>34. ASSUME NEW p \in Conns \cup Sessions, Spawn(p) PROVE Kept'
  BY <1>34, <1>22, <1>23, <1>24 DEF Spawn
<1>35. ASSUME NEW s \in Sessions, Request(s) PROVE Kept'
  BY <1>35, <1>25, <1>26, <1>27, <1>28, <1>29 DEF Request
<1>36. ASSUME UNCHANGED vars PROVE Kept' BY <1>29, <1>36
<1> HIDE DEF Kept
<1>49. ASSUME NEW w \in Workers, AgentStep(w) \/ AgentRestart(w) PROVE Kept'
  <2>1. CASE AgentSpawnThrows(w) BY <1>48, <2>1
  <2>2. CASE (AgentStep(w) /\ ~AgentSpawnThrows(w)) \/ AgentRestart(w) BY <1>29, <2>2
  <2> QED BY <1>49, <2>1, <2>2
<1>50. ASSUME NEW x \in Conns \cup Sessions, StopsReading(x) PROVE Kept'
  BY <1>48, <1>50
<1>51. ASSUME NEW w \in Workers, NEW s \in Sessions, PtyOutput(w, s) \/ PtyExit(w, s) PROVE Kept'
  BY <1>29, <1>51
<1>52. ASSUME PingBegin \/ PingEnd PROVE Kept' BY <1>48, <1>52
<1>53. ASSUME NEW p \in Conns \cup Workers, Unregister(p) PROVE Kept'
  BY <1>30, <1>33, <1>53
<1>37. Kept'
  <2>1. StatementFails => Kept' BY <1>47
  <2>2. UNCHANGED vars => Kept' BY <1>36
  <2>3. ASSUME NEW c \in Conns, Connect(c) \/ Drop(c) \/ Handler(c) PROVE Kept' BY <1>32, <2>3
  <2>4. ASSUME NEW w \in Workers, RemoveWorker(w) \/ DeleteWorkerRow(w) PROVE Kept' BY <1>30, <2>4
  <2>5. \/ UNCHANGED vars \/ PingBegin \/ PingEnd \/ StatementFails \/ ServerCrash
        \/ \E c \in Conns : Connect(c) \/ Drop(c) \/ Handler(c)
        \/ \E p \in Conns \cup Sessions : Spawn(p)
        \/ \E p \in Conns \cup Workers : Unregister(p)
        \/ \E w \in Workers : RemoveWorker(w) \/ DeleteWorkerRow(w)
        \/ \E w \in Workers : AgentStep(w) \/ AgentRestart(w)
        \/ \E w \in Workers, s \in Sessions : PtyOutput(w, s) \/ PtyExit(w, s)
        \/ \E s \in Sessions : Request(s)
        \/ \E x \in Conns \cup Sessions : StopsReading(x)
    BY DEF Next
  <2> QED BY <1>31, <1>34, <1>35, <1>49, <1>50, <1>51, <1>52, <1>53, <2>1, <2>2, <2>3, <2>4, <2>5
<1> QED BY <1>37 DEF Kept

\* The empty hub, and every step.
LEMMA InitOrderly == Init => OrderlyInv
BY SetsAssumption
   DEF Init, OrderlyInv, OneHandler, Alone, RegisteredOne, BetweenCalls, Listed, Announced,
       Relayed, Rows, Serving, Running

LEMMA StepOrderly == IInv /\ OrderlyInv /\ [Next]_vars => OrderlyInv'
<1> SUFFICES ASSUME IInv, OrderlyInv, [Next]_vars, Orderly' PROVE OneHandler'
  BY DEF OrderlyInv
<1>1. Orderly
  <2>1. crashes \in Nat /\ removals \in Nat BY DEF IInv, TypeRest
  <2>2. CASE \E w \in Workers : RemoveWorker(w) BY <2>1, <2>2 DEF RemoveWorker, Orderly
  <2>3. CASE ServerCrash BY <2>1, <2>3 DEF ServerCrash, Orderly
  <2>4. CASE \E c \in Conns : Connect(c) \/ Drop(c) \/ Handler(c)
    BY <2>4 DEF Orderly, Connect, Drop, Handler, RegisterConn, RegisterRow, FindResumable,
           ResumeNext, ResumeDone, ReceiveStarted, ReceiveExited, RowRead, RowWrite, ReceiveOutput,
           CreateRelay, FanOut, FannedOut, ReadError
  <2>5. CASE \/ \E p \in Conns \cup Sessions : Spawn(p)
             \/ \E p \in Conns \cup Workers : Unregister(p)
             \/ \E w \in Workers : DeleteWorkerRow(w)
    BY <2>5 DEF Orderly, Spawn, SpawnLookup, SpawnRelay, SpawnSend, Unregister, NotRegistered,
           UnregisterLock, MarkRelay, MarkRead, MarkWrite, UnregisterUnlock, WorkerRowRead,
           WorkerRowWrite, DeleteWorkerRow
  <2>6. CASE \/ \E w \in Workers : AgentStep(w) \/ AgentRestart(w)
             \/ \E w \in Workers, s \in Sessions : PtyOutput(w, s) \/ PtyExit(w, s)
             \/ \E s \in Sessions : Request(s)
             \/ UNCHANGED vars
    BY <2>6 DEF Orderly, vars, AgentStep, AgentRestart, AgentSpawn, AgentSpawnFails, AgentSpawnThrows, AgentKill,
           AgentInput, AgentClosed, PtyOutput, PtyExit, Request, CreateSession, RenameRead,
           RenameWrite, SendInput, DestroyKill, DestroyDelete, RegisterViewer
  <2>7. CASE \/ PingBegin \/ PingEnd \/ StatementFails
             \/ \E x \in Conns \cup Sessions : StopsReading(x)
    BY <2>7 DEF Orderly, PingBegin, PingEnd, StopsReading, StatementFails, RegisterRowFails, FindResumableFails, SessionRowFails, MarkReadFails,
           MarkWriteFails, WorkerRowFails, GoesOn
  <2> QED BY <2>2, <2>3, <2>4, <2>5, <2>6, <2>7 DEF Next
<1>2. OneHandler BY <1>1 DEF OrderlyInv
<1> QED BY <1>1, <1>2, AnnouncedStep, HandlerStep DEF OneHandler

\* What orderly circumstances add to the invariant.
THEOREM OrderlyInvariance == Spec => []OrderlyInv
<1>1. Spec => []IInv BY Invariance
<1>2. IInv /\ OrderlyInv /\ [Next]_vars => OrderlyInv' BY StepOrderly
<1> QED BY <1>1, <1>2, InitOrderly, PTL DEF Spec

\* A row that says running will be taken out of it: RunningIsTracked (hub.go:121-134, 161-195)
\* for any number of workers, sessions and connections.
THEOREM RunningIsTrackedHolds == Spec => []RunningIsTracked
<1>1. OrderlyInv => RunningIsTracked BY DEF OrderlyInv, OneHandler, Running, RunningIsTracked
<1> QED BY <1>1, OrderlyInvariance, PTL

\* The row SelectWorker trusts agrees with the connections: RowMatchesConnection
\* (hub.go:75-91, 137-144).
THEOREM RowMatchesConnectionHolds == Spec => []RowMatchesConnection
<1>1. OrderlyInv => RowMatchesConnection
  BY DEF OrderlyInv, OneHandler, Rows, RowMatchesConnection
<1> QED BY <1>1, OrderlyInvariance, PTL
=============================================================================
