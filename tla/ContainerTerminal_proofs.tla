----------------------- MODULE ContainerTerminal_proofs ------------------------
(***************************************************************************)
(* Proofs about ContainerTerminal, for any number of tabs and connections: *)
(* the last a shell says is shown, a terminal has one connection or one    *)
(* retry, the server knows its size, and who is gone leaves nothing.       *)
(*                                                                         *)
(* The argument for the server's side: a connection meets the others only  *)
(* in the limit of MaxServed, so the invariant is one of each connection   *)
(* (Good).  Unless the network or a key typed too late interferes, the     *)
(* bridge closes its end only after the shell's output was written         *)
(* (Drained), and the server's goroutine ends only after what was written  *)
(* was read.  For the window's side: the socket of a terminal that is not  *)
(* disconnected is the one its field ws names (Own), because it connects   *)
(* when it has no other.  So what a terminal does is never "astray"        *)
(* (DoingIs), and each callback is a step of Reconnection (StepMoves).     *)
(* A connection that ended is never stuck (NeverStuck) and has a number of *)
(* steps left that only gets less (StepLess, ProgressLess).  That an       *)
(* action can be taken (ENABLED) is opaque to the prover: the theorem      *)
(* about it assumes what Possible says, which TLC checks.                  *)
(***************************************************************************)
EXTENDS ContainerTerminal, FiniteSetTheorems, TLAPS

Words == {"unsaid", "pty", "wire", "proxy", "shown", "lost"}

Conns ==
  [proxy : {"none", "start", "relay", "done", "returned"}, dn : BOOLEAN,
   back : {"none", "up", "down"}, bridge : {"none", "start", "relay", "wait", "returned"},
   rd : BOOLEAN, wr : BOOLEAN, shell : {"none", "running", "hup", "exited"},
   word : Words, cut : BOOLEAN]

\* The bridge has not been asked for, or not started its shell.
NotStarted(c) ==
  /\ c.bridge \in {"none", "start"} => c.shell = "none" /\ c.word = "unsaid" /\ ~c.rd /\ ~c.wr
  /\ c.back = "none" <=> c.bridge = "none"
  /\ c.back = "none" => ~c.dn /\ c.proxy \in {"none", "start", "returned"}
  /\ c.proxy \in {"none", "start"} => c.back = "none"
  /\ c.bridge = "returned" => c.back = "down" /\ c.shell \in {"none", "exited"}
  /\ c.bridge = "relay" => c.shell \in {"running", "exited"}
  /\ c.bridge = "wait" => c.shell \in {"hup", "exited"}

\* While the bridge's connection is up its shell's output is read before the end is noticed.
Drained(c) ==
  c.bridge \in {"relay", "wait"} /\ c.back = "up" =>
    /\ c.wr /\ (c.rd \/ (c.shell = "exited" /\ c.word # "pty"))
    /\ c.bridge = "wait" => ~c.rd

\* Nothing is lost before it, and nothing is left behind it.
Delivered(c) ==
  /\ c.word # "lost"
  /\ c.back = "down" => c.bridge = "returned" /\ c.word # "pty"
  /\ c.back # "none" /\ ~c.dn => c.back = "down" /\ c.word \in {"unsaid", "shown"}

Good(c, l) ==
  /\ c.proxy = "returned" => l # "up" /\ c.back # "up"
  /\ l # "none" => c.proxy # "none"
  /\ NotStarted(c)
  /\ l = "up" /\ ~c.cut => Drained(c) /\ Delivered(c)

IInv ==
  /\ conn \in [Sockets -> Conns] /\ link \in [Sockets -> LinkStates]
  /\ \A k \in Sockets : Good(conn[k], link[k]) /\ (link[k] = "none" => conn[k] = Unused)

LEMMA UnusedGood == Unused \in Conns /\ Good(Unused, "none")
<1>1. Unused \in Conns BY DEF Unused, Conns, Words
<1>2. Good(Unused, "none") BY DEF Unused, Good, NotStarted
<1> QED BY <1>1, <1>2

LEMMA InitIInv == Init => IInv
BY UnusedGood DEF Init, LinkInit, BridgeInit, IInv, LinkStates

-----------------------------------------------------------------------------
\* A connection that the terminal's end closes, or the network, stays good.
LEMMA ClosingKeeps ==
  ASSUME IInv, NEW k \in Sockets, Closed(k), conn' = conn
  PROVE  IInv'
<1>1. link' \in [Sockets -> LinkStates] BY DEF IInv, Closed, LinkStates
<1>2. \A j \in Sockets : link'[j] = link[j] \/ (link[j] = "up" /\ link'[j] = "down")
  BY DEF IInv, Closed
<1>3. \A j \in Sockets : Good(conn[j], link'[j]) /\ (link'[j] = "none" => conn[j] = Unused)
  BY <1>2 DEF IInv, Good
<1> QED BY <1>1, <1>3 DEF IInv

LEMMA TabKeeps == IInv /\ TabNext /\ UNCHANGED conn => IInv'
<1> SUFFICES ASSUME IInv, TabNext, UNCHANGED conn PROVE IInv' OBVIOUS
<1>1. link' = link \/ \E k \in Sockets : Closed(k)
  <2>1. ASSUME NEW t \in Terminals, Mount(t) \/ UrlArrives(t) \/ UrlFails(t) \/ OnTimer(t) \/ Resize(t)
        PROVE  link' = link
    BY <2>1 DEF Mount, UrlArrives, UrlFails, OnTimer, Resize, linkVars
  <2>2. ASSUME NEW k \in Sockets, OnOpen(k) \/ OnClose(k) PROVE link' = link
    BY <2>2 DEF OnOpen, OnClose
  <2>3. ASSUME NEW t \in Terminals, Unmount(t)
        PROVE  link' = link \/ \E k \in Sockets : Closed(k)
    <3>1. CASE ws[t] \in Sockets BY <2>3, <3>1 DEF Unmount, Disconnect, CloseSocket, linkVars
    <3>2. CASE ws[t] \notin Sockets
      <4>1. CloseSocket(t) => link' = link \/ Closed(ws[t]) BY DEF CloseSocket, linkVars
      <4>2. Closed(ws[t]) => link' = link BY <3>2 DEF Closed, IInv
      <4> QED BY <2>3, <4>1, <4>2 DEF Unmount, Disconnect, linkVars
    <3> QED BY <3>1, <3>2
  <2> QED BY <2>1, <2>2, <2>3 DEF TabNext
<1>2. CASE link' = link BY <1>2 DEF IInv
<1>3. CASE \E k \in Sockets : Closed(k) BY <1>3, ClosingKeeps
<1> QED BY <1>1, <1>2, <1>3

-----------------------------------------------------------------------------
\* A step of a connection keeps the invariant if it keeps that connection good.
LEMMA OneStep ==
  ASSUME IInv, NEW k \in Sockets, NEW d \in Conns, NEW l \in LinkStates,
         conn' = [conn EXCEPT ![k] = d], link' = [link EXCEPT ![k] = l],
         Good(d, l), l = "none" => d = Unused
  PROVE  IInv'
<1>1. conn' \in [Sockets -> Conns] /\ link' \in [Sockets -> LinkStates] BY DEF IInv
<1>2. conn'[k] = d /\ link'[k] = l BY DEF IInv
<1>3. \A j \in Sockets \ {k} : conn'[j] = conn[j] /\ link'[j] = link[j] BY DEF IInv
<1> QED BY <1>1, <1>2, <1>3 DEF IInv

LEMMA GoroutineKeeps ==
  ASSUME IInv, NEW k \in Sockets, Goroutines(k) \/ Elsewhere(k), link' = link
  PROVE  IInv'
<1> DEFINE c == conn[k]
           l == link[k]
<1>0. /\ c \in Conns /\ l \in LinkStates /\ Good(c, l) /\ link' = [link EXCEPT ![k] = l]
      /\ l = "none" => c = Unused
  BY DEF IInv
<1>s. ASSUME NEW d \in Conns, Good(d, l), c # Unused, conn' = [conn EXCEPT ![k] = d]
      PROVE  IInv'
  BY <1>0, <1>s, OneStep
<1> USE DEF Conns, Words, Good, NotStarted, Drained, Delivered, Unused
<1>1. CASE RelayStarts(k)
  <2> DEFINE d == [c EXCEPT !.proxy = "relay", !.dn = TRUE, !.back = "up", !.bridge = "start"]
  <2>1. conn' = [conn EXCEPT ![k] = d] BY <1>1 DEF RelayStarts, IInv
  <2>2. d \in Conns BY <1>0
  <2>3. c # Unused /\ Good(d, l) BY <1>0, <1>1, <2>2 DEF RelayStarts
  <2> HIDE DEF d
  <2> QED BY <1>s, <2>1, <2>2, <2>3
<1>2. CASE ClientGone(k)
  <2> DEFINE d == [c EXCEPT !.proxy = "done"]
  <2>1. conn' = [conn EXCEPT ![k] = d] BY <1>2 DEF ClientGone, IInv
  <2>2. d \in Conns BY <1>0
  <2>3. c # Unused /\ Good(d, l) BY <1>0, <1>2, <2>2 DEF ClientGone
  <2> HIDE DEF d
  <2> QED BY <1>s, <2>1, <2>2, <2>3
<1>3. CASE KeyFails(k)
  <2> DEFINE d == [c EXCEPT !.proxy = "done"]
  <2>1. conn' = [conn EXCEPT ![k] = d] BY <1>3 DEF KeyFails, IInv
  <2>2. d \in Conns BY <1>0
  <2>3. c # Unused /\ Good(d, l) BY <1>0, <1>3, <2>2 DEF KeyFails
  <2> HIDE DEF d
  <2> QED BY <1>s, <2>1, <2>2, <2>3
<1>4. CASE DnRead(k)
  <2> DEFINE d == [c EXCEPT !.word = "proxy"]
  <2>1. conn' = [conn EXCEPT ![k] = d] BY <1>4 DEF DnRead, IInv
  <2>2. d \in Conns BY <1>0
  <2>3. c # Unused /\ Good(d, l) BY <1>0, <1>4, <2>2 DEF DnRead
  <2> HIDE DEF d
  <2> QED BY <1>s, <2>1, <2>2, <2>3
<1>5. CASE DnWrite(k)
  <2> DEFINE d == [c EXCEPT !.word = IF l = "up" THEN "shown" ELSE "lost", !.dn = l = "up"]
  <2>1. conn' = [conn EXCEPT ![k] = d] BY <1>5 DEF DnWrite, IInv
  <2>2. d \in Conns BY <1>0, ZenonT(40)
  <2>3. c # Unused /\ Good(d, l)
    <3>1. /\ d.proxy = c.proxy /\ d.back = c.back /\ d.bridge = c.bridge /\ d.rd = c.rd
          /\ d.wr = c.wr /\ d.shell = c.shell /\ d.cut = c.cut
          /\ d.word = (IF l = "up" THEN "shown" ELSE "lost") /\ d.dn = (l = "up")
      BY <1>0
    <3> HIDE DEF d, Good, Unused
    <3>2. CASE l = "up" BY <1>0, <1>5, <3>1, <3>2 DEF DnWrite, Good, Unused
    <3>3. CASE ~(l = "up") BY <1>0, <1>5, <3>1, <3>3 DEF DnWrite, Good, Unused
    <3> QED BY <3>2, <3>3
  <2> HIDE DEF d
  <2> QED BY <1>s, <2>1, <2>2, <2>3
<1>6. CASE DnEnd(k)
  <2> DEFINE d == [c EXCEPT !.dn = FALSE, !.word = IF c.word = "wire" THEN "lost" ELSE c.word]
  <2>1. conn' = [conn EXCEPT ![k] = d] BY <1>6 DEF DnEnd, IInv
  <2>2. d \in Conns BY <1>0, ZenonT(40)
  <2>3. c # Unused /\ Good(d, l)
    <3>1. /\ d.proxy = c.proxy /\ d.back = c.back /\ d.bridge = c.bridge /\ d.rd = c.rd
          /\ d.wr = c.wr /\ d.shell = c.shell /\ d.cut = c.cut
          /\ d.dn = (FALSE) /\ d.word = (IF c.word = "wire" THEN "lost" ELSE c.word)
      BY <1>0
    <3> HIDE DEF d, Good, Unused
    <3>2. CASE c.word = "wire" BY <1>0, <1>6, <3>1, <3>2 DEF DnEnd, Good, Unused
    <3>3. CASE ~(c.word = "wire") BY <1>0, <1>6, <3>1, <3>3 DEF DnEnd, Good, Unused
    <3> QED BY <3>2, <3>3
  <2> HIDE DEF d
  <2> QED BY <1>s, <2>1, <2>2, <2>3
<1>7. CASE StartFails(k)
  <2> DEFINE d == [c EXCEPT !.bridge = "returned", !.back = "down"]
  <2>1. conn' = [conn EXCEPT ![k] = d] BY <1>7 DEF StartFails, IInv
  <2>2. d \in Conns BY <1>0
  <2>3. c # Unused /\ Good(d, l) BY <1>0, <1>7, <2>2 DEF StartFails
  <2> HIDE DEF d
  <2> QED BY <1>s, <2>1, <2>2, <2>3
<1>8. CASE StartShell(k)
  <2> DEFINE d == [c EXCEPT !.bridge = "relay", !.rd = TRUE, !.wr = TRUE, !.shell = "running"]
  <2>1. conn' = [conn EXCEPT ![k] = d] BY <1>8 DEF StartShell, IInv
  <2>2. d \in Conns BY <1>0
  <2>3. c # Unused /\ Good(d, l) BY <1>0, <1>8, <2>2 DEF StartShell
  <2> HIDE DEF d
  <2> QED BY <1>s, <2>1, <2>2, <2>3
<1>9. CASE ShellSays(k)
  <2> DEFINE d == [c EXCEPT !.word = "pty"]
  <2>1. conn' = [conn EXCEPT ![k] = d] BY <1>9 DEF ShellSays, IInv
  <2>2. d \in Conns BY <1>0
  <2>3. c # Unused /\ Good(d, l) BY <1>0, <1>9, <2>2 DEF ShellSays
  <2> HIDE DEF d
  <2> QED BY <1>s, <2>1, <2>2, <2>3
<1>10. CASE ShellExits(k)
  <2> DEFINE d == [c EXCEPT !.shell = "exited"]
  <2>1. conn' = [conn EXCEPT ![k] = d] BY <1>10 DEF ShellExits, IInv
  <2>2. d \in Conns BY <1>0
  <2>3. c # Unused /\ Good(d, l) BY <1>0, <1>10, <2>2 DEF ShellExits
  <2> HIDE DEF d
  <2> QED BY <1>s, <2>1, <2>2, <2>3
<1>11. CASE RdCopy(k)
  <2> DEFINE d == [c EXCEPT !.word = IF c.back = "up" THEN "wire" ELSE "lost", !.rd = c.back = "up"]
  <2>1. conn' = [conn EXCEPT ![k] = d] BY <1>11 DEF RdCopy, IInv
  <2>2. d \in Conns BY <1>0, ZenonT(40)
  <2>3. c # Unused /\ Good(d, l)
    <3>1. /\ d.proxy = c.proxy /\ d.dn = c.dn /\ d.back = c.back /\ d.bridge = c.bridge
          /\ d.wr = c.wr /\ d.shell = c.shell /\ d.cut = c.cut
          /\ d.word = (IF c.back = "up" THEN "wire" ELSE "lost") /\ d.rd = (c.back = "up")
      BY <1>0
    <3> HIDE DEF d, Good, Unused
    <3>2. CASE c.back = "up" BY <1>0, <1>11, <3>1, <3>2 DEF RdCopy, Good, Unused
    <3>3. CASE ~(c.back = "up") BY <1>0, <1>11, <3>1, <3>3 DEF RdCopy, Good, Unused
    <3> QED BY <3>2, <3>3
  <2> HIDE DEF d
  <2> QED BY <1>s, <2>1, <2>2, <2>3
<1>12. CASE RdEnd(k)
  <2> DEFINE d == [c EXCEPT !.rd = FALSE, !.word = IF c.word = "pty" THEN "lost" ELSE c.word]
  <2>1. conn' = [conn EXCEPT ![k] = d] BY <1>12 DEF RdEnd, IInv
  <2>2. d \in Conns BY <1>0, ZenonT(40)
  <2>3. c # Unused /\ Good(d, l)
    <3>1. /\ d.proxy = c.proxy /\ d.dn = c.dn /\ d.back = c.back /\ d.bridge = c.bridge
          /\ d.wr = c.wr /\ d.shell = c.shell /\ d.cut = c.cut
          /\ d.rd = (FALSE) /\ d.word = (IF c.word = "pty" THEN "lost" ELSE c.word)
      BY <1>0
    <3> HIDE DEF d, Good, Unused
    <3>2. CASE c.word = "pty" BY <1>0, <1>12, <3>1, <3>2 DEF RdEnd, Good, Unused
    <3>3. CASE ~(c.word = "pty") BY <1>0, <1>12, <3>1, <3>3 DEF RdEnd, Good, Unused
    <3> QED BY <3>2, <3>3
  <2> HIDE DEF d
  <2> QED BY <1>s, <2>1, <2>2, <2>3
<1>13. CASE WrEnd(k)
  <2> DEFINE d == [c EXCEPT !.wr = FALSE]
  <2>1. conn' = [conn EXCEPT ![k] = d] BY <1>13 DEF WrEnd, IInv
  <2>2. d \in Conns BY <1>0
  <2>3. c # Unused /\ Good(d, l) BY <1>0, <1>13, <2>2 DEF WrEnd
  <2> HIDE DEF d
  <2> QED BY <1>s, <2>1, <2>2, <2>3
<1>14. CASE KeyAfterExit(k)
  <2> DEFINE d == [c EXCEPT !.wr = FALSE, !.cut = TRUE]
  <2>1. conn' = [conn EXCEPT ![k] = d] BY <1>14 DEF KeyAfterExit, IInv
  <2>2. d \in Conns BY <1>0
  <2>3. c # Unused /\ Good(d, l) BY <1>0, <1>14, <2>2 DEF KeyAfterExit
  <2> HIDE DEF d
  <2> QED BY <1>s, <2>1, <2>2, <2>3
<1>15. CASE Hangup(k)
  <2> DEFINE d == [c EXCEPT !.bridge = "wait", !.shell = IF c.shell = "running" THEN "hup" ELSE c.shell]
  <2>1. conn' = [conn EXCEPT ![k] = d] BY <1>15 DEF Hangup, IInv
  <2>2. d \in Conns BY <1>0, ZenonT(40)
  <2>3. c # Unused /\ Good(d, l)
    <3>1. /\ d.proxy = c.proxy /\ d.dn = c.dn /\ d.back = c.back /\ d.rd = c.rd
          /\ d.wr = c.wr /\ d.word = c.word /\ d.cut = c.cut
          /\ d.bridge = ("wait") /\ d.shell = (IF c.shell = "running" THEN "hup" ELSE c.shell)
      BY <1>0
    <3> HIDE DEF d, Good, Unused
    <3>2. CASE c.shell = "running" BY <1>0, <1>15, <3>1, <3>2 DEF Hangup, Good, Unused
    <3>3. CASE ~(c.shell = "running") BY <1>0, <1>15, <3>1, <3>3 DEF Hangup, Good, Unused
    <3> QED BY <3>2, <3>3
  <2> HIDE DEF d
  <2> QED BY <1>s, <2>1, <2>2, <2>3
<1>16. CASE BridgeReturn(k)
  <2> DEFINE d == [c EXCEPT !.bridge = "returned", !.back = "down"]
  <2>1. conn' = [conn EXCEPT ![k] = d] BY <1>16 DEF BridgeReturn, IInv
  <2>2. d \in Conns BY <1>0
  <2>3. c # Unused /\ Good(d, l) BY <1>0, <1>16, <2>2 DEF BridgeReturn
  <2> HIDE DEF d
  <2> QED BY <1>s, <2>1, <2>2, <2>3
<1>17. CASE BackDrops(k)
  <2> DEFINE d == [c EXCEPT !.back = "down", !.cut = TRUE]
  <2>1. conn' = [conn EXCEPT ![k] = d] BY <1>17 DEF BackDrops, IInv
  <2>2. d \in Conns BY <1>0
  <2>3. c # Unused /\ Good(d, l) BY <1>0, <1>17, <2>2 DEF BackDrops
  <2> HIDE DEF d
  <2> QED BY <1>s, <2>1, <2>2, <2>3
<1> QED BY <1>1, <1>2, <1>3, <1>4, <1>5, <1>6, <1>7, <1>8, <1>9, <1>10, <1>11, <1>12, <1>13, <1>14, <1>15, <1>16, <1>17 DEF Goroutines, Elsewhere

\* Steps in which the terminal's connection starts or ends, too.
LEMMA LinkedKeeps ==
  ASSUME IInv, NEW k \in Sockets,
         Answer(k) \/ RelayFails(k) \/ Return(k) \/ Released(k) \/ LinkDrops(k)
  PROVE  IInv'
<1> DEFINE c == conn[k]
           l == link[k]
<1>0. /\ c \in Conns /\ l \in LinkStates /\ Good(c, l) /\ (l = "none" => c = Unused)
      /\ conn' = conn => conn' = [conn EXCEPT ![k] = c]
  BY DEF IInv
<1>1. CASE Accept(k)
  <2> DEFINE d == [c EXCEPT !.proxy = "start"]
  <2>1. conn' = [conn EXCEPT ![k] = d] /\ link' = [link EXCEPT ![k] = "up"] /\ l = "none"
    BY <1>1 DEF Accept, IInv
  <2>2. d \in Conns /\ Good(d, "up")
    BY <1>0, <2>1 DEF Conns, Words, Unused, Good, NotStarted, Drained, Delivered
  <2> QED BY <2>1, <2>2, OneStep DEF LinkStates
<1>2. CASE Refuse(k) BY <1>2 DEF Refuse, IInv
<1>3. CASE RelayFails(k)
  <2> DEFINE d == [c EXCEPT !.proxy = "returned"]
  <2>1. conn' = [conn EXCEPT ![k] = d] /\ l # "none" /\ link' = [link EXCEPT ![k] = "down"]
    <3>1. l # "none" BY <1>0, <1>3 DEF RelayFails, Unused
    <3> QED BY <1>0, <1>3, <3>1 DEF RelayFails, Closed, IInv, LinkStates
  <2>2. d \in Conns /\ Good(d, "down")
    BY <1>0, <1>3 DEF RelayFails, Conns, Words, Good, NotStarted
  <2> QED BY <2>1, <2>2, OneStep DEF LinkStates
<1>4. CASE Return(k)
  <2> DEFINE d == [c EXCEPT !.proxy = "returned", !.back = "down"]
  <2>1. conn' = [conn EXCEPT ![k] = d] /\ l # "none" /\ link' = [link EXCEPT ![k] = "down"]
    <3>1. l # "none" BY <1>0, <1>4 DEF Return, Unused
    <3> QED BY <1>0, <1>4, <3>1 DEF Return, Closed, IInv, LinkStates
  <2>2. d \in Conns /\ Good(d, "down")
    BY <1>0, <1>4 DEF Return, Conns, Words, Good, NotStarted
  <2> QED BY <2>1, <2>2, OneStep DEF LinkStates
<1>5. CASE Released(k) BY <1>5, UnusedGood, OneStep DEF Released, LinkStates
<1>6. CASE LinkDrops(k) BY <1>6, ClosingKeeps DEF LinkDrops
<1> QED BY <1>1, <1>2, <1>3, <1>4, <1>5, <1>6 DEF Answer

LEMMA NextIInv == IInv /\ [Next]_vars => IInv'
<1> SUFFICES ASSUME IInv, [Next]_vars PROVE IInv' OBVIOUS
<1>1. CASE TabNext /\ UNCHANGED conn BY <1>1, TabKeeps
<1>2. ASSUME NEW k \in Sockets, (Goroutines(k) \/ Elsewhere(k)) /\ UNCHANGED linkVars
      PROVE  IInv'
  BY <1>2, GoroutineKeeps DEF linkVars
<1>3. ASSUME NEW k \in Sockets,
             Answer(k) \/ RelayFails(k) \/ Return(k) \/ Released(k) \/ LinkDrops(k)
      PROVE  IInv'
  BY <1>3, LinkedKeeps
<1>4. CASE UNCHANGED vars BY <1>4 DEF vars, linkVars, IInv
<1> QED BY <1>1, <1>2, <1>3, <1>4 DEF Next, BridgeNext

\* The inductive invariant of terminals, proxy and bridge (websocket.go:116-166,
\* container/pty-bridge/main.go:46-145).
THEOREM Invariance == Spec => []IInv
BY InitIInv, NextIInv, PTL DEF Spec

\* The last a shell says before it ends reaches the terminal that stays connected
\* (main.go:83-95, 134-140, websocket.go:154-162).
THEOREM LastWordsHolds == Spec => []LastWords
<1>1. IInv => LastWords
  <2> SUFFICES ASSUME IInv, NEW k \in Sockets, link[k] = "up", conn[k].back # "none",
                      ~conn[k].dn, ~conn[k].cut
               PROVE  conn[k].word \in {"unsaid", "shown"}
    BY DEF LastWords
  <2> QED BY DEF IInv, Good, Delivered
<1> QED BY <1>1, Invariance, PTL

-----------------------------------------------------------------------------
(* The window's side.                                                      *)

Stages == {"unused", "asking", "made", "late", "failed"}

TabTypes ==
  /\ sock \in [Sockets -> SockStates] /\ owner \in [Sockets -> Terminals \cup {None}]
  /\ ws \in [Terminals -> Sockets \cup {None}] /\ stage \in [Terminals -> Stages]
  /\ timer \in [Terminals -> BOOLEAN] /\ attempts \in [Terminals -> Nat]
  /\ maxAttempts \in [Terminals -> Nat]

\* Nobody has disconnected the terminal.
Active(t) == stage[t] = "late" \/ (stage[t] = "made" /\ t \in mounted)

Mine(k, t) == owner[k] = t /\ sock[k] # "idle"
Has(t) == ws[t] # None /\ Mine(ws[t], t)

\* Its one socket is the one it knows of, and without it there is a retry or a last word.
Own(t) ==
  /\ \A k \in Sockets : Mine(k, t) => k = ws[t] /\ sock[k] # "closing"
  /\ Has(t) => ~timer[t] /\ t \notin lost
  /\ timer[t] => t \notin lost
  /\ Has(t) \/ timer[t] \/ t \in lost

\* A terminal that was disconnected, or has not been connected.
Out(t) ==
  /\ ~timer[t]
  /\ stage[t] = "made" => maxAttempts[t] = 0
  /\ \A k \in Sockets : Mine(k, t) => stage[t] = "made" /\ sock[k] \in {"refused", "closing"}
  /\ stage[t] # "made" => t \notin lost

TabInv ==
  /\ TabTypes
  /\ \A k \in Sockets : sock[k] # "idle" => owner[k] \in Terminals
  /\ \A t \in Terminals : /\ Active(t) => Own(t)
                          /\ ~Active(t) => Out(t)
                          /\ t \in mounted => stage[t] # "unused"
  /\ SizeIsCurrent

LEMMA InitTabInv == Init => TabInv
BY TerminalAssumption
   DEF Init, LinkInit, TabInit, TabInv, TabTypes, SockStates, Stages, Active, Out, Mine, SizeIsCurrent

\* The server's side changes sockets only by refusing them.
LEMMA BridgeTab ==
  ASSUME TabInv, BridgeNext, UNCHANGED tabVars
  PROVE  TabInv'
<1> USE DEF tabVars, mountVars, retryVars, socketVars
<1>1. ASSUME sock' = sock PROVE TabInv'
  BY <1>1 DEF TabInv, TabTypes, Active, Own, Out, Has, Mine, SizeIsCurrent
<1>2. ASSUME NEW k \in Sockets, Refuse(k) PROVE TabInv'
  <2>1. sock' = [sock EXCEPT ![k] = "refused"] /\ sock[k] = "connecting" BY <1>2 DEF Refuse
  <2>2. TabTypes' BY <2>1 DEF TabInv, TabTypes, SockStates
  <2>3. \A j \in Sockets : sock'[j] = IF j = k THEN "refused" ELSE sock[j]
    BY <2>1 DEF TabInv, TabTypes
  <2>4. \A j \in Sockets, t \in Terminals : Mine(j, t)' <=> Mine(j, t)
    BY <2>1, <2>3 DEF Mine
  <2>5. \A t \in Terminals : Has(t)' <=> Has(t)
    BY <2>4 DEF Has, TabInv, TabTypes
  <2>6. ASSUME NEW t \in Terminals
        PROVE  (Active(t) => Own(t))' /\ (~Active(t) => Out(t))' /\ (t \in mounted => stage[t] # "unused")'
    <3>1. Active(t)' <=> Active(t) BY DEF Active
    <3>2. Own(t) => Own(t)' BY <2>3, <2>4, <2>5 DEF Own
    <3>3. Out(t) => Out(t)' BY <2>3, <2>4 DEF Out
    <3> QED BY <3>1, <3>2, <3>3 DEF TabInv
  <2>7. \A j \in Sockets : (sock[j] # "idle" => owner[j] \in Terminals)'
    BY <2>1, <2>3 DEF TabInv
  <2>8. SizeIsCurrent' BY <2>3 DEF TabInv, SizeIsCurrent
  <2> QED BY <2>2, <2>6, <2>7, <2>8 DEF TabInv
<1>3. sock' = sock \/ \E k \in Sockets : Refuse(k)
  BY DEF BridgeNext, Answer, Accept, RelayFails, Return, Released, LinkDrops, linkVars
<1> QED BY <1>1, <1>2, <1>3

\* A terminal that has neither socket nor retry left gets its one socket.
LEMMA ConnectGives ==
  ASSUME TabInv, NEW t \in Terminals, Connect(t), \A k \in Sockets : ~Mine(k, t), t \notin lost,
         lost' = lost, maxAttempts' = maxAttempts, attempts' = attempts, mounted' = mounted,
         sized' = sized, timer' \in [Terminals -> BOOLEAN], stage' \in [Terminals -> Stages],
         ~timer'[t], stage'[t] # "unused", Active(t)',
         \A u \in Terminals \ {t} : timer'[u] = timer[u] /\ stage'[u] = stage[u]
  PROVE  TabInv'
<1> PICK new \in Unnamed : /\ sock' = [sock EXCEPT ![new] = "connecting"]
                           /\ owner' = [owner EXCEPT ![new] = t]
                           /\ ws' = [ws EXCEPT ![t] = new]
  BY DEF Connect
<1>1. new \in Sockets /\ sock[new] = "idle" BY DEF Unnamed
<1>2. TabTypes' BY <1>1 DEF TabInv, TabTypes, SockStates
<1>3. /\ sock'[new] = "connecting" /\ owner'[new] = t /\ ws'[t] = new
      /\ \A j \in Sockets \ {new} : sock'[j] = sock[j] /\ owner'[j] = owner[j]
      /\ \A u \in Terminals \ {t} : ws'[u] = ws[u]
  BY <1>1 DEF TabInv, TabTypes
<1>4. Own(t)'
  <2>1. \A k \in Sockets : Mine(k, t)' => k = new BY <1>3 DEF Mine
  <2>2. Has(t)' BY <1>1, <1>3, TerminalAssumption DEF Has, Mine
  <2> QED BY <1>3, <2>1, <2>2 DEF Own
<1>5. ASSUME NEW u \in Terminals \ {t}
      PROVE  (Active(u) => Own(u))' /\ (~Active(u) => Out(u))' /\ (u \in mounted => stage[u] # "unused")'
  <2>1. \A k \in Sockets : Mine(k, u)' <=> Mine(k, u) BY <1>1, <1>3 DEF Mine
  <2>2. \A k \in Sockets : Mine(k, u) => sock'[k] = sock[k] BY <1>1, <1>3 DEF Mine
  <2>3. Has(u)' <=> Has(u) BY <1>3, <2>1 DEF Has, TabInv, TabTypes
  <2>4. Active(u)' <=> Active(u) BY DEF Active
  <2>5. Own(u) => Own(u)' BY <1>3, <2>1, <2>2, <2>3 DEF Own
  <2>6. Out(u) => Out(u)' BY <2>1, <2>2 DEF Out
  <2> QED BY <2>4, <2>5, <2>6 DEF TabInv
<1>6. \A k \in Sockets : (sock[k] # "idle" => owner[k] \in Terminals)' BY <1>3 DEF TabInv
<1>7. SizeIsCurrent' BY <1>3 DEF TabInv, SizeIsCurrent
<1> QED BY <1>2, <1>4, <1>5, <1>6, <1>7 DEF TabInv

LEMMA OnOpenTab ==
  ASSUME TabInv, NEW k \in Sockets, OnOpen(k)
  PROVE  TabInv'
<1> DEFINE t == owner[k]
<1>1. /\ sock' = [sock EXCEPT ![k] = "open"] /\ sock[k] = "connecting" /\ t \in Terminals
      /\ UNCHANGED <<mounted, stage, ws, owner, maxAttempts, timer, lost>>
  BY DEF OnOpen, TabInv, mountVars
<1>2. attempts' \in [Terminals -> Nat] BY DEF OnOpen, TabInv, TabTypes
<1>3. TabTypes' BY <1>1, <1>2 DEF TabInv, TabTypes, SockStates
<1>4. \A j \in Sockets : sock'[j] = IF j = k THEN "open" ELSE sock[j]
  BY <1>1 DEF TabInv, TabTypes
<1>5. \A j \in Sockets, u \in Terminals : Mine(j, u)' <=> Mine(j, u) BY <1>1, <1>4 DEF Mine
<1>6. Active(t)
  <2>1. Mine(k, t) BY <1>1 DEF Mine
  <2> QED BY <1>1, <2>1 DEF TabInv, Out
<1>7. ASSUME NEW u \in Terminals
      PROVE  (Active(u) => Own(u))' /\ (~Active(u) => Out(u))' /\ (u \in mounted => stage[u] # "unused")'
  <2>1. Active(u)' <=> Active(u) BY <1>1 DEF Active
  <2>2. Has(u)' <=> Has(u) BY <1>1, <1>5 DEF Has, TabInv, TabTypes
  <2>3. Own(u) => Own(u)' BY <1>1, <1>4, <1>5, <2>2 DEF Own
  <2>4. Out(u) /\ ~Active(u) => Out(u)' BY <1>1, <1>4, <1>5, <1>6 DEF Out, Mine
  <2> QED BY <1>1, <2>1, <2>3, <2>4 DEF TabInv
<1>8. \A j \in Sockets : (sock[j] # "idle" => owner[j] \in Terminals)' BY <1>1, <1>4 DEF TabInv
<1>9. SizeIsCurrent' BY <1>1, <1>4 DEF TabInv, SizeIsCurrent, OnOpen
<1> QED BY <1>3, <1>7, <1>8, <1>9 DEF TabInv

LEMMA OnCloseTab ==
  ASSUME TabInv, NEW k \in Sockets, OnClose(k)
  PROVE  TabInv'
<1> DEFINE t == owner[k]
<1>1. /\ sock' = [sock EXCEPT ![k] = "idle"] /\ sock[k] # "idle" /\ t \in Terminals
      /\ UNCHANGED <<mounted, stage, ws, owner, maxAttempts>> /\ TryReconnect(t)
      /\ sized' = sized \ {k}
  BY DEF OnClose, Ended, TabInv, mountVars
<1>2. \A j \in Sockets : sock'[j] = IF j = k THEN "idle" ELSE sock[j]
  BY <1>1 DEF TabInv, TabTypes
<1>3. TabTypes'
  <2>1. attempts' \in [Terminals -> Nat]
    <3>1. attempts' = attempts \/ attempts' = [attempts EXCEPT ![t] = attempts[t] + 1]
      BY <1>1 DEF TryReconnect
    <3> QED BY <1>1, <3>1 DEF TabInv, TabTypes
  <2>2. timer' \in [Terminals -> BOOLEAN]
    <3>1. timer' = timer \/ timer' = [timer EXCEPT ![t] = TRUE] BY <1>1 DEF TryReconnect
    <3> QED BY <1>1, <3>1 DEF TabInv, TabTypes
  <2> QED BY <1>1, <2>1, <2>2 DEF TabInv, TabTypes, SockStates
<1>4. \A j \in Sockets, u \in Terminals : Mine(j, u)' <=> Mine(j, u) /\ j # k
  BY <1>1, <1>2 DEF Mine
<1>5. \A u \in Terminals \ {t} : timer'[u] = timer[u] /\ (u \in lost' <=> u \in lost)
  BY <1>1 DEF TryReconnect, TabInv, TabTypes
<1>6. Mine(k, t) BY <1>1 DEF Mine
<1>7. ASSUME NEW u \in Terminals \ {t}
      PROVE  (Active(u) => Own(u))' /\ (~Active(u) => Out(u))' /\ (u \in mounted => stage[u] # "unused")'
  <2>1. Active(u)' <=> Active(u) BY <1>1 DEF Active
  <2>2. \A j \in Sockets : Mine(j, u)' <=> Mine(j, u) BY <1>4 DEF Mine
  <2>3. \A j \in Sockets : Mine(j, u) => sock'[j] = sock[j] BY <1>2 DEF Mine
  <2>4. Has(u)' <=> Has(u) BY <1>1, <2>2 DEF Has, TabInv, TabTypes
  <2>5. Own(u) => Own(u)' BY <1>1, <1>5, <2>2, <2>3, <2>4 DEF Own
  <2>6. Out(u) => Out(u)' BY <1>1, <1>5, <2>2, <2>3 DEF Out
  <2> QED BY <1>1, <2>1, <2>5, <2>6 DEF TabInv
<1>8. (Active(t) => Own(t))' /\ (~Active(t) => Out(t))' /\ (t \in mounted => stage[t] # "unused")'
  <2>t. t' = t BY <1>1
  <2>1. Active(t)' <=> Active(t) BY <1>1 DEF Active
  <2>2. CASE Active(t)
    <3>1. Own(t) BY <1>1, <2>2 DEF TabInv
    <3>a. k = ws[t] BY <1>6, <3>1 DEF Own
    <3>b. Has(t) BY <1>6, <3>a, TerminalAssumption DEF Has
    <3>2. ~timer[t] /\ t \notin lost BY <3>1, <3>b DEF Own
    <3>3. \A j \in Sockets : ~Mine(j, t)' BY <1>1, <1>2, <2>t, <3>1, <3>a DEF Own, Mine
    <3>4. ~Has(t)' BY <1>1, <3>a, <3>3, <2>t DEF Has
    <3>5. \/ timer'[t] /\ t \notin lost'
          \/ ~timer'[t] /\ t \in lost'
      BY <1>1, <3>2 DEF TryReconnect, TabInv, TabTypes
    <3>6. Own(t)' BY <2>t, <3>3, <3>4, <3>5 DEF Own
    <3> QED BY <1>1, <2>t, <2>1, <2>2, <3>6 DEF TabInv
  <2>3. CASE ~Active(t)
    <3>1. Out(t) BY <1>1, <2>3 DEF TabInv
    <3>2. stage[t] = "made" /\ maxAttempts[t] = 0 BY <1>6, <3>1 DEF Out
    <3>3. timer'[t] = timer[t] BY <1>1, <3>2 DEF TryReconnect, TabInv, TabTypes
    <3>4. Out(t)' BY <1>1, <1>2, <1>4, <2>t, <3>1, <3>2, <3>3 DEF Out, Mine
    <3> QED BY <1>1, <2>t, <2>1, <2>3, <3>4 DEF TabInv
  <2> QED BY <2>2, <2>3
<1>9. \A j \in Sockets : (sock[j] # "idle" => owner[j] \in Terminals)' BY <1>1, <1>2 DEF TabInv
<1>10. SizeIsCurrent' BY <1>1, <1>2 DEF TabInv, SizeIsCurrent
<1>11. ASSUME NEW u \in Terminals
       PROVE  (Active(u) => Own(u))' /\ (~Active(u) => Out(u))' /\ (u \in mounted => stage[u] # "unused")'
  <2>1. CASE u = t BY <1>1, <1>8, <2>1
  <2>2. CASE u # t BY <1>7, <2>2
  <2> QED BY <2>1, <2>2
<1> QED BY <1>3, <1>9, <1>10, <1>11 DEF TabInv

LEMMA OnTimerTab ==
  ASSUME TabInv, NEW t \in Terminals, OnTimer(t)
  PROVE  TabInv'
<1>1. /\ timer[t] /\ timer' = [timer EXCEPT ![t] = FALSE] /\ Connect(t)
      /\ UNCHANGED <<mounted, stage, attempts, maxAttempts, lost, sized>>
  BY DEF OnTimer, mountVars
<1>2. Active(t) BY <1>1 DEF TabInv, Out
<1>3. Own(t) BY <1>2 DEF TabInv
<1>4. ~Has(t) /\ t \notin lost BY <1>1, <1>3 DEF Own
<1>5. \A k \in Sockets : ~Mine(k, t) BY <1>3, <1>4, TerminalAssumption DEF Own, Has
<1>6. Active(t)' BY <1>1, <1>2 DEF Active
<1>7. stage[t] # "unused" BY <1>2 DEF Active
<1>8. timer' \in [Terminals -> BOOLEAN] /\ ~timer'[t] /\ stage' \in [Terminals -> Stages]
      /\ \A u \in Terminals \ {t} : timer'[u] = timer[u] /\ stage'[u] = stage[u]
  BY <1>1 DEF TabInv, TabTypes
<1> QED BY <1>1, <1>4, <1>5, <1>6, <1>7, <1>8, ConnectGives

LEMMA UrlArrivesTab ==
  ASSUME TabInv, NEW t \in Terminals, UrlArrives(t)
  PROVE  TabInv'
<1>1. /\ stage[t] = "asking" /\ Connect(t)
      /\ stage' = [stage EXCEPT ![t] = IF t \in mounted THEN "made" ELSE "late"]
      /\ UNCHANGED <<mounted, attempts, timer, maxAttempts, lost, sized>>
  BY DEF UrlArrives, retryVars
<1>2. Out(t) BY <1>1 DEF TabInv, Active
<1>3. t \notin lost /\ ~timer[t] /\ \A k \in Sockets : ~Mine(k, t) BY <1>1, <1>2 DEF Out
<1>4. stage' \in [Terminals -> Stages] /\ stage'[t] = IF t \in mounted THEN "made" ELSE "late"
  BY <1>1 DEF TabInv, TabTypes, Stages
<1>5. Active(t)' /\ stage'[t] # "unused" BY <1>1, <1>4 DEF Active
<1>6. \A u \in Terminals \ {t} : timer'[u] = timer[u] /\ stage'[u] = stage[u]
  BY <1>1 DEF TabInv, TabTypes
<1>7. timer' \in [Terminals -> BOOLEAN] /\ ~timer'[t] BY <1>1, <1>3 DEF TabInv, TabTypes
<1> QED BY <1>1, <1>3, <1>4, <1>5, <1>6, <1>7, ConnectGives

\* Steps that change which tabs are open, or the size of a terminal.
LEMMA OtherTab ==
  ASSUME TabInv, NEW t \in Terminals, Mount(t) \/ UrlFails(t) \/ Resize(t)
  PROVE  TabInv'
<1> USE DEF linkVars, retryVars, socketVars, mountVars
<1>1. UNCHANGED <<sock, attempts, timer, lost, ws, owner, maxAttempts>>
  BY DEF Mount, UrlFails, Resize
<1>2. \A k \in Sockets, u \in Terminals : Mine(k, u)' <=> Mine(k, u) BY <1>1 DEF Mine
<1>3. \A u \in Terminals : Has(u)' <=> Has(u) BY <1>1, <1>2 DEF Has, TabInv, TabTypes
<1>4. \A u \in Terminals : Own(u) => Own(u)' BY <1>1, <1>2, <1>3 DEF Own
<1>5. stage' \in [Terminals -> Stages]
  BY DEF Mount, UrlFails, Resize, TabInv, TabTypes, Stages
<1>6. \A u \in Terminals : /\ Active(u)' <=> Active(u)
                           /\ stage'[u] = "made" <=> stage[u] = "made"
  BY DEF Mount, UrlFails, Resize, Active, TabInv, TabTypes
<1>7. \A u \in Terminals : Out(u) => Out(u)' BY <1>1, <1>2, <1>6 DEF Out
<1>8. \A u \in Terminals : (u \in mounted => stage[u] # "unused")'
  BY DEF Mount, UrlFails, Resize, TabInv, TabTypes
<1>9. SizeIsCurrent'
  <2> SUFFICES ASSUME NEW k \in Sockets, sock[k] = "open", owner[k] \in mounted'
               PROVE  k \in sized'
    BY <1>1 DEF SizeIsCurrent
  <2> DEFINE u == owner[k]
  <2>1. u \in Terminals BY DEF TabInv
  <2>2. Mine(k, u) BY DEF Mine
  <2>3. stage[u] = "made" \/ Active(u) BY <2>1, <2>2 DEF TabInv, Out
  <2>4. u \in mounted BY <2>3 DEF Mount, UrlFails, Resize, Active
  <2>5. k \in sized BY <2>4 DEF TabInv, SizeIsCurrent
  <2>6. CASE sized' = sized BY <2>5, <2>6
  <2>7. CASE Resize(t)
    <3>1. CASE u # t BY <2>5, <2>7, <3>1 DEF Resize
    <3>2. CASE u = t
      <4>1. Active(u) BY <2>3, <2>4 DEF Active
      <4>2. k = ws[u] BY <2>1, <2>2, <4>1 DEF TabInv, Own
      <4> QED BY <2>7, <3>2, <4>2 DEF Resize
    <3> QED BY <3>1, <3>2
  <2> QED BY <2>6, <2>7 DEF Mount, UrlFails
<1>10. TabTypes' BY <1>1, <1>5 DEF TabInv, TabTypes
<1>11. \A k \in Sockets : (sock[k] # "idle" => owner[k] \in Terminals)' BY <1>1 DEF TabInv
<1> QED BY <1>4, <1>6, <1>7, <1>8, <1>9, <1>10, <1>11 DEF TabInv

LEMMA UnmountTab ==
  ASSUME TabInv, NEW t \in Terminals, Unmount(t)
  PROVE  TabInv'
<1>1. /\ t \in mounted /\ mounted' = mounted \ {t}
      /\ UNCHANGED <<stage, attempts, lost, owner, sized>>
  BY DEF Unmount
<1>2. ASSUME NEW u \in Terminals \ {t} PROVE Active(u)' <=> Active(u) BY <1>1 DEF Active
<1>3. CASE stage[t] # "made"
  <2>1. UNCHANGED <<sock, ws, maxAttempts, timer>> BY <1>3 DEF Unmount, linkVars
  <2>2. Active(t)' <=> Active(t) BY <1>1, <1>3 DEF Active
  <2>3. \A u \in Terminals : (Own(u) => Own(u)') /\ (Out(u) => Out(u)')
    BY <1>1, <2>1 DEF Own, Out, Has, Mine
  <2>4. TabTypes' /\ SizeIsCurrent' BY <1>1, <2>1 DEF TabInv, TabTypes, SizeIsCurrent
  <2> QED BY <1>1, <1>2, <2>1, <2>2, <2>3, <2>4 DEF TabInv
<1>4. CASE stage[t] = "made"
  <2>1. Disconnect(t) BY <1>4 DEF Unmount
  <2>2. Own(t) BY <1>1, <1>4 DEF TabInv, Active
  <2>3. /\ timer' = [timer EXCEPT ![t] = FALSE] /\ maxAttempts' = [maxAttempts EXCEPT ![t] = 0]
        /\ ws' = [ws EXCEPT ![t] = None] /\ CloseSocket(t)
    BY <2>1 DEF Disconnect
  <2>4. /\ sock' \in [Sockets -> SockStates]
        /\ \A k \in Sockets :
             IF Mine(k, t) /\ sock[k] \in {"connecting", "open"}
             THEN sock'[k] = "closing" ELSE sock'[k] = sock[k]
    <3>1. \A k \in Sockets : Mine(k, t) => k = ws[t] BY <2>2 DEF Own
    <3>2. CASE ws[t] # None /\ owner[ws[t]] = t /\ sock[ws[t]] \in {"connecting", "open"}
      <4>1. sock' = [sock EXCEPT ![ws[t]] = "closing"] /\ ws[t] \in Sockets
        BY <2>3, <3>2 DEF CloseSocket, TabInv, TabTypes
      <4>2. Mine(ws[t], t) BY <3>2 DEF Mine
      <4> QED BY <3>1, <3>2, <4>1, <4>2 DEF TabInv, TabTypes, SockStates
    <3>3. CASE ~(ws[t] # None /\ owner[ws[t]] = t /\ sock[ws[t]] \in {"connecting", "open"})
      <4>1. sock' = sock BY <2>3, <3>3 DEF CloseSocket, linkVars
      <4> QED BY <3>1, <3>3, <4>1, TerminalAssumption DEF TabInv, TabTypes, Mine
    <3> QED BY <3>2, <3>3
  <2>5. TabTypes' BY <1>1, <2>3, <2>4 DEF TabInv, TabTypes
  <2>6. \A k \in Sockets, u \in Terminals : Mine(k, u)' <=> Mine(k, u)
    BY <1>1, <2>4 DEF Mine
  <2>7. ASSUME NEW u \in Terminals \ {t} PROVE (Own(u) => Own(u)') /\ (Out(u) => Out(u)')
    <3>1. \A k \in Sockets : Mine(k, u) => sock'[k] = sock[k] BY <2>4 DEF Mine
    <3>2. timer'[u] = timer[u] /\ ws'[u] = ws[u] /\ maxAttempts'[u] = maxAttempts[u]
      BY <2>3 DEF TabInv, TabTypes
    <3>3. Has(u)' <=> Has(u) BY <2>6, <3>2 DEF Has, TabInv, TabTypes
    <3> QED BY <1>1, <2>6, <3>1, <3>2, <3>3 DEF Own, Out
  <2>8. ~Active(t)' BY <1>1, <1>4 DEF Active
  <2>9. Out(t)'
    <3>1. ~timer'[t] /\ maxAttempts'[t] = 0 BY <2>3 DEF TabInv, TabTypes
    <3>2. \A k \in Sockets : Mine(k, t) => sock'[k] \in {"refused", "closing"}
      BY <2>4 DEF TabInv, TabTypes, SockStates, Mine
    <3> QED BY <1>1, <1>4, <2>6, <3>1, <3>2 DEF Out
  <2>10. \A k \in Sockets : (sock[k] # "idle" => owner[k] \in Terminals)'
    BY <1>1, <2>4 DEF TabInv, Mine
  <2>11. SizeIsCurrent' BY <1>1, <2>4 DEF TabInv, SizeIsCurrent
  <2> QED BY <1>1, <1>2, <2>5, <2>7, <2>8, <2>9, <2>10, <2>11 DEF TabInv
<1> QED BY <1>3, <1>4

LEMMA NextTabInv == TabInv /\ [Next]_vars => TabInv'
<1> SUFFICES ASSUME TabInv, [Next]_vars PROVE TabInv' OBVIOUS
<1>1. CASE TabNext
  BY <1>1, OnOpenTab, OnCloseTab, OnTimerTab, UrlArrivesTab, OtherTab, UnmountTab DEF TabNext
<1>2. CASE BridgeNext /\ UNCHANGED tabVars BY <1>2, BridgeTab
<1>3. CASE UNCHANGED vars
  BY <1>3 DEF vars, linkVars, tabVars, mountVars, retryVars, socketVars,
              TabInv, TabTypes, Active, Own, Out, Has, Mine, SizeIsCurrent
<1> QED BY <1>1, <1>2, <1>3 DEF Next

\* The inductive invariant of a tab's terminal (ws.ts, useTerminal.ts:121-210).
THEOREM TabInvariance == Spec => []TabInv
BY InitTabInv, NextTabInv, PTL DEF Spec

\* A terminal is never connected twice and never silent, and a tab that was disconnected
\* connects no more (ws.ts:14-34, 46-67, useTerminal.ts:182-210).
THEOREM OneAttemptHolds == Spec => []OneAttempt
<1>1. ASSUME TabInv PROVE OneAttempt
  <2> SUFFICES ASSUME NEW t \in Terminals
               PROVE  /\ Active(t) => Cardinality(SocketsOf(t)) + (IF timer[t] THEN 1 ELSE 0)
                                        + (IF t \in lost THEN 1 ELSE 0) = 1
                      /\ stage[t] = "made" /\ t \notin mounted =>
                           ~timer[t] /\ \A k \in SocketsOf(t) : sock[k] \notin {"connecting", "open"}
    BY DEF OneAttempt, Active
  <2>1. ASSUME Active(t)
        PROVE  Cardinality(SocketsOf(t)) + (IF timer[t] THEN 1 ELSE 0)
                 + (IF t \in lost THEN 1 ELSE 0) = 1
    <3>1. Own(t) BY <1>1, <2>1 DEF TabInv
    <3>2. CASE Has(t)
      <4>1. SocketsOf(t) = {ws[t]}
        BY <1>1, <3>1, <3>2 DEF SocketsOf, Own, Has, Mine, TabInv, TabTypes
      <4>2. Cardinality(SocketsOf(t)) = 1 BY <4>1, FS_Singleton
      <4> QED BY <3>1, <3>2, <4>2 DEF Own
    <3>3. CASE ~Has(t)
      <4>1. SocketsOf(t) = {}
        BY <3>1, <3>3, TerminalAssumption DEF SocketsOf, Own, Has, Mine
      <4>2. Cardinality(SocketsOf(t)) = 0 BY <4>1, FS_EmptySet
      <4> QED BY <3>1, <3>3, <4>2 DEF Own
    <3> QED BY <3>2, <3>3
  <2>2. ASSUME stage[t] = "made", t \notin mounted
        PROVE  ~timer[t] /\ \A k \in SocketsOf(t) : sock[k] \notin {"connecting", "open"}
    BY <1>1, <2>2 DEF TabInv, Active, Out, Mine, SocketsOf
  <2> QED BY <2>1, <2>2
<1> QED BY <1>1, TabInvariance, PTL

\* The server is told the size of every terminal it is connected to (ws.ts:18-21,
\* useTerminal.ts:159-179).
THEOREM SizeIsCurrentHolds == Spec => []SizeIsCurrent
<1>1. TabInv => SizeIsCurrent BY DEF TabInv
<1> QED BY <1>1, TabInvariance, PTL

-----------------------------------------------------------------------------
(* Refinement of Reconnection.                                             *)

\* What is left of Doing while nothing a terminal does is "astray".
Does(t) ==
  IF stage[t] \in {"unused", "asking", "failed"} THEN "new"
  ELSE IF ~Active(t) THEN "stopped"
  ELSE IF timer[t] THEN "waiting"
  ELSE IF t \in lost THEN "lost"
  ELSE IF sock[ws[t]] = "open" THEN "open"
  ELSE "trying"

\* A terminal that nobody has disconnected may use all its attempts.
Allowed ==
  \A t \in Terminals : Active(t) \/ stage[t] # "made" => maxAttempts[t] = MaxReconnectAttempts

LinkInv == TabInv /\ Allowed

LEMMA DoingIs == TabInv => \A t \in Terminals : Doing(t) = Does(t)
<1> SUFFICES ASSUME TabInv, NEW t \in Terminals PROVE Doing(t) = Does(t) OBVIOUS
<1> USE TerminalAssumption
<1>1. SocketsOf(t) = {k \in Sockets : Mine(k, t)} BY DEF SocketsOf, Mine
<1>2. CASE stage[t] \in {"unused", "asking", "failed"}
  <2>1. Out(t) /\ ~Active(t) BY <1>2 DEF TabInv, Active
  <2>2. SocketsOf(t) = {} /\ ~timer[t] BY <1>1, <1>2, <2>1 DEF Out
  <2> QED BY <1>2, <2>1, <2>2 DEF Doing, Does, Active
<1>3. CASE stage[t] \notin {"unused", "asking", "failed"} /\ ~Active(t)
  <2>1. Out(t) BY <1>3 DEF TabInv
  <2>2. ~timer[t] /\ \A k \in SocketsOf(t) : sock[k] \notin {"connecting", "open"}
    BY <1>1, <2>1 DEF Out
  <2> QED BY <1>3, <2>2 DEF Doing, Does, Active
<1>4. CASE Active(t)
  <2>1. Own(t) /\ stage[t] \in {"late", "made"} BY <1>4 DEF TabInv, Active
  <2>2. CASE Has(t)
    <3>1. SocketsOf(t) = {ws[t]} /\ ws[t] \in Sockets
      BY <1>1, <2>1, <2>2 DEF Own, Has, TabInv, TabTypes
    <3>2. ~timer[t] /\ t \notin lost BY <2>1, <2>2 DEF Own
    <3>3. sock[ws[t]] \in {"connecting", "refused", "open"}
      BY <2>1, <2>2, <3>1 DEF Own, Has, Mine, TabInv, TabTypes, SockStates
    <3>4. \A k \in Sockets : SocketsOf(t) = {k} => k = ws[t] BY <3>1
    <3>5. CASE sock[ws[t]] = "open" BY <1>4, <2>1, <3>1, <3>2, <3>4, <3>5 DEF Doing, Does, Active
    <3>6. CASE sock[ws[t]] \in {"connecting", "refused"}
      BY <1>4, <2>1, <3>1, <3>2, <3>4, <3>6 DEF Doing, Does, Active
    <3> QED BY <3>3, <3>5, <3>6
  <2>3. CASE ~Has(t)
    <3>1. SocketsOf(t) = {} BY <1>1, <2>1, <2>3 DEF Own, Has
    <3>2. ~\E k \in Sockets : SocketsOf(t) = {k} BY <3>1
    <3>3. \/ timer[t] /\ t \notin lost
          \/ ~timer[t] /\ t \in lost
      BY <2>1, <2>3 DEF Own
    <3> QED BY <1>4, <2>1, <3>1, <3>2, <3>3 DEF Doing, Does, Active
  <2> QED BY <2>2, <2>3
<1> QED BY <1>2, <1>3, <1>4

\* What one terminal does in a step, in terms of Reconnection.
Same(t) == Does(t)' = Does(t) /\ attempts'[t] = attempts[t]
Started(t) == Does(t) = "new" /\ Does(t)' = "trying" /\ attempts'[t] = attempts[t]
Opened(t) == Does(t) = "trying" /\ Does(t)' = "open" /\ attempts'[t] = 0
Failed(t) ==
  /\ Does(t) \in {"open", "trying", "waiting"}
  /\ \/ /\ attempts[t] < MaxReconnectAttempts
        /\ Does(t)' = "waiting" /\ attempts'[t] = attempts[t] + 1
     \/ /\ attempts[t] >= MaxReconnectAttempts
        /\ Does(t)' = "lost" /\ attempts'[t] = attempts[t]
Retried(t) == Does(t) = "waiting" /\ Does(t)' = "trying" /\ attempts'[t] = attempts[t]
Stopped(t) == Does(t) # "new" /\ Does(t)' = "stopped" /\ attempts'[t] = attempts[t]

Moves(t) == Same(t) \/ Started(t) \/ Opened(t) \/ Failed(t) \/ Retried(t) \/ Stopped(t)

\* A terminal whose own fields and socket stay as they are does the same as before.
LEMMA Stays ==
  ASSUME TabInv, NEW t \in Terminals,
         stage'[t] = stage[t], Active(t)' <=> Active(t), timer'[t] = timer[t],
         t \in lost' <=> t \in lost, attempts'[t] = attempts[t], ws'[t] = ws[t],
         Active(t) /\ Has(t) => (sock'[ws[t]] = "open" <=> sock[ws[t]] = "open")
  PROVE  Same(t)
<1>1. CASE Active(t) /\ ~timer[t] /\ t \notin lost
  <2>1. Has(t) BY <1>1 DEF TabInv, Own
  <2>2. Does(t)' = Does(t) BY <1>1, <2>1 DEF Does
  <2> QED BY <2>2 DEF Same
<1>2. CASE ~(Active(t) /\ ~timer[t] /\ t \notin lost)
  <2>1. Does(t)' = Does(t) BY <1>2 DEF Does
  <2> QED BY <2>1 DEF Same
<1> QED BY <1>1, <1>2

LEMMA ConnectMoves ==
  ASSUME TabInv, NEW t \in Terminals, OnTimer(t) \/ UrlArrives(t), NEW u \in Terminals
  PROVE  Moves(u)
<1> PICK new \in Unnamed : /\ sock' = [sock EXCEPT ![new] = "connecting"]
                           /\ ws' = [ws EXCEPT ![t] = new]
  BY DEF OnTimer, UrlArrives, Connect
<1>1. new \in Sockets /\ sock[new] = "idle" BY DEF Unnamed
<1>2. sock'[ws'[t]] = "connecting" BY <1>1 DEF TabInv, TabTypes
<1>3. attempts' = attempts /\ lost' = lost /\ mounted' = mounted
  BY DEF OnTimer, UrlArrives, mountVars, retryVars
<1>4. CASE u # t
  <2>1. /\ stage'[u] = stage[u] /\ timer'[u] = timer[u] /\ ws'[u] = ws[u]
    BY <1>4 DEF OnTimer, UrlArrives, mountVars, retryVars, TabInv, TabTypes
  <2>2. Active(u)' <=> Active(u) BY <1>3, <2>1 DEF Active
  <2>3. Has(u) => sock'[ws[u]] = sock[ws[u]]
    BY <1>1 DEF Has, Mine, TabInv, TabTypes
  <2> QED BY <1>3, <2>1, <2>2, <2>3, Stays DEF Moves
<1>5. CASE u = t /\ OnTimer(t)
  <2>1. timer[t] /\ ~timer'[t] /\ stage' = stage
    BY <1>5 DEF OnTimer, mountVars, TabInv, TabTypes
  <2>2. Active(t) /\ stage[t] \in {"late", "made"} BY <2>1 DEF TabInv, Out, Active
  <2>3. t \notin lost BY <2>1, <2>2 DEF TabInv, Own
  <2>4. Does(t) = "waiting" BY <2>1, <2>2 DEF Does
  <2>5. Active(t)' BY <1>3, <2>1, <2>2 DEF Active
  <2>6. Does(t)' = "trying" BY <1>2, <1>3, <2>1, <2>2, <2>3, <2>5 DEF Does
  <2> QED BY <1>3, <1>5, <2>4, <2>6 DEF Moves, Retried
<1>6. CASE u = t /\ UrlArrives(t)
  <2>1. stage[t] = "asking" /\ timer' = timer BY <1>6 DEF UrlArrives, retryVars
  <2>2. stage'[t] = IF t \in mounted THEN "made" ELSE "late"
    BY <1>6 DEF UrlArrives, TabInv, TabTypes
  <2>3. Out(t) BY <2>1 DEF TabInv, Active
  <2>4. t \notin lost /\ ~timer[t] BY <2>1, <2>3 DEF Out
  <2>5. Active(t)' BY <1>3, <2>2 DEF Active
  <2>6. Does(t)' = "trying" BY <1>2, <1>3, <2>1, <2>2, <2>4, <2>5 DEF Does
  <2>7. Does(t) = "new" BY <2>1 DEF Does
  <2> QED BY <1>3, <1>6, <2>6, <2>7 DEF Moves, Started
<1> QED BY <1>4, <1>5, <1>6

LEMMA OnOpenMoves ==
  ASSUME TabInv, NEW k \in Sockets, OnOpen(k), NEW u \in Terminals
  PROVE  Moves(u)
<1>1. PICK t \in Terminals : t = owner[k] BY DEF OnOpen, TabInv
<1>2. /\ sock' = [sock EXCEPT ![k] = "open"] /\ sock[k] = "connecting"
      /\ attempts' = [attempts EXCEPT ![t] = 0]
      /\ UNCHANGED <<mounted, stage, ws, timer, lost>>
  BY <1>1 DEF OnOpen, mountVars
<1>3. Mine(k, t) BY <1>1, <1>2 DEF Mine
<1>4. Active(t) /\ stage[t] \in {"late", "made"} BY <1>2, <1>3 DEF TabInv, Out, Active
<1>5. k = ws[t] /\ Has(t) BY <1>3, <1>4, TerminalAssumption DEF TabInv, Own, Has
<1>6. \A v \in Terminals : Active(v)' <=> Active(v) BY <1>2 DEF Active
<1>7. CASE u # t
  <2>1. Has(u) => ws[u] # k BY <1>1, <1>7 DEF Has, Mine
  <2>2. Has(u) => sock'[ws[u]] = sock[ws[u]] BY <1>2, <2>1 DEF TabInv, TabTypes
  <2>3. attempts'[u] = attempts[u] BY <1>2, <1>7 DEF TabInv, TabTypes
  <2> QED BY <1>2, <1>6, <2>2, <2>3, Stays DEF Moves
<1>8. CASE u = t
  <2>1. ~timer[t] /\ t \notin lost BY <1>4, <1>5 DEF TabInv, Own
  <2>2. Does(t) = "trying" BY <1>2, <1>4, <1>5, <2>1 DEF Does
  <2>3. sock'[ws'[t]] = "open" /\ Active(t)' BY <1>2, <1>4, <1>5, <1>6 DEF TabInv, TabTypes
  <2>4. Does(t)' = "open" BY <1>2, <1>4, <2>1, <2>3 DEF Does
  <2>5. attempts'[t] = 0 BY <1>2 DEF TabInv, TabTypes
  <2> QED BY <1>8, <2>2, <2>4, <2>5 DEF Moves, Opened
<1> QED BY <1>7, <1>8

LEMMA OnCloseMoves ==
  ASSUME LinkInv, NEW k \in Sockets, OnClose(k), NEW u \in Terminals
  PROVE  Moves(u)
<1>a. TabInv /\ Allowed BY DEF LinkInv
<1>1. PICK t \in Terminals : t = owner[k] BY <1>a DEF OnClose, Ended, TabInv
<1>2. /\ sock' = [sock EXCEPT ![k] = "idle"] /\ sock[k] # "idle" /\ TryReconnect(t)
      /\ UNCHANGED <<mounted, stage, ws>>
  BY <1>1 DEF OnClose, Ended, mountVars
<1>3. Mine(k, t) BY <1>1, <1>2 DEF Mine
<1>4. \A v \in Terminals : Active(v)' <=> Active(v) BY <1>2 DEF Active
<1>5. CASE u # t
  <2>1. Has(u) => ws[u] # k BY <1>1, <1>5 DEF Has, Mine
  <2>2. Has(u) => sock'[ws[u]] = sock[ws[u]] BY <1>a, <1>2, <2>1 DEF TabInv, TabTypes
  <2>3. attempts'[u] = attempts[u] /\ timer'[u] = timer[u] /\ (u \in lost' <=> u \in lost)
    BY <1>a, <1>2, <1>5 DEF TryReconnect, TabInv, TabTypes
  <2> QED BY <1>a, <1>2, <1>4, <2>2, <2>3, Stays DEF Moves
<1>6. CASE u = t /\ Active(t)
  <2>1. Own(t) /\ stage[t] \in {"late", "made"} BY <1>a, <1>6 DEF TabInv, Active
  <2>2. Has(t) BY <1>3, <2>1, TerminalAssumption DEF Own, Has
  <2>3. ~timer[t] /\ t \notin lost BY <2>1, <2>2 DEF Own
  <2>4. Does(t) \in {"open", "trying"} BY <1>6, <2>1, <2>3 DEF Does
  <2>5. maxAttempts[t] = MaxReconnectAttempts BY <1>a, <1>6 DEF Allowed
  <2>6. Active(t)' /\ stage'[t] \in {"late", "made"} BY <1>2, <1>4, <1>6, <2>1
  <2>7. attempts[t] \in Nat /\ MaxReconnectAttempts \in Nat
    BY <1>a, TerminalAssumption DEF TabInv, TabTypes
  <2>8. CASE attempts[t] >= MaxReconnectAttempts
    <3>1. attempts' = attempts /\ timer' = timer /\ t \in lost'
      BY <1>2, <2>5, <2>8 DEF TryReconnect
    <3>2. Does(t)' = "lost" BY <2>3, <2>6, <3>1 DEF Does
    <3> QED BY <1>6, <2>4, <2>8, <3>1, <3>2 DEF Moves, Failed
  <2>9. CASE ~(attempts[t] >= MaxReconnectAttempts)
    <3>1. attempts'[t] = attempts[t] + 1 /\ timer'[t]
      BY <1>a, <1>2, <2>5, <2>9 DEF TryReconnect, TabInv, TabTypes
    <3>2. Does(t)' = "waiting" BY <2>6, <3>1 DEF Does
    <3>3. attempts[t] < MaxReconnectAttempts BY <2>7, <2>9
    <3> QED BY <1>6, <2>4, <3>1, <3>2, <3>3 DEF Moves, Failed
  <2> QED BY <2>8, <2>9
<1>7. CASE u = t /\ ~Active(t)
  <2>1. Out(t) BY <1>a, <1>7 DEF TabInv
  <2>2. stage[t] = "made" /\ maxAttempts[t] = 0 BY <1>3, <2>1 DEF Out
  <2>3. attempts' = attempts BY <1>a, <1>2, <2>2 DEF TryReconnect, TabInv, TabTypes
  <2>4. Does(t) = "stopped" /\ Does(t)' = "stopped" BY <1>2, <1>4, <1>7, <2>2 DEF Does
  <2> QED BY <1>7, <2>3, <2>4 DEF Moves, Same
<1> QED BY <1>5, <1>6, <1>7

LEMMA UnmountMoves ==
  ASSUME TabInv, NEW t \in Terminals, Unmount(t), NEW u \in Terminals
  PROVE  Moves(u)
<1>1. /\ t \in mounted /\ mounted' = mounted \ {t}
      /\ UNCHANGED <<stage, attempts, lost>>
  BY DEF Unmount
<1>2. CASE stage[t] # "made"
  <2>1. UNCHANGED <<sock, ws, timer>> BY <1>2 DEF Unmount, linkVars
  <2>2. Active(u)' <=> Active(u) BY <1>1, <1>2 DEF Active
  <2> QED BY <1>1, <2>1, <2>2, Stays DEF Moves
<1>3. CASE stage[t] = "made"
  <2>1. /\ timer' = [timer EXCEPT ![t] = FALSE] /\ ws' = [ws EXCEPT ![t] = None]
        /\ CloseSocket(t)
    BY <1>3 DEF Unmount, Disconnect
  <2>2. CASE u = t
    <3>1. Active(t) /\ ~Active(t)' BY <1>1, <1>3 DEF Active
    <3>2. Does(t) # "new" /\ Does(t)' = "stopped" BY <1>1, <1>3, <3>1 DEF Does
    <3> QED BY <1>1, <2>2, <3>2 DEF Moves, Stopped
  <2>3. CASE u # t
    <3>1. Active(u)' <=> Active(u) BY <1>1, <2>3 DEF Active
    <3>2. timer'[u] = timer[u] /\ ws'[u] = ws[u] BY <2>1, <2>3 DEF TabInv, TabTypes
    <3>3. Has(u) => owner[ws[u]] = u BY DEF Has, Mine
    <3>4. \/ sock' = sock
          \/ owner[ws[t]] = t /\ sock' = [sock EXCEPT ![ws[t]] = "closing"]
      BY <2>1 DEF CloseSocket, linkVars
    <3>5. ASSUME Has(u) PROVE sock'[ws[u]] = sock[ws[u]]
      <4>1. ws[u] \in Sockets BY <3>5 DEF Has, TabInv, TabTypes
      <4>2. owner[ws[t]] = t => ws[u] # ws[t] BY <2>3, <3>3, <3>5
      <4> QED BY <3>4, <4>1, <4>2 DEF TabInv, TabTypes
    <3> QED BY <1>1, <3>1, <3>2, <3>5, Stays DEF Moves
  <2> QED BY <2>2, <2>3
<1> QED BY <1>2, <1>3

LEMMA OtherMoves ==
  ASSUME TabInv, NEW t \in Terminals, Mount(t) \/ UrlFails(t) \/ Resize(t), NEW u \in Terminals
  PROVE  Moves(u)
<1>1. UNCHANGED <<sock, attempts, timer, lost, ws>>
  BY DEF Mount, UrlFails, Resize, linkVars, retryVars, socketVars
<1>2. CASE stage'[u] = stage[u]
  <2>1. Active(u)' <=> Active(u)
    BY <1>2 DEF Mount, UrlFails, Resize, Active, mountVars, TabInv, TabTypes
  <2> QED BY <1>1, <1>2, <2>1, Stays DEF Moves
<1>3. CASE stage'[u] # stage[u]
  <2>1. stage[u] \in {"unused", "asking"} /\ stage'[u] \in {"asking", "failed"}
    BY <1>3 DEF Mount, UrlFails, Resize, mountVars, TabInv, TabTypes
  <2>2. Does(u) = "new" /\ Does(u)' = "new" BY <2>1 DEF Does
  <2> QED BY <1>1, <2>2 DEF Moves, Same
<1> QED BY <1>2, <1>3

\* The server's side refuses an attempt, which goes on until its close event.
LEMMA BridgeMoves ==
  ASSUME TabInv, BridgeNext, UNCHANGED tabVars, NEW u \in Terminals
  PROVE  Moves(u)
<1>1. UNCHANGED <<mounted, stage, attempts, timer, lost, ws>>
  BY DEF tabVars, mountVars, retryVars, socketVars
<1>2. \A k \in Sockets : sock'[k] = "open" <=> sock[k] = "open"
  <2>1. CASE sock' = sock BY <2>1
  <2>2. ASSUME NEW j \in Sockets, Refuse(j)
        PROVE  \A k \in Sockets : sock'[k] = "open" <=> sock[k] = "open"
    BY <2>2 DEF Refuse, TabInv, TabTypes
  <2>3. sock' = sock \/ \E j \in Sockets : Refuse(j)
    BY DEF BridgeNext, Answer, Accept, RelayFails, Return, Released, LinkDrops, linkVars
  <2> QED BY <2>1, <2>2, <2>3
<1>3. Active(u)' <=> Active(u) BY <1>1 DEF Active
<1>4. Has(u) => ws[u] \in Sockets BY DEF Has, TabInv, TabTypes
<1> QED BY <1>1, <1>2, <1>3, <1>4, Stays DEF Moves

LEMMA StepMoves ==
  ASSUME LinkInv, [Next]_vars, NEW u \in Terminals
  PROVE  Moves(u)
<1>a. TabInv BY DEF LinkInv
<1>1. CASE TabNext
  BY <1>a, <1>1, ConnectMoves, OnOpenMoves, OnCloseMoves, UnmountMoves, OtherMoves DEF TabNext
<1>2. CASE BridgeNext /\ UNCHANGED tabVars BY <1>a, <1>2, BridgeMoves
<1>3. CASE UNCHANGED vars
  <2>1. UNCHANGED <<sock, mounted, stage, attempts, timer, lost, ws>>
    BY <1>3 DEF vars, linkVars, tabVars, mountVars, retryVars, socketVars
  <2>2. Active(u)' <=> Active(u) BY <2>1 DEF Active
  <2> QED BY <1>a, <2>1, <2>2, Stays DEF Moves
<1> QED BY <1>1, <1>2, <1>3 DEF Next

LEMMA NextLinkInv == LinkInv /\ [Next]_vars => LinkInv'
<1> SUFFICES ASSUME LinkInv, [Next]_vars PROVE LinkInv' OBVIOUS
<1>a. TabInv /\ Allowed BY DEF LinkInv
<1>1. TabInv' BY <1>a, NextTabInv
<1> USE DEF mountVars, retryVars, socketVars, linkVars
<1>2. Allowed'
  <2> SUFFICES ASSUME NEW u \in Terminals, (Active(u) \/ stage[u] # "made")'
               PROVE  maxAttempts'[u] = MaxReconnectAttempts
    BY DEF Allowed
  <2>1. CASE UNCHANGED <<mounted, stage, maxAttempts>> BY <1>a, <2>1 DEF Allowed, Active
  <2>2. ASSUME NEW t \in Terminals, Mount(t) \/ UrlArrives(t) \/ UrlFails(t)
        PROVE  maxAttempts'[u] = MaxReconnectAttempts
    <3>1. maxAttempts' = maxAttempts /\ (stage'[u] = stage[u] \/ stage[u] \in {"unused", "asking"})
      BY <1>a, <2>2 DEF Mount, UrlArrives, UrlFails, TabInv, TabTypes
    <3>2. stage[u] = "made" => (u \in mounted <=> u \in mounted')
      BY <2>2 DEF Mount, UrlArrives, UrlFails
    <3> QED BY <1>a, <3>1, <3>2 DEF Allowed, Active
  <2>3. ASSUME NEW t \in Terminals, Unmount(t) PROVE maxAttempts'[u] = MaxReconnectAttempts
    <3>1. mounted' = mounted \ {t} /\ stage' = stage BY <2>3 DEF Unmount
    <3>2. Active(u) \/ stage[u] # "made" BY <3>1 DEF Active
    <3>3. CASE stage[t] # "made" BY <1>a, <2>3, <3>2, <3>3 DEF Unmount, Allowed
    <3>4. CASE stage[t] = "made"
      <4>1. u # t BY <3>1, <3>4 DEF Active
      <4>2. maxAttempts'[u] = maxAttempts[u]
        BY <1>a, <2>3, <3>4, <4>1 DEF Unmount, Disconnect, TabInv, TabTypes
      <4> QED BY <1>a, <3>2, <4>2 DEF Allowed
    <3> QED BY <3>3, <3>4
  <2>4. UNCHANGED <<mounted, stage, maxAttempts>> \/ \E t \in Terminals :
          Mount(t) \/ UrlArrives(t) \/ UrlFails(t) \/ Unmount(t)
    BY DEF Next, TabNext, OnTimer, Resize, OnOpen, OnClose, vars, tabVars
  <2> QED BY <2>1, <2>2, <2>3, <2>4
<1> QED BY <1>1, <1>2 DEF LinkInv

LEMMA StepRefines ==
  ASSUME LinkInv, \A t \in Terminals : Doing(t) = Does(t),
         (\A t \in Terminals : Doing(t) = Does(t))', [Next]_vars
  PROVE  R!Next
<1> DEFINE now == [t \in Terminals |-> Doing(t)]
           next == [t \in Terminals |-> Doing(t)']
<1>1. ASSUME NEW t \in Terminals PROVE R!Step(t) \/ R!Becomes(t, now[t])
  <2>1. Moves(t) BY <1>1, StepMoves
  <2>2. now[t] = Does(t) /\ next[t] = Does(t)' OBVIOUS
  <2> QED BY <2>1, <2>2 DEF Moves, Same, Started, Opened, Failed, Retried, Stopped,
       R!Step, R!Becomes, R!Start, R!Opens, R!Fails, R!Retries, R!Stops
<1>2. \A t \in Terminals : Does(t)' \in R!Phases BY DEF Does, R!Phases
<1>3. next \in [Terminals -> R!Phases] BY <1>2
<1> QED BY <1>1, <1>3 DEF R!Next

\* A terminal is a client of Reconnection, for any number of tabs, connections and attempts
\* (ws.ts:14-68, useTerminal.ts:182-210).
THEOREM Refinement == Spec => ImplementsReconnection
<1>1. Init => R!Init
  BY TerminalAssumption DEF Init, LinkInit, TabInit, R!Init, Doing, SocketsOf
<1>2. Init => LinkInv BY InitTabInv DEF LinkInv, Allowed, Init, TabInit
<1>3. LinkInv => \A t \in Terminals : Doing(t) = Does(t) BY DoingIs DEF LinkInv
<1>4. LinkInv' => (\A t \in Terminals : Doing(t) = Does(t))' BY <1>3, PTL
<1>5. LinkInv /\ LinkInv' /\ [Next]_vars => [R!Next]_<<[t \in Terminals |-> Doing(t)], attempts>>
  BY <1>3, <1>4, StepRefines
<1> QED BY <1>1, <1>2, <1>5, NextLinkInv, PTL DEF Spec, ImplementsReconnection, R!Spec
-----------------------------------------------------------------------------
(* What is left of a connection that ended: it is never stuck, and whatever *)
(* happens in it leaves less to do, until nothing is left.                  *)

\* A terminal's end that is not in use any more has closed the connection.
Hung == \A k \in Sockets : sock[k] \in {"idle", "refused", "closing"} => link[k] # "up"

EndInv == IInv /\ TabInv /\ Hung

LEMMA NextHung ==
  ASSUME EndInv, [Next]_vars
  PROVE  Hung'
<1> SUFFICES ASSUME NEW k \in Sockets, sock'[k] \in {"idle", "refused", "closing"}, link'[k] = "up"
             PROVE  FALSE
  BY DEF Hung
<1> USE DEF EndInv, IInv, TabInv, TabTypes
<1>1. CASE link[k] = "up"
  <2>1. sock[k] \notin {"idle", "refused", "closing"} BY <1>1 DEF Hung
  <2>2. sock'[k] # sock[k] BY <2>1
  <2>3. CASE TabNext
    <3>1. ASSUME NEW j \in Sockets, OnOpen(j) \/ OnClose(j) PROVE FALSE
      BY <1>1, <2>1, <2>2, <3>1 DEF OnOpen, OnClose, Ended
    <3>2. ASSUME NEW t \in Terminals, Connect(t) PROVE FALSE
      BY <1>1, <2>2, <3>2 DEF Connect, Unnamed
    <3>3. ASSUME NEW t \in Terminals, CloseSocket(t) PROVE FALSE
      <4>1. sock' = [sock EXCEPT ![ws[t]] = "closing"] /\ Closed(ws[t])
        BY <2>2, <3>3 DEF CloseSocket, linkVars
      <4>2. k = ws[t] BY <2>2, <4>1
      <4> QED BY <1>1, <4>1, <4>2 DEF Closed
    <3>4. ASSUME NEW t \in Terminals, Unmount(t) PROVE FALSE
      BY <2>2, <3>3, <3>4 DEF Unmount, Disconnect, linkVars
    <3> QED BY <2>2, <2>3, <3>1, <3>2, <3>4
         DEF TabNext, Mount, UrlArrives, UrlFails, OnTimer, Resize, linkVars
  <2>4. CASE BridgeNext
    BY <1>1, <2>2, <2>4 DEF BridgeNext, Answer, Accept, Refuse, RelayFails, Return, Released,
       LinkDrops, linkVars, Unused
  <2> QED BY <2>2, <2>3, <2>4 DEF Next, vars, linkVars
<1>2. CASE link[k] # "up"
  <2>1. ASSUME NEW j \in Sockets, Accept(j) PROVE FALSE
    BY <1>2, <2>1 DEF Accept
  <2>2. ASSUME TabNext PROVE FALSE
    <3>1. \A j : Closed(j) => link'[k] # "up" BY <1>2 DEF Closed
    <3> QED BY <1>2, <2>2, <3>1 DEF TabNext, Mount, UrlArrives, UrlFails, OnTimer, Resize, Unmount,
         Disconnect, CloseSocket, OnOpen, OnClose, linkVars
  <2>3. ASSUME NEW j \in Sockets, Refuse(j) \/ RelayFails(j) \/ Return(j) \/ Released(j) \/ LinkDrops(j)
        PROVE  FALSE
    BY <1>2, <2>3 DEF Refuse, RelayFails, Return, Released, LinkDrops, Closed
  <2> QED BY <1>2, <2>1, <2>2, <2>3 DEF Next, BridgeNext, Answer, vars, linkVars
<1> QED BY <1>1, <1>2

LEMMA EndInvariance == Spec => []EndInv
<1>1. Init => EndInv BY InitIInv, InitTabInv DEF EndInv, Hung, Init, LinkInit
<1>2. EndInv /\ [Next]_vars => EndInv' BY NextIInv, NextTabInv, NextHung DEF EndInv
<1> QED BY <1>1, <1>2, PTL DEF Spec

\* A connection that ended is never stuck: somebody can go on by himself.
LEMMA NeverStuck ==
  ASSUME EndInv, NEW k \in Sockets, link[k] = "down"
  PROVE  CanStep(k)
<1> DEFINE c == conn[k]
<1>1. c \in Conns /\ Good(c, "down") BY DEF EndInv, IInv
<1>2. c.proxy \in {"start", "relay", "done", "returned"} BY <1>1 DEF Good, Conns
<1>3. CASE c.proxy # "returned" BY <1>2, <1>3 DEF CanStep
<1>4. CASE c.proxy = "returned"
  <2>1. c.back \in {"none", "down"} BY <1>1, <1>4 DEF Good, Conns
  <2>2. CASE c.bridge \in {"start", "relay", "wait"}
    BY <1>1, <2>1, <2>2 DEF Good, NotStarted, CanStep
  <2>3. CASE c.bridge \in {"none", "returned"}
    BY <1>1, <1>4, <2>1, <2>3 DEF Good, NotStarted, CanStep, Quiet
  <2> QED BY <1>1, <2>2, <2>3 DEF Conns
<1> QED BY <1>3, <1>4

\* How many steps are left to a connection that ended, at most, for each of its parts.
ProxyLeft(p) == CASE p = "start" -> 11 [] p = "relay" -> 2 [] p = "done" -> 1 [] OTHER -> 0
BridgeLeft(b) == CASE b = "start" -> 7 [] b = "relay" -> 2 [] b = "wait" -> 1 [] OTHER -> 0
ShellLeft(h) == CASE h = "running" -> 2 [] h = "hup" -> 1 [] OTHER -> 0
WordLeft(w) ==
  CASE w = "unsaid" -> 4 [] w = "pty" -> 3 [] w = "wire" -> 2 [] w = "proxy" -> 1 [] OTHER -> 0
SockLeft(s) == CASE s = "connecting" -> 2 [] s = "idle" -> 0 [] OTHER -> 1
Running(b) == IF b THEN 1 ELSE 0

ConnLeft(c) ==
  ProxyLeft(c.proxy) + BridgeLeft(c.bridge) + ShellLeft(c.shell) + WordLeft(c.word)
    + Running(c.dn) + Running(c.rd) + Running(c.wr)

Left(k) == SockLeft(sock[k]) + ConnLeft(conn[k])

LEMMA LeftBounds == \A c, s : SockLeft(s) \in 0..2 /\ ConnLeft(c) \in 0..27
<1> SUFFICES ASSUME NEW c, NEW s PROVE SockLeft(s) \in 0..2 /\ ConnLeft(c) \in 0..27
  OBVIOUS
<1>1. ProxyLeft(c.proxy) \in 0..11 BY DEF ProxyLeft
<1>2. BridgeLeft(c.bridge) \in 0..7 BY DEF BridgeLeft
<1>3. ShellLeft(c.shell) \in 0..2 BY DEF ShellLeft
<1>4. WordLeft(c.word) \in 0..4 BY DEF WordLeft
<1>5. \A b : Running(b) \in 0..1 BY DEF Running
<1>6. SockLeft(s) \in 0..2 BY DEF SockLeft
<1> QED BY <1>1, <1>2, <1>3, <1>4, <1>5, <1>6 DEF ConnLeft

\* Each step of its goroutines and its shell leaves less to do.
LEMMA GoroutineLess ==
  ASSUME IInv, NEW k \in Sockets, link[k] = "down",
         Goroutines(k) \/ ShellSays(k) \/ ShellExits(k)
  PROVE  ConnLeft(conn'[k]) < ConnLeft(conn[k])
<1> DEFINE c == conn[k]
           d == conn'[k]
<1>0. c \in Conns /\ Good(c, "down") BY DEF IInv
<1> USE DEF ConnLeft, ProxyLeft, BridgeLeft, ShellLeft, WordLeft, Running, Conns, Words
<1>1. CASE RelayStarts(k) BY <1>0, <1>1 DEF RelayStarts, IInv, Good, NotStarted
<1>2. CASE ClientGone(k) BY <1>0, <1>2 DEF ClientGone, IInv
<1>4. CASE DnRead(k) BY <1>0, <1>4 DEF DnRead, IInv
<1>5. CASE DnWrite(k) BY <1>0, <1>5 DEF DnWrite, IInv
<1>6. CASE DnEnd(k) BY <1>0, <1>6 DEF DnEnd, IInv
<1>7. CASE StartFails(k) BY <1>0, <1>7 DEF StartFails, IInv
<1>8. CASE StartShell(k) BY <1>0, <1>8 DEF StartShell, IInv, Good, NotStarted
<1>9. CASE ShellSays(k) BY <1>0, <1>9 DEF ShellSays, IInv
<1>10. CASE ShellExits(k) BY <1>0, <1>10 DEF ShellExits, IInv
<1>11. CASE RdCopy(k) BY <1>0, <1>11 DEF RdCopy, IInv
<1>12. CASE RdEnd(k) BY <1>0, <1>12 DEF RdEnd, IInv
<1>13. CASE WrEnd(k) BY <1>0, <1>13 DEF WrEnd, IInv
<1>15. CASE Hangup(k) BY <1>0, <1>15 DEF Hangup, IInv
<1>16. CASE BridgeReturn(k) BY <1>0, <1>16 DEF BridgeReturn, IInv
<1> QED BY <1>1, <1>2, <1>4, <1>5, <1>6, <1>7, <1>8, <1>9, <1>10, <1>11, <1>12, <1>13, <1>15, <1>16
     DEF Goroutines

\* So do the events of the terminal's end, and the rest of the window does not touch it.
LEMMA TabLess ==
  ASSUME EndInv, NEW k \in Sockets, link[k] = "down", TabNext
  PROVE  /\ link'[k] = "down" /\ SockLeft(sock'[k]) <= SockLeft(sock[k])
         /\ OnOpen(k) \/ OnClose(k) => SockLeft(sock'[k]) < SockLeft(sock[k])
<1> USE DEF EndInv, IInv, TabInv, TabTypes, SockLeft
<1>1. ASSUME NEW j \in Sockets, OnOpen(j) \/ OnClose(j)
      PROVE  /\ link'[k] = "down" /\ SockLeft(sock'[k]) <= SockLeft(sock[k])
             /\ j = k => SockLeft(sock'[k]) < SockLeft(sock[k])
  <2>1. CASE OnOpen(j) BY <2>1 DEF OnOpen, SockStates
  <2>2. CASE OnClose(j) BY <2>2 DEF OnClose, Ended, SockStates
  <2> QED BY <1>1, <2>1, <2>2
<1>2. ASSUME NEW t \in Terminals,
             Mount(t) \/ UrlArrives(t) \/ UrlFails(t) \/ OnTimer(t) \/ Unmount(t) \/ Resize(t)
      PROVE  link'[k] = "down" /\ SockLeft(sock'[k]) <= SockLeft(sock[k])
  <2>1. CASE Connect(t) /\ link' = link BY <2>1 DEF Connect, Unnamed
  <2>2. CASE CloseSocket(t)
    <3>1. CASE UNCHANGED linkVars BY <3>1 DEF linkVars
    <3>2. CASE /\ sock[ws[t]] \in {"connecting", "open"} /\ Closed(ws[t])
               /\ sock' = [sock EXCEPT ![ws[t]] = "closing"]
      BY <3>2 DEF Closed
    <3> QED BY <2>2, <3>1, <3>2 DEF CloseSocket
  <2>3. CASE UNCHANGED linkVars BY <2>3 DEF linkVars
  <2> QED BY <1>2, <2>1, <2>2, <2>3 DEF Mount, UrlArrives, UrlFails, OnTimer, Unmount, Resize, Disconnect
<1>3. OnOpen(k) \/ OnClose(k) => SockLeft(sock'[k]) < SockLeft(sock[k]) BY <1>1
<1> QED BY <1>1, <1>2, <1>3 DEF TabNext

\* The server's side of other connections does not touch it either.
LEMMA OthersApart ==
  ASSUME EndInv, NEW k \in Sockets, NEW j \in Sockets \ {k},
         \/ Answer(j) \/ RelayFails(j) \/ Return(j) \/ Released(j) \/ LinkDrops(j)
         \/ (Goroutines(j) \/ Elsewhere(j)) /\ UNCHANGED linkVars
  PROVE  sock'[k] = sock[k] /\ link'[k] = link[k] /\ conn'[k] = conn[k]
<1> USE DEF EndInv, IInv, TabInv, TabTypes
<1>1. CASE Goroutines(j) /\ UNCHANGED linkVars
  BY <1>1 DEF Goroutines, RelayStarts, ClientGone, DnRead, DnWrite, DnEnd, StartFails, StartShell,
     Hangup, BridgeReturn, RdCopy, RdEnd, WrEnd, linkVars
<1>2. CASE Elsewhere(j) /\ UNCHANGED linkVars
  BY <1>2 DEF Elsewhere, KeyFails, KeyAfterExit, ShellSays, ShellExits, BackDrops, linkVars
<1>3. CASE Answer(j) \/ RelayFails(j) \/ Return(j) \/ Released(j) \/ LinkDrops(j)
  BY <1>3 DEF Answer, Accept, Refuse, RelayFails, Return, Released, LinkDrops, Closed
<1> QED BY <1>1, <1>2, <1>3

\* Its own server's side leaves less to do, except when the network drops a part of it
\* that was about to be closed.
LEMMA BridgeLess ==
  ASSUME EndInv, NEW k \in Sockets, link[k] = "down",
         \/ Answer(k) \/ RelayFails(k) \/ Return(k) \/ Released(k) \/ LinkDrops(k)
         \/ (Goroutines(k) \/ Elsewhere(k)) /\ UNCHANGED linkVars
  PROVE  \/ conn'[k] = Unused
         \/ /\ link'[k] = "down" /\ Left(k)' <= Left(k)
            /\ BridgeProgress(k) => Left(k)' < Left(k)
<1> USE DEF EndInv
<1>a. /\ SockLeft(sock[k]) \in Nat /\ ConnLeft(conn[k]) \in Nat
      /\ ConnLeft(conn'[k]) \in Nat
  BY LeftBounds
<1>1. CASE Released(k) BY <1>1 DEF Released, IInv
<1>2. CASE RelayFails(k) \/ Return(k)
  <2>1. link'[k] = "down" /\ sock' = sock BY <1>2 DEF RelayFails, Return, Closed, IInv
  <2>2. ConnLeft(conn'[k]) < ConnLeft(conn[k])
    BY <1>2 DEF RelayFails, Return, IInv, Conns, ConnLeft, ProxyLeft, BridgeLeft, ShellLeft,
       WordLeft, Running
  <2> QED BY <1>a, <2>1, <2>2 DEF Left
<1>3. CASE (Goroutines(k) \/ ShellSays(k) \/ ShellExits(k)) /\ UNCHANGED linkVars
  <2>1. ConnLeft(conn'[k]) < ConnLeft(conn[k]) BY <1>3, GoroutineLess
  <2> QED BY <1>a, <1>3, <2>1 DEF Left, linkVars
<1>4. CASE BackDrops(k) /\ UNCHANGED linkVars
  <2>1. ConnLeft(conn'[k]) = ConnLeft(conn[k]) BY <1>4 DEF BackDrops, IInv, Conns, ConnLeft
  <2>2. BridgeProgress(k) => Released(k) \/ RelayFails(k) \/ Return(k) \/ Goroutines(k) \/ ShellExits(k)
    BY DEF BridgeProgress, Answer, Accept, Refuse
  <2> QED BY <1>a, <1>1, <1>2, <1>3, <1>4, <2>1, <2>2 DEF Left, linkVars
<1> QED BY <1>1, <1>2, <1>3, <1>4
     DEF Answer, Accept, Refuse, LinkDrops, Elsewhere, KeyFails, KeyAfterExit

\* A step leaves a connection that ended with no more to do, and a step of its own with less.
LEMMA StepLess ==
  ASSUME EndInv, NEW k \in Sockets, link[k] = "down", [Next]_vars
  PROVE  conn'[k] = Unused \/ (link'[k] = "down" /\ Left(k)' <= Left(k))
<1>a. SockLeft(sock[k]) \in Nat /\ ConnLeft(conn[k]) \in Nat /\ SockLeft(sock'[k]) \in Nat
  BY LeftBounds
<1>1. CASE TabNext /\ UNCHANGED conn BY <1>a, <1>1, TabLess DEF Left
<1>2. ASSUME NEW j \in Sockets,
             \/ Answer(j) \/ RelayFails(j) \/ Return(j) \/ Released(j) \/ LinkDrops(j)
             \/ (Goroutines(j) \/ Elsewhere(j)) /\ UNCHANGED linkVars
      PROVE  conn'[k] = Unused \/ (link'[k] = "down" /\ Left(k)' <= Left(k))
  <2>1. CASE j = k BY <1>2, <2>1, BridgeLess
  <2>2. CASE j # k BY <1>a, <1>2, <2>2, OthersApart DEF Left
  <2> QED BY <2>1, <2>2
<1>3. CASE UNCHANGED vars BY <1>a, <1>3 DEF vars, linkVars, Left
<1> QED BY <1>1, <1>2, <1>3 DEF Next, BridgeNext

LEMMA ProgressLess ==
  ASSUME EndInv, NEW k \in Sockets, link[k] = "down", Progress(k)
  PROVE  conn'[k] = Unused \/ (link'[k] = "down" /\ Left(k)' < Left(k))
<1>a. SockLeft(sock[k]) \in Nat /\ ConnLeft(conn[k]) \in Nat /\ SockLeft(sock'[k]) \in Nat
  BY LeftBounds
<1>1. CASE (OnOpen(k) \/ OnClose(k)) /\ UNCHANGED conn
  <2>1. TabNext BY <1>1 DEF TabNext
  <2> QED BY <1>a, <1>1, <2>1, TabLess DEF Left
<1>2. CASE BridgeProgress(k)
  <2>1. ShellExits(k) => Elsewhere(k) BY DEF Elsewhere
  <2> QED BY <1>2, <2>1, BridgeLess DEF BridgeProgress
<1> QED BY <1>1, <1>2 DEF Progress

\* A connection that ended with at most n steps left comes to nothing.
Within(k, n) == link[k] = "down" /\ Left(k) < n
Drains(k, n) == Spec /\ Possibly /\ Served(k) => (Within(k, n) ~> conn[k] = Unused)

LEMMA OneMore ==
  ASSUME NEW k \in Sockets, NEW n \in Nat
  PROVE  Drains(k, n) => Drains(k, n + 1)
<1>a. Left(k) \in Nat /\ Left(k)' \in Nat
  <2>1. \A c, s : SockLeft(s) + ConnLeft(c) \in Nat BY LeftBounds
  <2> QED BY <2>1 DEF Left
<1>1. EndInv /\ Within(k, n + 1) /\ [Next]_vars => Within(k, n + 1)' \/ (conn[k] = Unused)'
  BY <1>a, StepLess DEF Within
<1>2. EndInv /\ Within(k, n + 1) /\ <<Progress(k)>>_vars => Within(k, n)' \/ (conn[k] = Unused)'
  BY <1>a, ProgressLess DEF Within
<1>3. EndInv /\ Within(k, n + 1) => CanStep(k) BY NeverStuck DEF Within
<1>4. Possible /\ CanStep(k) => ENABLED <<Progress(k)>>_vars BY DEF Possible
<1> QED BY <1>1, <1>2, <1>3, <1>4, EndInvariance, PTL DEF Drains, Spec, Served, Possibly

LEMMA GoneEnds ==
  ASSUME NEW k \in Sockets, EndInv, Gone(k)
  PROVE  Within(k, 30) \/ conn[k] = Unused
<1>1. link[k] # "up"
  <2>1. ASSUME NEW t \in Terminals \ mounted, owner[k] = t, stage[t] = "made"
        PROVE  sock[k] \in {"idle", "refused", "closing"}
    <3>1. Out(t) BY <2>1 DEF EndInv, TabInv, Active
    <3> QED BY <2>1, <3>1 DEF Out, Mine
  <2> QED BY <2>1 DEF Gone, EndInv, Hung
<1>2. CASE link[k] = "none" BY <1>2 DEF EndInv, IInv
<1>3. CASE link[k] = "down"
  <2>1. Left(k) < 30
    <3>1. \A c, s : SockLeft(s) + ConnLeft(c) < 30 BY LeftBounds
    <3> QED BY <3>1 DEF Left
  <2> QED BY <1>3, <2>1 DEF Within
<1> QED BY <1>1, <1>2, <1>3 DEF EndInv, IInv, LinkStates

\* Who is gone leaves neither a shell nor a goroutine behind, for any number of terminals and
\* connections (useTerminal.ts:182-210, websocket.go:134-165, main.go:79-140).
THEOREM NothingLeftBehindHolds == FairSpec /\ Possibly => NothingLeftBehind
<1>1. ASSUME NEW k \in Sockets PROVE Spec /\ Possibly /\ Served(k) => Freed(k)
  <2>1. Drains(k, 0)
    <3>1. ~Within(k, 0)
      <4>1. \A c, s : ~(SockLeft(s) + ConnLeft(c) < 0) BY LeftBounds
      <4> QED BY <4>1 DEF Within, Left
    <3> QED BY <3>1, PTL DEF Drains
  <2>2. \A n \in 0..29 : Drains(k, n) => Drains(k, n + 1) BY OneMore
  <2>3. Drains(k, 30) BY <2>1, <2>2
  <2>4. EndInv /\ Gone(k) => Within(k, 30) \/ conn[k] = Unused BY GoneEnds
  <2> QED BY <2>3, <2>4, EndInvariance, PTL DEF Drains, Freed, Spec
<1> QED BY <1>1 DEF FairSpec, Fairness, NothingLeftBehind
=============================================================================
