----------------------------- MODULE PtyBridge ------------------------------
(***************************************************************************)
(* What the server does with a container session's terminal connection:   *)
(* relayViaContainer of server/internal/proxy/websocket.go with its two    *)
(* goroutines, and handleWS of container/pty-bridge/main.go with the two   *)
(* of its own and the shell it starts.                                     *)
(*                                                                         *)
(* All of it belongs to one connection of a terminal, so conn is a record  *)
(* per socket.  Of the shell's output one message, its last, is followed   *)
(* from the PTY to the terminal: the messages keep their order on the way. *)
(***************************************************************************)
EXTENDS Naturals, FiniteSets, TerminalLink

CONSTANT MaxServed   \* bound: connections the server works on at once

VARIABLE
  conn  \* proxy: the handler ("done": its channel is closed), dn: is the goroutine Backend ->
        \* Client running, back: the connection to the bridge, bridge: its handler ("wait":
        \* for the shell), rd and wr: are its goroutines PTY -> WebSocket and back running,
        \* shell, word: where its last message is, cut: did a key typed after its end or the
        \* network between server and bridge get in the way of it?

Unused ==
  [proxy |-> "none", dn |-> FALSE, back |-> "none", bridge |-> "none", rd |-> FALSE,
   wr |-> FALSE, shell |-> "none", word |-> "unsaid", cut |-> FALSE]

BridgeInit == conn = [k \in Sockets |-> Unused]

\* Every goroutine of the connection has ended, and its shell has.
Quiet(k) ==
  /\ conn[k].proxy \in {"none", "returned"} /\ conn[k].bridge \in {"none", "returned"}
  /\ ~conn[k].dn /\ ~conn[k].rd /\ ~conn[k].wr

-----------------------------------------------------------------------------
(* The server's handler, and its goroutine for the bridge's messages.      *)

\* UpgradeMiddleware lets the handshake pass.
Accept(k) ==
  /\ sock[k] = "connecting" /\ link[k] = "none"
  /\ Cardinality({j \in Sockets : ~Quiet(j)}) < MaxServed
  /\ link' = [link EXCEPT ![k] = "up"]
  /\ conn' = [conn EXCEPT ![k].proxy = "start"]
  /\ UNCHANGED sock

\* It does not, or there is no server to ask.
Refuse(k) ==
  /\ sock[k] = "connecting" /\ link[k] = "none"
  /\ sock' = [sock EXCEPT ![k] = "refused"]
  /\ UNCHANGED <<link, conn>>

\* No such session, it is not running, or its bridge does not answer.
RelayFails(k) ==
  /\ conn[k].proxy = "start"
  /\ conn' = [conn EXCEPT ![k].proxy = "returned"]
  /\ Closed(k) /\ UNCHANGED sock

RelayStarts(k) ==
  /\ conn[k].proxy = "start"
  /\ conn' = [conn EXCEPT ![k].proxy = "relay", ![k].dn = TRUE,
                          ![k].back = "up", ![k].bridge = "start"]

\* The goroutine Client -> Backend ends with its terminal ...
ClientGone(k) ==
  /\ conn[k].proxy = "relay" /\ link[k] = "down"
  /\ conn' = [conn EXCEPT ![k].proxy = "done"]

\* ... or with the first key it cannot pass on.
KeyFails(k) ==
  /\ conn[k].proxy = "relay" /\ link[k] = "up" /\ sock[k] = "open" /\ conn[k].back = "down"
  /\ conn' = [conn EXCEPT ![k].proxy = "done"]

\* Mutant: the connection to the bridge stays open.
ReturnLeavesBackend(k) ==
  /\ conn[k].proxy = "done"
  /\ conn' = [conn EXCEPT ![k].proxy = "returned"]
  /\ Closed(k) /\ UNCHANGED sock

\* The handler returns, and both connections are closed.
Return(k) ==
  /\ conn[k].proxy = "done"
  /\ conn' = [conn EXCEPT ![k].proxy = "returned", ![k].back = "down"]
  /\ Closed(k) /\ UNCHANGED sock

DnRead(k) ==
  /\ conn[k].dn /\ conn[k].word = "wire"
  /\ conn' = [conn EXCEPT ![k].word = "proxy"]

DnWrite(k) ==
  /\ conn[k].dn /\ conn[k].word = "proxy"
  /\ conn' = [conn EXCEPT ![k].word = IF link[k] = "up" THEN "shown" ELSE "lost",
                          ![k].dn = link[k] = "up"]

\* The bridge's connection has ended.  What was sent before is read first, unless this side
\* closed it or the other one did with a key unread.
DnEnd(k) ==
  /\ conn[k].dn /\ conn[k].back = "down" /\ conn[k].word # "proxy"
  /\ conn[k].word = "wire" => conn[k].proxy = "returned" \/ conn[k].cut
  /\ conn' = [conn EXCEPT ![k].dn = FALSE, ![k].word = IF @ = "wire" THEN "lost" ELSE @]

-----------------------------------------------------------------------------
(* The bridge's handler, its goroutines and its shell.                     *)

StartFails(k) ==
  /\ conn[k].bridge = "start"
  /\ conn' = [conn EXCEPT ![k].bridge = "returned", ![k].back = "down"]

StartShell(k) ==
  /\ conn[k].bridge = "start"
  /\ conn' = [conn EXCEPT ![k].bridge = "relay", ![k].rd = TRUE, ![k].wr = TRUE,
                          ![k].shell = "running"]

ShellSays(k) ==
  /\ conn[k].shell \in {"running", "hup"} /\ conn[k].word = "unsaid"
  /\ conn' = [conn EXCEPT ![k].word = "pty"]

ShellExits(k) ==
  /\ conn[k].shell \in {"running", "hup"}
  /\ conn' = [conn EXCEPT ![k].shell = "exited"]

\* PTY -> WebSocket: read and write.
RdCopy(k) ==
  /\ conn[k].rd /\ conn[k].word = "pty" /\ conn[k].bridge # "returned"
  /\ conn' = [conn EXCEPT ![k].word = IF conn[k].back = "up" THEN "wire" ELSE "lost",
                          ![k].rd = conn[k].back = "up"]

\* Mutant: the shell's end is noticed before its output is read.
RdEndEarly(k) ==
  /\ conn[k].rd /\ (conn[k].shell = "exited" \/ conn[k].bridge = "returned")
  /\ conn' = [conn EXCEPT ![k].rd = FALSE, ![k].word = IF @ = "pty" THEN "lost" ELSE @]

\* The PTY reports the shell's end once it is empty, or it is closed.
RdEnd(k) ==
  /\ conn[k].rd
  /\ (conn[k].shell = "exited" /\ conn[k].word # "pty") \/ conn[k].bridge = "returned"
  /\ conn' = [conn EXCEPT ![k].rd = FALSE, ![k].word = IF @ = "pty" THEN "lost" ELSE @]

\* WebSocket -> PTY ends with the connection ...
WrEnd(k) ==
  /\ conn[k].wr /\ conn[k].back = "down"
  /\ conn' = [conn EXCEPT ![k].wr = FALSE]

\* ... or with a key for a shell that has exited.
KeyAfterExit(k) ==
  /\ conn[k].wr /\ conn[k].shell = "exited" /\ conn[k].back = "up"
  /\ conn[k].proxy = "relay" /\ link[k] = "up" /\ sock[k] = "open"
  /\ conn' = [conn EXCEPT ![k].wr = FALSE, ![k].cut = TRUE]

\* done is closed: the shell is sent SIGHUP and waited for.
Hangup(k) ==
  /\ conn[k].bridge = "relay" /\ ~(conn[k].rd /\ conn[k].wr)
  /\ conn' = [conn EXCEPT ![k].bridge = "wait", ![k].shell = IF @ = "running" THEN "hup" ELSE @]

BridgeReturn(k) ==
  /\ conn[k].bridge = "wait" /\ conn[k].shell = "exited"
  /\ conn' = [conn EXCEPT ![k].bridge = "returned", ![k].back = "down"]

-----------------------------------------------------------------------------
(* The network between terminal and server, and between server and bridge. *)

LinkDrops(k) ==
  /\ link[k] = "up" /\ Closed(k)
  /\ UNCHANGED <<sock, conn>>

BackDrops(k) ==
  /\ conn[k].back = "up"
  /\ conn' = [conn EXCEPT ![k].back = "down", ![k].cut = TRUE]

\* Nothing of the connection is left, and the terminal knows.
Released(k) ==
  /\ link[k] = "down" /\ sock[k] = "idle" /\ Quiet(k)
  /\ link' = [link EXCEPT ![k] = "none"]
  /\ conn' = [conn EXCEPT ![k] = Unused]
  /\ UNCHANGED sock

-----------------------------------------------------------------------------
Answer(k) == Accept(k) \/ Refuse(k)

\* Steps that leave the terminal's connection as it is: of the goroutines, and of the rest.
Goroutines(k) ==
  \/ RelayStarts(k) \/ ClientGone(k) \/ DnRead(k) \/ DnWrite(k) \/ DnEnd(k)
  \/ StartFails(k) \/ StartShell(k) \/ Hangup(k) \/ BridgeReturn(k)
  \/ RdCopy(k) \/ RdEnd(k) \/ WrEnd(k)
Elsewhere(k) == KeyFails(k) \/ KeyAfterExit(k) \/ ShellSays(k) \/ ShellExits(k) \/ BackDrops(k)

\* What must happen, for a connection that is left alone.
BridgeProgress(k) ==
  \/ Answer(k) \/ RelayFails(k) \/ Return(k) \/ Released(k)
  \/ (Goroutines(k) \/ (conn[k].shell = "hup" /\ ShellExits(k))) /\ UNCHANGED linkVars

BridgeNext ==
  \E k \in Sockets :
    \/ Answer(k) \/ RelayFails(k) \/ Return(k) \/ Released(k) \/ LinkDrops(k)
    \/ (Goroutines(k) \/ Elsewhere(k)) /\ UNCHANGED linkVars

-----------------------------------------------------------------------------
(* Properties.                                                             *)

\* When nothing more will reach a connected terminal, the last the shell said has: nothing
\* of it is left in the PTY or on the way, unless a key typed after the shell's end closed
\* the bridge first or the network failed (main.go:83-95, 134-140, websocket.go:154-162).
LastWords ==
  \A k \in Sockets :
    link[k] = "up" /\ conn[k].back # "none" /\ ~conn[k].dn /\ ~conn[k].cut
      => conn[k].word \in {"unsaid", "shown"}

\* A goroutine of a handler that has returned has nothing left to write to the connection
\* that was released with it.  The code does not keep it, see container_late_write.cfg.
NoWriteAfterReturn == \A k \in Sockets : conn[k].word = "proxy" => conn[k].proxy # "returned"

\* A terminal is not left connected to a shell that has ended.  The code does not keep it
\* (websocket.go:165 waits for the terminal alone), see container_silent_end.cfg.
EndIsTold == \A k \in Sockets : (sock[k] = "open" /\ conn[k].shell = "exited") ~> sock[k] # "open"
=============================================================================
