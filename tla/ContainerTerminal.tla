------------------------- MODULE ContainerTerminal --------------------------
(***************************************************************************)
(* Terminals in tabs, the server's proxy and the container's PTY bridge,   *)
(* composed over the WebSockets between them.                              *)
(***************************************************************************)
EXTENDS TerminalSocket, PtyBridge

vars == <<linkVars, tabVars, conn>>

Init == LinkInit /\ TabInit /\ BridgeInit

Next == \/ TabNext /\ UNCHANGED conn
        \/ BridgeNext /\ UNCHANGED tabVars

Spec == Init /\ [][Next]_vars

\* What happens to a connection without the user and the network: events are delivered,
\* the server answers, goroutines run, and a shell that is sent SIGHUP exits.
Progress(k) ==
  \/ (OnOpen(k) \/ OnClose(k)) /\ UNCHANGED conn
  \/ BridgeProgress(k) /\ UNCHANGED tabVars

Served(k) == WF_vars(Progress(k))
Attended(t) == WF_vars((UrlArrives(t) \/ UrlFails(t) \/ OnTimer(t)) /\ UNCHANGED conn)

\* Nothing is assumed of the user, of the network or of what a shell does by itself, and of
\* the goroutines of one connection only that they do not all stand still.
Fairness == (\A k \in Sockets : Served(k)) /\ (\A t \in Terminals : Attended(t))

FairSpec == Spec /\ Fairness

-----------------------------------------------------------------------------
(* Properties.                                                             *)

\* Whose tab closed, or whose connection ended at whichever side.
Gone(k) ==
  \/ link[k] = "down"
  \/ \E t \in Terminals \ mounted : owner[k] = t /\ stage[t] = "made"

\* Who is gone leaves neither a shell nor a goroutine behind: the window's close event, the
\* proxy's two connections, the bridge's and SIGHUP each pass it on (useTerminal.ts:182-210,
\* websocket.go:134-165, main.go:79-140).
Freed(k) == Gone(k) ~> conn[k] = Unused
NothingLeftBehind == \A k \in Sockets : Freed(k)

\* What is still at work for a connection that ended, and can go on by itself: the window
\* hears of the end, the proxy's handler goes on to its return, the bridge's handler does,
\* each goroutine finds its connection or its shell gone, and the last one leaves.
CanStep(k) ==
  LET c == conn[k] IN
  /\ link[k] = "down"
  /\ \/ sock[k] # "idle"
     \/ c.proxy \in {"start", "relay", "done"}
     \/ c.bridge = "start" \/ (c.bridge = "wait" /\ c.shell \in {"hup", "exited"})
     \/ c.dn /\ (c.word \in {"wire", "proxy"} \/ c.back = "down")
     \/ c.rd /\ c.bridge = "returned"
     \/ c.wr /\ c.back = "down"
     \/ c.bridge = "relay" /\ ~c.wr
     \/ Quiet(k)

\* CanStep is what the guards of Progress come to.
Possible == \A k \in Sockets : CanStep(k) => ENABLED <<Progress(k)>>_vars
Possibly == []Possible
=============================================================================
