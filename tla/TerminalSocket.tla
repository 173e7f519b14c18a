--------------------------- MODULE TerminalSocket ---------------------------
(***************************************************************************)
(* The terminals of sessions that run elsewhere, in the window's tabs:     *)
(* TerminalWebSocket of client/src/renderer/services/ws.ts and the remote  *)
(* branch of client/src/renderer/hooks/useTerminal.ts, which creates one   *)
(* when the URL has arrived and disconnects it when the tab closes.        *)
(*                                                                         *)
(* A step is one callback of the window.  A terminal stands for one mount  *)
(* of a tab with its TerminalWebSocket; a tab that is opened again gets    *)
(* the next one.  The length of the waits is left out.                     *)
(***************************************************************************)
EXTENDS Naturals, FiniteSets, TerminalLink

CONSTANTS
  Terminals,              \* bound: how many tabs are opened
  None,
  MaxReconnectAttempts    \* what a TerminalWebSocket starts with

ASSUME TerminalAssumption ==
  /\ None \notin Terminals \cup Sockets /\ MaxReconnectAttempts \in Nat

VARIABLES
  mounted,       \* the terminals whose tab is open
  stage,         \* of a terminal: is its URL asked for, did it arrive (late: after the tab closed)?
  ws, attempts, maxAttempts, timer,   \* the fields of its TerminalWebSocket
  lost,          \* terminals that said "Connection lost."
  owner,         \* whose callbacks a socket calls
  sized          \* open sockets over which the server was told the size the terminal has

mountVars == <<mounted, stage>>
retryVars == <<attempts, timer, lost>>
socketVars == <<ws, owner, sized>>
tabVars == <<mountVars, retryVars, socketVars, maxAttempts>>

TabInit ==
  /\ mounted = {} /\ stage = [t \in Terminals |-> "unused"]
  /\ ws = [t \in Terminals |-> None] /\ owner = [k \in Sockets |-> None]
  /\ attempts = [t \in Terminals |-> 0]
  /\ maxAttempts = [t \in Terminals |-> MaxReconnectAttempts]
  /\ timer = [t \in Terminals |-> FALSE]
  /\ lost = {} /\ sized = {}

-----------------------------------------------------------------------------
(* TerminalWebSocket.                                                      *)

\* connect(): a new WebSocket, known as this.ws.  Which name it gets makes no difference.
Unnamed == {k \in Sockets : sock[k] = "idle" /\ link[k] = "none"}
Connect(t) ==
  LET k == CHOOSE k \in Unnamed : TRUE IN
    /\ Unnamed # {}
    /\ sock' = [sock EXCEPT ![k] = "connecting"]
    /\ owner' = [owner EXCEPT ![k] = t]
    /\ ws' = [ws EXCEPT ![t] = k]

\* Mutant: the size is told once, when the terminal connects first.
OnOpenOnce(k) ==
  /\ sock[k] = "connecting" /\ link[k] # "none"
  /\ sock' = [sock EXCEPT ![k] = "open"]
  /\ sized' = IF attempts[owner[k]] = 0 THEN sized \cup {k} ELSE sized
  /\ attempts' = [attempts EXCEPT ![owner[k]] = 0]
  /\ UNCHANGED <<link, mountVars, ws, owner, maxAttempts, timer, lost>>

\* onopen, and the size by way of onOpen and send.
OnOpen(k) ==
  /\ sock[k] = "connecting" /\ link[k] # "none"
  /\ sock' = [sock EXCEPT ![k] = "open"]
  /\ sized' = sized \cup {k}
  /\ attempts' = [attempts EXCEPT ![owner[k]] = 0]
  /\ UNCHANGED <<link, mountVars, ws, owner, maxAttempts, timer, lost>>

TryReconnect(t) ==
  IF attempts[t] >= maxAttempts[t]
  THEN lost' = lost \cup {t} /\ UNCHANGED <<attempts, timer>>
  ELSE /\ attempts' = [attempts EXCEPT ![t] = @ + 1]
       /\ timer' = [timer EXCEPT ![t] = TRUE]
       /\ UNCHANGED lost

\* The socket's last event is on its way.
Ended(k) == sock[k] \in {"refused", "closing"} \/ (sock[k] # "idle" /\ link[k] = "down")

\* Mutant: only a connection that was established is tried again.
OnCloseEstablished(k) ==
  /\ Ended(k)
  /\ sock' = [sock EXCEPT ![k] = "idle"]
  /\ IF sock[k] = "refused" THEN UNCHANGED retryVars ELSE TryReconnect(owner[k])
  /\ sized' = sized \ {k}
  /\ UNCHANGED <<link, mountVars, ws, owner, maxAttempts>>

\* onclose.  An onerror before it closes a socket that is closed.
OnClose(k) ==
  /\ Ended(k)
  /\ sock' = [sock EXCEPT ![k] = "idle"]
  /\ TryReconnect(owner[k])
  /\ sized' = sized \ {k}
  /\ UNCHANGED <<link, mountVars, ws, owner, maxAttempts>>

OnTimer(t) ==
  /\ timer[t] /\ timer' = [timer EXCEPT ![t] = FALSE]
  /\ Connect(t)
  /\ UNCHANGED <<link, mountVars, attempts, maxAttempts, lost, sized>>

\* this.ws?.close() closes this.ws, and the other end sees the connection close.
CloseSocket(t) ==
  IF ws[t] # None /\ owner[ws[t]] = t /\ sock[ws[t]] \in {"connecting", "open"}
  THEN sock' = [sock EXCEPT ![ws[t]] = "closing"] /\ Closed(ws[t])
  ELSE UNCHANGED linkVars

\* Mutant: the close event of the socket starts another attempt.
DisconnectKeepsMax(t) ==
  /\ CloseSocket(t)
  /\ timer' = [timer EXCEPT ![t] = FALSE]
  /\ ws' = [ws EXCEPT ![t] = None]
  /\ UNCHANGED maxAttempts

Disconnect(t) ==
  /\ CloseSocket(t)
  /\ timer' = [timer EXCEPT ![t] = FALSE]
  /\ maxAttempts' = [maxAttempts EXCEPT ![t] = 0]
  /\ ws' = [ws EXCEPT ![t] = None]

-----------------------------------------------------------------------------
(* useTerminal, the remote branch.                                         *)

\* A tab opens and asks for its URL.
Mount(t) ==
  /\ stage[t] = "unused" /\ stage' = [stage EXCEPT ![t] = "asking"]
  /\ mounted' = mounted \cup {t}
  /\ UNCHANGED <<linkVars, retryVars, socketVars, maxAttempts>>

\* The URL arrives, whether or not the tab is still there.
UrlArrives(t) ==
  /\ stage[t] = "asking"
  /\ stage' = [stage EXCEPT ![t] = IF t \in mounted THEN "made" ELSE "late"]
  /\ Connect(t)
  /\ UNCHANGED <<link, mounted, retryVars, maxAttempts, sized>>

\* The list could not be fetched: the promise is rejected and nobody handles it.
UrlFails(t) ==
  /\ stage[t] = "asking" /\ stage' = [stage EXCEPT ![t] = "failed"]
  /\ UNCHANGED <<linkVars, mounted, retryVars, socketVars, maxAttempts>>

\* The tab closes; wsRef is set if the URL has arrived.
Unmount(t) ==
  /\ t \in mounted /\ mounted' = mounted \ {t}
  /\ IF stage[t] = "made" THEN Disconnect(t) ELSE UNCHANGED <<linkVars, ws, maxAttempts, timer>>
  /\ UNCHANGED <<stage, attempts, lost, owner, sized>>

\* The terminal takes another size; the observer tells it if the socket is open.
Resize(t) ==
  /\ t \in mounted
  /\ sized' = {k \in sized : owner[k] # t}
              \cup {k \in Sockets : k = ws[t] /\ owner[k] = t /\ sock[k] = "open"}
  /\ UNCHANGED <<linkVars, mountVars, retryVars, ws, owner, maxAttempts>>

-----------------------------------------------------------------------------
TabNext ==
  \/ \E t \in Terminals : Mount(t) \/ UrlArrives(t) \/ UrlFails(t) \/ OnTimer(t)
                          \/ Unmount(t) \/ Resize(t)
  \/ \E k \in Sockets : OnOpen(k) \/ OnClose(k)

-----------------------------------------------------------------------------
(* Properties.                                                             *)

\* Sockets whose callbacks are a terminal's and have not all come.
SocketsOf(t) == {k \in Sockets : owner[k] = t /\ sock[k] # "idle"}

\* A terminal that nobody disconnected has one socket, or one retry that is due, or has
\* said that the connection is lost: it is never silent and never connected twice.  One that
\* was disconnected connects no more: no callback that was on its way brings it back
\* (ws.ts:14-34, 46-67, useTerminal.ts:182-210).
OneAttempt ==
  \A t \in Terminals :
    /\ stage[t] = "late" \/ (stage[t] = "made" /\ t \in mounted) =>
         Cardinality(SocketsOf(t)) + (IF timer[t] THEN 1 ELSE 0) + (IF t \in lost THEN 1 ELSE 0) = 1
    /\ stage[t] = "made" /\ t \notin mounted =>
         ~timer[t] /\ \A k \in SocketsOf(t) : sock[k] \notin {"connecting", "open"}

\* What a terminal is doing, as its sockets, its timer and its tab have it; whatever it
\* should not be doing is "astray".
Doing(t) ==
  LET asked == stage[t] \in {"unused", "asking", "failed"}
      active == stage[t] = "late" \/ (stage[t] = "made" /\ t \in mounted)
      alone(states) ==
        ~timer[t] /\ t \notin lost /\ \E k \in Sockets : SocketsOf(t) = {k} /\ sock[k] \in states
      none == SocketsOf(t) = {}
      silent == ~timer[t] /\ \A k \in SocketsOf(t) : sock[k] \notin {"connecting", "open"}
  IN CASE asked /\ none /\ ~timer[t] -> "new"
       [] active /\ alone({"connecting", "refused"}) -> "trying"
       [] active /\ alone({"open"}) -> "open"
       [] active /\ none /\ timer[t] /\ t \notin lost -> "waiting"
       [] active /\ none /\ ~timer[t] /\ t \in lost -> "lost"
       [] ~asked /\ ~active /\ silent -> "stopped"
       [] OTHER -> "astray"

R == INSTANCE Reconnection WITH
       Clients <- Terminals, MaxTries <- MaxReconnectAttempts,
       phase <- [t \in Terminals |-> Doing(t)], tries <- attempts

\* Every terminal that has its URL goes on trying until its attempts are used up or its tab
\* closes, and does nothing from then on (ws.ts:14-68, useTerminal.ts:182-210).
ImplementsReconnection == R!Spec

\* Through resizes before, during and after every reconnection, the server has been told
\* the size of the terminal it is connected to (ws.ts:18-21, useTerminal.ts:159-179).
SizeIsCurrent == \A k \in Sockets : sock[k] = "open" /\ owner[k] \in mounted => k \in sized

\* A terminal with a URL gets connected or says that it is not, while its tab is open
\* (ws.ts:46-58).
TerminalSettles ==
  \A t \in Terminals : (stage[t] = "made" /\ t \in mounted) ~>
    (t \notin mounted \/ t \in lost \/ \E k \in SocketsOf(t) : sock[k] = "open")

\* useTerminal.ts:195 "Clean up on sessionId change or final unmount": a closed tab has
\* no connection.  The code does not keep it, see container_late_url.cfg.
UnmountCleansUp ==
  \A t \in Terminals \ mounted : \A k \in SocketsOf(t) : sock[k] \notin {"connecting", "open"}
=============================================================================
