---------------------------- MODULE TerminalLink ----------------------------
(***************************************************************************)
(* The WebSockets between terminals and the server's terminal proxy, as    *)
(* their two ends see them.  The modules of either end extend this one.    *)
(***************************************************************************)
CONSTANT Sockets   \* each used again once both ends are done with it

VARIABLES
  sock,   \* the terminal's end: what its next event will tell of, see below
  link    \* the connection: not accepted yet, up, or closed by an end or the network

linkVars == <<sock, link>>

\* "refused": the handshake failed, "closing": close() was called; onclose will come.
SockStates == {"idle", "connecting", "open", "refused", "closing"}
LinkStates == {"none", "up", "down"}

LinkInit == sock = [k \in Sockets |-> "idle"] /\ link = [k \in Sockets |-> "none"]

\* A connection that is up ends for both sides.
Closed(k) == link' = [link EXCEPT ![k] = IF @ = "up" THEN "down" ELSE @]
=============================================================================
