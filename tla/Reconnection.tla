---------------------------- MODULE Reconnection ----------------------------
(***************************************************************************)
(* What the two clients of the server that connect again by themselves,    *)
(* the worker (client/src/main/worker-manager.ts:59-140) and the terminal  *)
(* of a tab (client/src/renderer/services/ws.ts), promise: one thing at a  *)
(* time, an attempt, a connection or a wait; after each failure a wait and *)
(* another attempt, MaxTries times since the last connection; and nothing  *)
(* more once the client was stopped.                                       *)
(***************************************************************************)
EXTENDS Naturals

CONSTANTS Clients, MaxTries

VARIABLES
  phase,   \* what a client is doing
  tries    \* waits it began since its last connection

Phases == {"new", "trying", "open", "waiting", "lost", "stopped"}

Init == phase = [c \in Clients |-> "new"] /\ tries = [c \in Clients |-> 0]

Becomes(c, p) == phase'[c] = p /\ tries'[c] = tries[c]

Start(c) == phase[c] = "new" /\ Becomes(c, "trying")

Opens(c) == phase[c] = "trying" /\ phase'[c] = "open" /\ tries'[c] = 0

\* The connection ends, or an attempt, the first or a later one, fails or cannot even be begun.
Fails(c) ==
  /\ phase[c] \in {"new", "open", "trying", "waiting"}
  /\ \/ tries[c] < MaxTries /\ phase'[c] = "waiting" /\ tries'[c] = tries[c] + 1
     \/ tries[c] >= MaxTries /\ Becomes(c, "lost")

Retries(c) == phase[c] = "waiting" /\ Becomes(c, "trying")

\* At any time, and for good.
Stops(c) == phase[c] # "new" /\ Becomes(c, "stopped")

Step(c) == Start(c) \/ Opens(c) \/ Fails(c) \/ Retries(c) \/ Stops(c)

\* The app may stop one client and start another at once.
Next ==
  /\ phase' \in [Clients -> Phases]
  /\ \A c \in Clients : Step(c) \/ Becomes(c, phase[c])

Spec == Init /\ [][Next]_<<phase, tries>>
=============================================================================
