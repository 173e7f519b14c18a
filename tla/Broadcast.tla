------------------------------ MODULE Broadcast ------------------------------
(***************************************************************************)
(* What the relay of a session promises its viewers (README.md:23, several *)
(* viewers on one session): whoever watches is shown all that is broadcast *)
(* from the moment it joined, each part once, before anything else is      *)
(* broadcast.  Output is counted, not represented.                         *)
(***************************************************************************)
EXTENDS Naturals

CONSTANTS Viewers, Out   \* Out: the viewer does not watch

VARIABLES
  sent,   \* how much has been broadcast
  at,     \* how much had been when the viewer joined, or Out
  seen    \* how much the viewer has been shown since

Init == sent = 0 /\ at = [v \in Viewers |-> Out] /\ seen = [v \in Viewers |-> 0]

CaughtUp(v) == at[v] + seen[v] = sent

\* Nothing more is broadcast before everybody has been shown the previous part.
Send ==
  /\ \A v \in Viewers : at[v] # Out => CaughtUp(v)
  /\ sent' \in Nat /\ sent' > sent
  /\ UNCHANGED <<at, seen>>

Join(v) ==
  /\ at[v] = Out
  /\ at' = [at EXCEPT ![v] = sent]
  /\ UNCHANGED <<sent, seen>>

Show(v) ==
  /\ at[v] # Out
  /\ seen' = [seen EXCEPT ![v] = sent - at[v]]
  /\ UNCHANGED <<sent, at>>

\* Only a viewer that leaves misses what is still on its way.
Leave(v) ==
  /\ at[v] # Out
  /\ at' = [at EXCEPT ![v] = Out] /\ seen' = [seen EXCEPT ![v] = 0]
  /\ UNCHANGED sent

Next == Send \/ \E v \in Viewers : Join(v) \/ Show(v) \/ Leave(v)

Spec == Init /\ [][Next]_<<sent, at, seen>>
=============================================================================
