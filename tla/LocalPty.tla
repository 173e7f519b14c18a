------------------------------ MODULE LocalPty ------------------------------
(***************************************************************************)
(* Local terminals: the PTYs of the main process                           *)
(* (client/src/main/index.ts, the LOCAL_PTY handlers) and the terminals of *)
(* the window that spawn, watch and kill them over IPC                     *)
(* (client/src/renderer/hooks/useTerminal.ts, the branch of offline        *)
(* sessions).                                                              *)
(*                                                                         *)
(* Messages of each direction arrive in the order they were sent.  A step  *)
(* is one callback of either process.  Exited PTYs that are mentioned      *)
(* nowhere are reused.  Input and resizes change no state here.            *)
(***************************************************************************)
EXTENDS Naturals, SequencesExt

CONSTANTS
  Sessions, Ptys, None,
  Reloads,       \* may the window be reloaded, or closed and opened again?
  SpawnFails,    \* may pty.spawn throw?
  MaxQueue       \* bound: messages on their way in one direction

ASSUME LocalAssumption ==
  /\ IsFiniteSet(Sessions) /\ None \notin Ptys /\ MaxQueue \in Nat
  /\ Reloads \in BOOLEAN /\ SpawnFails \in BOOLEAN

VARIABLES
  localPtys,     \* localPtySessions: the PTY of a session, or None
  pty, ptyFor,   \* state of a PTY, and the session it was spawned for
  toMain, toWin, \* messages on their way
  mounted,       \* sessions with a terminal
  readyCalled,   \* of the terminal of a session
  loaded,        \* loadedSessionIds of the store
  exitShown,     \* history: the terminal said that its process exited
  attached,      \* history: the PTY in the last answer to a spawn that the window got
  reloaded, failed   \* history: has the window been reloaded, has a spawn failed?

mainVars == <<localPtys, pty, ptyFor>>
winVars  == <<mounted, readyCalled, loaded, exitShown, attached>>
hist == <<reloaded, failed>>
vars == <<mainVars, winVars, toMain, toWin, hist>>

Init ==
  /\ localPtys = [s \in Sessions |-> None]
  /\ pty = [p \in Ptys |-> "exited"] /\ ptyFor = [p \in Ptys |-> None]
  /\ toMain = <<>> /\ toWin = <<>>
  /\ mounted = {} /\ loaded = {}
  /\ readyCalled = [s \in Sessions |-> FALSE] /\ exitShown = [s \in Sessions |-> FALSE]
  /\ attached = [s \in Sessions |-> None]
  /\ reloaded = FALSE /\ failed = FALSE

Msg(type, s, p) == [type |-> type, session |-> s, pty |-> p]
Request(type, s) == [type |-> type, session |-> s]

ToMain(msg) == Len(toMain) < MaxQueue /\ toMain' = Append(toMain, msg)
ToWin(msg) == Len(toWin) < MaxQueue /\ toWin' = Append(toWin, msg)

FreshPty(p) ==
  /\ pty[p] = "exited"
  /\ \A s \in Sessions : p \notin {localPtys[s], attached[s]}
  /\ \A i \in DOMAIN toWin : toWin[i].pty # p

-----------------------------------------------------------------------------
(* The window.                                                             *)

\* A tab opens: initTerminal.
Mount(s) ==
  /\ s \notin mounted
  /\ mounted' = mounted \cup {s}
  /\ readyCalled' = [readyCalled EXCEPT ![s] = FALSE]
  /\ exitShown' = [exitShown EXCEPT ![s] = FALSE]
  /\ ToMain(Request("spawn", s))
  /\ UNCHANGED <<mainVars, loaded, attached, toWin, hist>>

\* Mutant: the PTY is not killed.
UnmountKeeps(s) ==
  /\ s \in mounted
  /\ mounted' = mounted \ {s} /\ loaded' = loaded \ {s}
  /\ UNCHANGED <<mainVars, readyCalled, exitShown, attached, toMain, toWin, hist>>

\* A tab closes: its listeners go and its PTY is to be killed.
Unmount(s) ==
  /\ s \in mounted
  /\ mounted' = mounted \ {s} /\ loaded' = loaded \ {s}
  /\ ToMain(Request("kill", s))
  /\ UNCHANGED <<mainVars, readyCalled, exitShown, attached, toWin, hist>>

\* The window starts anew: no cleanup runs, what was on its way to it is gone, and its
\* tabs, which the store saved, are opened again.
Reload ==
  /\ Reloads /\ Len(toMain) + Cardinality(mounted) <= MaxQueue
  /\ toMain' = toMain \o SetToSeq({Request("spawn", s) : s \in mounted})
  /\ toWin' = <<>> /\ loaded' = {}
  /\ readyCalled' = [s \in Sessions |-> FALSE] /\ exitShown' = [s \in Sessions |-> FALSE]
  /\ attached' = [s \in Sessions |-> None]
  /\ reloaded' = TRUE
  /\ UNCHANGED <<mainVars, mounted, failed>>

\* What the listeners and the promise of the spawn do with a message.
OnOutput(s) ==
  /\ IF s \in mounted /\ ~readyCalled[s]
     THEN readyCalled' = [readyCalled EXCEPT ![s] = TRUE] /\ loaded' = loaded \cup {s}
     ELSE UNCHANGED <<readyCalled, loaded>>
  /\ UNCHANGED <<exitShown, attached>>

OnLocalExit(s) ==
  /\ IF s \in mounted
     THEN loaded' = loaded \ {s} /\ exitShown' = [exitShown EXCEPT ![s] = TRUE]
     ELSE UNCHANGED <<loaded, exitShown>>
  /\ UNCHANGED <<readyCalled, attached>>

\* The promise is answered although the terminal may be gone.
OnReply(msg) ==
  /\ loaded' = IF msg.type = "reattached" THEN loaded \cup {msg.session} ELSE loaded
  /\ attached' = IF msg.type = "failed" THEN attached
                 ELSE [attached EXCEPT ![msg.session] = msg.pty]
  /\ UNCHANGED <<readyCalled, exitShown>>

Deliver ==
  /\ toWin # <<>>
  /\ toWin' = Tail(toWin)
  /\ LET msg == Head(toWin) IN
       \/ msg.type = "output" /\ OnOutput(msg.session)
       \/ msg.type = "exit" /\ OnLocalExit(msg.session)
       \/ msg.type \in {"spawned", "reattached", "failed"} /\ OnReply(msg)
  /\ UNCHANGED <<mainVars, mounted, toMain, hist>>

-----------------------------------------------------------------------------
(* The main process.                                                       *)

Spawned(s) ==
  \E p \in Ptys :
    /\ FreshPty(p)
    /\ localPtys' = [localPtys EXCEPT ![s] = p]
    /\ pty' = [pty EXCEPT ![p] = "running"] /\ ptyFor' = [ptyFor EXCEPT ![p] = s]
    /\ ToWin(Msg("spawned", s, p))
    /\ UNCHANGED failed

\* pty.spawn throws.
Unspawned(s) ==
  SpawnFails /\ ToWin(Msg("failed", s, None)) /\ failed' = TRUE /\ UNCHANGED mainVars

\* Mutant: a PTY is spawned whether there is one or not.
LocalPtySpawnAlways ==
  /\ toMain # <<>> /\ Head(toMain).type = "spawn"
  /\ LET s == Head(toMain).session IN
       Spawned(s) \/ Unspawned(s)
  /\ toMain' = Tail(toMain)
  /\ UNCHANGED <<winVars, reloaded>>

\* LOCAL_PTY_SPAWN.
LocalPtySpawn ==
  /\ toMain # <<>> /\ Head(toMain).type = "spawn"
  /\ LET s == Head(toMain).session IN
       \/ /\ localPtys[s] # None
          /\ ToWin(Msg("reattached", s, localPtys[s])) /\ UNCHANGED <<mainVars, failed>>
       \/ /\ localPtys[s] = None
          /\ Spawned(s) \/ Unspawned(s)
  /\ toMain' = Tail(toMain)
  /\ UNCHANGED <<winVars, reloaded>>

\* LOCAL_PTY_KILL.
LocalPtyKill ==
  /\ toMain # <<>> /\ Head(toMain).type = "kill"
  /\ LET s == Head(toMain).session IN
       IF localPtys[s] = None THEN UNCHANGED <<localPtys, pty>>
       ELSE /\ pty' = [pty EXCEPT ![localPtys[s]] = "killed"]
            /\ localPtys' = [localPtys EXCEPT ![s] = None]
  /\ toMain' = Tail(toMain)
  /\ UNCHANGED <<ptyFor, winVars, toWin, hist>>

\* Mutant: output is passed on whichever PTY is the session's.
OnDataAny(p) ==
  /\ pty[p] # "exited"
  /\ ToWin(Msg("output", ptyFor[p], p))
  /\ UNCHANGED <<mainVars, winVars, toMain, hist>>

\* Output counts only if the PTY still is the session's.
OnData(p) ==
  /\ pty[p] # "exited" /\ localPtys[ptyFor[p]] = p
  /\ ToWin(Msg("output", ptyFor[p], p))
  /\ UNCHANGED <<mainVars, winVars, toMain, hist>>

OnExit(p) ==
  /\ pty[p] # "exited"
  /\ pty' = [pty EXCEPT ![p] = "exited"]
  /\ IF localPtys[ptyFor[p]] = p
     THEN /\ localPtys' = [localPtys EXCEPT ![ptyFor[p]] = None]
          /\ ToWin(Msg("exit", ptyFor[p], p))
     ELSE UNCHANGED <<localPtys, toWin>>
  /\ UNCHANGED <<ptyFor, winVars, toMain, hist>>

-----------------------------------------------------------------------------
Next ==
  \/ \E s \in Sessions : Mount(s) \/ Unmount(s)
  \/ Reload \/ Deliver \/ LocalPtySpawn \/ LocalPtyKill
  \/ \E p \in Ptys : OnData(p) \/ OnExit(p)

Spec == Init /\ [][Next]_vars

-----------------------------------------------------------------------------
(* Properties.                                                             *)

WinTypes == {"output", "exit", "spawned", "reattached", "failed"}

TypeOK ==
  /\ localPtys \in [Sessions -> Ptys \cup {None}]
  /\ pty \in [Ptys -> {"running", "killed", "exited"}]
  /\ ptyFor \in [Ptys -> Sessions \cup {None}]
  /\ \A s \in Sessions : localPtys[s] # None => pty[localPtys[s]] = "running"
  /\ ToSet(toMain) \subseteq [type : {"spawn", "kill"}, session : Sessions]
  /\ ToSet(toWin) \subseteq [type : WinTypes, session : Sessions, pty : Ptys \cup {None}]
  /\ mounted \subseteq Sessions /\ loaded \subseteq Sessions
  /\ readyCalled \in [Sessions -> BOOLEAN] /\ exitShown \in [Sessions -> BOOLEAN]
  /\ attached \in [Sessions -> Ptys \cup {None}]
  /\ reloaded \in BOOLEAN /\ failed \in BOOLEAN

\* A local process that runs can always be reached and killed, and a session never has
\* two: no reload, reopened tab or late exit loses one (index.ts:252-256, 295, 304-306).
NoneLost == \A p \in Ptys : pty[p] = "running" => localPtys[ptyFor[p]] = p

\* Of the messages 1..n of queue q, the last that names a session's PTY names p, or none does
\* and the window, which knows of a, knows of no other.
Tells(msg, s) == msg.session = s /\ msg.type \in {"spawned", "reattached"}
LastTold(q, n, s, a, p) ==
  LET told == {i \in 1..n : Tells(q[i], s)} IN
    /\ told = {} => a \in {None, p}
    /\ \A i \in told : (\A j \in told : j <= i) => q[i].pty = p

\* Once the window was told of a session's new PTY, it hears nothing more of an old one
\* (index.ts:298, 304).
NoCrossTalk ==
  \A i \in DOMAIN toWin : LET msg == toWin[i] IN
    msg.type \in {"output", "exit"} =>
      LastTold(toWin, i - 1, msg.session, attached[msg.session], msg.pty)

Settled == toMain = <<>> /\ toWin = <<>>

\* However fast tabs are closed and opened again, once the messages have arrived an open
\* tab has a process, or says that it exited, and a session without a tab keeps none.
\* Until a reload, a session marked as loaded, which shows no spinner, has one as well.
\* (useTerminal.ts:83, 93-119, 196-210).
ProcessPerTab ==
  Settled => \A s \in Sessions : LET none == localPtys[s] = None IN
    /\ s \in mounted /\ none => exitShown[s] \/ failed
    /\ s \notin mounted => none
    /\ s \in loaded /\ none => reloaded \/ failed
=============================================================================
