---------------------------- MODULE Window_proofs ----------------------------
(***************************************************************************)
(* Proofs about the desktop window: its local terminals (LocalPty) and its *)
(* session list (SessionStore), for any number of sessions, PTYs and calls *)
(* and for queues and lists of any length.                                 *)
(*                                                                         *)
(* Local terminals.  A running PTY is its session's (Held), because none   *)
(* is spawned while there is one; what the window will have been told last, *)
(* once its queue is empty, is the session's PTY (Current), which is the   *)
(* only one whose output and exit are passed on.  What the main process is *)
(* asked to do last is what the tabs call for (Asked), and of a process    *)
(* that ended the window has heard, or will, after all it said (Reported). *)
(*                                                                         *)
(* Session list.  Whatever id is anywhere was given out (Known), so one    *)
(* that is new is nowhere yet; a list that is filtered keeps what passes,  *)
(* each entry once (FilterProperties); and while calls do not overlap the  *)
(* one that created a session is alone with it (Once).                     *)
(***************************************************************************)
EXTENDS LocalPty, SessionStore, FiniteSetTheorems, SequenceTheorems, TLAPS

-----------------------------------------------------------------------------
(* Local terminals: PTYs.                                                  *)

Requests == [type : {"spawn", "kill"}, session : Sessions]
Messages == [type : WinTypes, session : Sessions, pty : Ptys \cup {None}]

Types ==
  /\ localPtys \in [Sessions -> Ptys \cup {None}]
  /\ pty \in [Ptys -> {"running", "killed", "exited"}]
  /\ ptyFor \in [Ptys -> Sessions \cup {None}]
  /\ toMain \in Seq(Requests) /\ toWin \in Seq(Messages)
  /\ attached \in [Sessions -> Ptys \cup {None}] /\ mounted \subseteq Sessions

\* A session's PTY runs and is its own, and a running PTY is its session's.
Held ==
  /\ \A s \in Sessions : localPtys[s] # None =>
       pty[localPtys[s]] = "running" /\ ptyFor[localPtys[s]] = s
  /\ \A p \in Ptys : pty[p] # "exited" => ptyFor[p] \in Sessions
  /\ NoneLost

\* What the window knows of a session when its queue is empty.
Current ==
  \A s \in Sessions : localPtys[s] # None =>
    LastTold(toWin, Len(toWin), s, attached[s], localPtys[s])

IInv == Types /\ Held /\ Current /\ NoCrossTalk

LEMMA InitIInv == Init => IInv
<1> SUFFICES ASSUME Init PROVE IInv OBVIOUS
<1>1. Types BY DEF Init, Types
<1>2. Held BY DEF Init, Held, NoneLost
<1>3. Current BY DEF Init, Current
<1>4. NoCrossTalk BY DEF Init, NoCrossTalk
<1> QED BY <1>1, <1>2, <1>3, <1>4 DEF IInv

-----------------------------------------------------------------------------
(* What a queue tells, when a message is added and when one is taken.      *)

LEMMA ToldBefore ==
  ASSUME NEW q \in Seq(Messages), NEW m \in Messages, NEW n \in 0..Len(q), NEW s, NEW a, NEW p,
         LastTold(q, n, s, a, p)
  PROVE  LastTold(Append(q, m), n, s, a, p)
<1>1. \A i \in 1..n : Append(q, m)[i] = q[i] OBVIOUS
<1> QED BY <1>1 DEF LastTold

LEMMA ToldNow ==
  ASSUME NEW q \in Seq(Messages), NEW m \in Messages, NEW s, NEW a, NEW p,
         \/ Tells(m, s) /\ m.pty = p
         \/ ~Tells(m, s) /\ LastTold(q, Len(q), s, a, p)
  PROVE  LastTold(Append(q, m), Len(Append(q, m)), s, a, p)
<1> DEFINE n == Len(q)
           r == Append(q, m)
<1>1. /\ n \in Nat /\ Len(r) = n + 1 /\ r[n + 1] = m
      /\ \A i \in 1..n : r[i] = q[i]
  OBVIOUS
<1> HIDE DEF n, r
<1>2. CASE Tells(m, s) /\ m.pty = p
  <2>1. n + 1 \in {i \in 1..(n + 1) : Tells(r[i], s)} BY <1>1, <1>2
  <2>2. ASSUME NEW i \in {i \in 1..(n + 1) : Tells(r[i], s)}, n + 1 <= i PROVE r[i].pty = p
    BY <1>1, <1>2, <2>2
  <2> QED BY <1>1, <2>1, <2>2 DEF LastTold
<1>3. CASE ~Tells(m, s) /\ LastTold(q, n, s, a, p)
  <2> DEFINE told == {i \in 1..n : Tells(q[i], s)}
  <2>1. {i \in 1..(n + 1) : Tells(r[i], s)} = told BY <1>1, <1>3
  <2>2. \A i \in told : r[i] = q[i] BY <1>1
  <2>3. (told = {} => a \in {None, p}) /\ \A i \in told : (\A j \in told : j <= i) => q[i].pty = p
    BY <1>3 DEF LastTold
  <2> HIDE DEF told
  <2>4. (told = {} => a \in {None, p}) /\ \A i \in told : (\A j \in told : j <= i) => r[i].pty = p
    <3>1. \A i \in told : q[i].pty = p <=> r[i].pty = p BY <2>2
    <3> QED BY <2>3, <3>1
  <2> QED BY <1>1, <2>1, <2>4 DEF LastTold
<1> QED BY <1>2, <1>3 DEF n, r

LEMMA ToldLater ==
  ASSUME NEW q \in Seq(Messages), q # <<>>, NEW n \in 0..(Len(q) - 1), NEW s, NEW a, NEW p,
         NEW b, b = IF Tells(Head(q), s) THEN Head(q).pty ELSE a,
         LastTold(q, n + 1, s, a, p)
  PROVE  LastTold(Tail(q), n, s, b, p)
<1> DEFINE t == Tail(q)
           old == {i \in 1..(n + 1) : Tells(q[i], s)}
           new == {i \in 1..n : Tells(t[i], s)}
<1>1. n \in Nat /\ Head(q) = q[1] /\ \A i \in 1..n : t[i] = q[i + 1] OBVIOUS
<1>2. /\ old = {} => a \in {None, p}
      /\ \A i \in old : (\A j \in old : j <= i) => q[i].pty = p
  BY DEF LastTold
<1> HIDE DEF t
<1>3. \A i \in new : i + 1 \in old BY <1>1
<1>4. \A j \in old : j = 1 \/ (j - 1 \in new /\ j >= 2)
  <2> SUFFICES ASSUME NEW j \in old, j # 1 PROVE j - 1 \in new /\ j >= 2 OBVIOUS
  <2>1. j \in 2..(n + 1) /\ j - 1 \in 1..n /\ (j - 1) + 1 = j BY <1>1
  <2> QED BY <1>1, <2>1
<1>5. new = {} => b \in {None, p}
  <2> SUFFICES ASSUME new = {} PROVE b \in {None, p} OBVIOUS
  <2>1. \A j \in old : j = 1 BY <1>4
  <2>2. CASE old = {}
    <3>1. 1 \in 1..(n + 1) /\ ~Tells(Head(q), s) BY <1>1, <2>2
    <3> QED BY <1>2, <2>2, <3>1
  <2>3. CASE old # {}
    <3>1. 1 \in old BY <2>1, <2>3
    <3>2. q[1].pty = p
      <4>1. \A j \in old : j <= 1 BY <2>1
      <4> QED BY <1>2, <3>1, <4>1
    <3>3. Tells(Head(q), s) BY <1>1, <3>1
    <3> QED BY <1>1, <3>2, <3>3
  <2> QED BY <2>2, <2>3
<1>6. ASSUME NEW i \in new, \A j \in new : j <= i PROVE t[i].pty = p
  <2>1. i + 1 \in old /\ i \in 1..n BY <1>3
  <2>2. ASSUME NEW j \in old PROVE j <= i + 1
    <3>1. j \in 1..(n + 1) OBVIOUS
    <3>2. j = 1 \/ (j - 1 \in new /\ j >= 2) BY <1>4
    <3>3. CASE j = 1 BY <2>1, <3>3, <1>1
    <3>4. CASE j - 1 \in new
      <4>1. j - 1 <= i BY <1>6, <3>4
      <4> QED BY <1>1, <2>1, <3>1, <4>1
    <3> QED BY <3>2, <3>3, <3>4
  <2>3. q[i + 1].pty = p BY <1>2, <2>1, <2>2
  <2> QED BY <1>1, <2>1, <2>3
<1> HIDE DEF old
<1>7. (new = {} => b \in {None, p}) /\ \A i \in new : (\A j \in new : j <= i) => t[i].pty = p
  BY <1>5, <1>6
<1> QED BY <1>7 DEF LastTold, t

-----------------------------------------------------------------------------
\* A message that is added to the queue: it names the session's PTY, or tells nothing.
LEMMA Posted ==
  ASSUME IInv, NEW m \in Messages, toWin' = Append(toWin, m), attached' = attached,
         localPtys' \in [Sessions -> Ptys \cup {None}],
         m.type \in {"output", "exit"} => localPtys[m.session] = m.pty /\ m.pty # None,
         \A s \in Sessions : localPtys'[s] # None =>
           \/ Tells(m, s) /\ m.pty = localPtys'[s]
           \/ ~Tells(m, s) /\ localPtys'[s] = localPtys[s]
  PROVE  Current' /\ NoCrossTalk' /\ toWin' \in Seq(Messages)
<1>0. toWin \in Seq(Messages) BY DEF IInv, Types
<1>1. Current'
  <2> SUFFICES ASSUME NEW s \in Sessions, localPtys'[s] # None
               PROVE  LastTold(toWin', Len(toWin'), s, attached[s], localPtys'[s])
    BY DEF Current
  <2>1. \/ Tells(m, s) /\ m.pty = localPtys'[s]
        \/ ~Tells(m, s) /\ LastTold(toWin, Len(toWin), s, attached[s], localPtys'[s])
    BY DEF IInv, Current
  <2> QED BY <1>0, <2>1, ToldNow
<1>2. NoCrossTalk'
  <2> SUFFICES ASSUME NEW i \in DOMAIN toWin', toWin'[i].type \in {"output", "exit"}
               PROVE  LastTold(toWin', i - 1, toWin'[i].session, attached[toWin'[i].session],
                               toWin'[i].pty)
    BY DEF NoCrossTalk
  <2>1. i - 1 \in 0..Len(toWin) BY <1>0
  <2>2. CASE i \in DOMAIN toWin
    <3>1. toWin'[i] = toWin[i] BY <1>0, <2>2
    <3>2. LastTold(toWin, i - 1, toWin[i].session, attached[toWin[i].session], toWin[i].pty)
      BY <2>2, <3>1 DEF IInv, NoCrossTalk
    <3> QED BY <1>0, <2>1, <3>1, <3>2, ToldBefore
  <2>3. CASE i \notin DOMAIN toWin
    <3>1. i - 1 = Len(toWin) /\ toWin'[i] = m BY <1>0, <2>3
    <3>2. m.session \in Sessions /\ localPtys[m.session] = m.pty /\ m.pty # None
      BY <3>1 DEF Messages
    <3>3. LastTold(toWin, i - 1, m.session, attached[m.session], m.pty)
      BY <3>1, <3>2 DEF IInv, Current
    <3> QED BY <1>0, <2>1, <3>1, <3>3, ToldBefore
  <2> QED BY <2>2, <2>3
<1> QED BY <1>0, <1>1, <1>2

\* Steps that send nothing to the window.
LEMMA Silent ==
  ASSUME IInv, UNCHANGED <<toWin, attached>>,
         \A s \in Sessions : localPtys'[s] \in {None, localPtys[s]}
  PROVE  Current' /\ NoCrossTalk'
BY DEF IInv, Current, NoCrossTalk

\* What is asked for again when the window is reloaded: a spawn of every tab, no more.
LEMMA ReloadAsks ==
  ASSUME NEW S \in SUBSET Sessions
  PROVE  LET q == SetToSeq({Request("spawn", s) : s \in S}) IN
           /\ q \in Seq(Requests)
           /\ \A i \in DOMAIN q : q[i].type = "spawn" /\ q[i].session \in S
           /\ \A s \in S : \E i \in DOMAIN q : q[i].session = s
<1> DEFINE R == {Request("spawn", s) : s \in S}
           n == Cardinality(R)
           q == SetToSeq(R)
<1>1. IsFiniteSet(R)
  <2>1. IsFiniteSet(S) BY LocalAssumption, FS_Subset
  <2> DEFINE f == [s \in S |-> Request("spawn", s)]
  <2>2. f \in Surjection(S, R) BY DEF Surjection
  <2> QED BY <2>1, <2>2, FS_Surjection DEF ExistsSurjection
<1>2. \A r \in R : r.type = "spawn" /\ r.session \in S BY DEF Request
<1>3. R \subseteq Requests BY DEF Request, Requests
<1>4. \A s \in S : Request("spawn", s) \in R /\ Request("spawn", s).session = s BY DEF Request
<1> HIDE DEF R
<1>5. n \in Nat /\ IsFiniteSet(1..n) /\ Cardinality(1..n) = n BY <1>1, FS_CardinalityType, FS_Interval
<1>6. PICK f \in [1..n -> R] : IsInjective(f)
  BY <1>1, FS_CardinalityType DEF ExistsBijection, Bijection, Injection
<1>7. q \in [1..n -> R] /\ IsInjective(q) BY <1>6 DEF SetToSeq
<1> HIDE DEF q, n
<1>8. q \in Seq(Requests)
  <2>1. q \in [1..n -> Requests] BY <1>3, <1>7
  <2> QED BY <1>5, <2>1, SeqDef
<1>9. q \in Surjection(1..n, R)
  <2>1. q \in Injection(1..n, R) BY <1>7 DEF Injection
  <2> QED BY <1>1, <1>5, <2>1, FS_Injection DEF n
<1>10. DOMAIN q = 1..n /\ (\A i \in 1..n : q[i] \in R) /\ (\A r \in R : \E i \in 1..n : q[i] = r)
  BY <1>7, <1>9 DEF Surjection
<1>11. \A i \in DOMAIN q : q[i].type = "spawn" /\ q[i].session \in S BY <1>2, <1>10
<1>12. \A s \in S : \E i \in DOMAIN q : q[i].session = s BY <1>4, <1>10
<1> QED BY <1>8, <1>11, <1>12 DEF q, R

-----------------------------------------------------------------------------
LEMMA WindowStep ==
  ASSUME IInv, (\E s \in Sessions : Mount(s) \/ Unmount(s)) \/ Reload \/ Deliver
  PROVE  IInv'
<1> USE DEF IInv, Types, mainVars, winVars, hist
<1>1. UNCHANGED <<localPtys, pty, ptyFor>> BY DEF Mount, Unmount, Reload, Deliver
<1>2. Held' BY <1>1 DEF Held, NoneLost
<1>3. ASSUME NEW s \in Sessions, Mount(s) \/ Unmount(s) PROVE IInv'
  <2>1. toMain' \in Seq(Requests)
    <3>1. PICK r \in Requests : toMain' = Append(toMain, r)
      <4>1. Request("spawn", s) \in Requests /\ Request("kill", s) \in Requests
        BY DEF Request, Requests
      <4>2. \/ toMain' = Append(toMain, Request("spawn", s))
            \/ toMain' = Append(toMain, Request("kill", s))
        BY <1>3 DEF Mount, Unmount, ToMain
      <4> QED BY <4>1, <4>2
    <3> QED BY <3>1
  <2>2. mounted' \subseteq Sessions BY <1>3 DEF Mount, Unmount
  <2>3. UNCHANGED <<toWin, attached>> BY <1>3 DEF Mount, Unmount
  <2>4. Current' /\ NoCrossTalk' BY <1>1, <2>3, Silent
  <2> QED BY <1>1, <1>2, <2>1, <2>2, <2>3, <2>4
<1>4. CASE Reload
  <2>1. /\ toWin' = <<>> /\ attached' = [s \in Sessions |-> None] /\ mounted' = mounted
        /\ toMain' = toMain \o SetToSeq({Request("spawn", s) : s \in mounted})
    BY <1>4 DEF Reload
  <2>2. PICK q \in Seq(Requests) : toMain' = toMain \o q BY <2>1, ReloadAsks
  <2>5. toMain' \in Seq(Requests) BY <2>2
  <2>3. Current' BY <2>1 DEF Current, LastTold
  <2>4. NoCrossTalk' BY <2>1 DEF NoCrossTalk
  <2> QED BY <1>1, <1>2, <2>1, <2>3, <2>4, <2>5
<1>5. CASE Deliver
  <2> DEFINE m == Head(toWin)
  <2>1. toWin # <<>> /\ toWin' = Tail(toWin) /\ UNCHANGED <<mounted, toMain>>
    BY <1>5 DEF Deliver
  <2>2. m \in Messages /\ toWin' \in Seq(Messages) /\ Len(toWin) >= 1
    BY <2>1
  <2>3. m.session \in Sessions /\ m.pty \in Ptys \cup {None} /\ m.type \in WinTypes
    BY <2>2 DEF Messages
  <2> HIDE DEF m
  <2>4. attached' = IF m.type \in {"spawned", "reattached"}
                    THEN [attached EXCEPT ![m.session] = m.pty] ELSE attached
    BY <1>5 DEF Deliver, OnOutput, OnLocalExit, OnReply, m
  <2>5. attached' \in [Sessions -> Ptys \cup {None}] BY <2>3, <2>4
  <2>6. ASSUME NEW s \in Sessions
        PROVE  attached'[s] = IF Tells(m, s) THEN m.pty ELSE attached[s]
    BY <2>3, <2>4 DEF Tells
  <2>7. ASSUME NEW s \in Sessions, NEW p, NEW n \in 0..(Len(toWin) - 1),
               LastTold(toWin, n + 1, s, attached[s], p)
        PROVE  LastTold(toWin', n, s, attached'[s], p)
    BY <2>1, <2>6, <2>7, ToldLater DEF m
  <2>8. Len(toWin') = Len(toWin) - 1 /\ \A i \in 1..Len(toWin') : toWin'[i] = toWin[i + 1]
    BY <2>1
  <2>9. Current'
    <3> SUFFICES ASSUME NEW s \in Sessions, localPtys[s] # None
                 PROVE  LastTold(toWin', Len(toWin'), s, attached'[s], localPtys[s])
      BY <1>1 DEF Current
    <3>1. LastTold(toWin, Len(toWin), s, attached[s], localPtys[s]) BY DEF Current
    <3>2. Len(toWin') \in 0..(Len(toWin) - 1) /\ Len(toWin') + 1 = Len(toWin)
      BY <2>2, <2>8
    <3> QED BY <2>7, <3>1, <3>2
  <2>10. NoCrossTalk'
    <3> SUFFICES ASSUME NEW i \in DOMAIN toWin', toWin'[i].type \in {"output", "exit"}
                 PROVE  LastTold(toWin', i - 1, toWin'[i].session, attached'[toWin'[i].session],
                                 toWin'[i].pty)
      BY DEF NoCrossTalk
    <3>a. Len(toWin) \in Nat /\ DOMAIN toWin = 1..Len(toWin) OBVIOUS
    <3>b. DOMAIN toWin' = 1..Len(toWin') BY <2>2
    <3>1. /\ i \in 1..Len(toWin') /\ i + 1 \in DOMAIN toWin /\ toWin'[i] = toWin[i + 1]
          /\ i - 1 \in 0..(Len(toWin) - 1) /\ (i - 1) + 1 = i /\ (i + 1) - 1 = i
      BY <3>a, <3>b, <2>8
    <3>2. toWin'[i].session \in Sessions
      <4>1. toWin'[i] \in Messages BY <2>2
      <4> QED BY <4>1 DEF Messages
    <3>3. LastTold(toWin, i, toWin'[i].session, attached[toWin'[i].session], toWin'[i].pty)
      BY <3>1 DEF NoCrossTalk
    <3> QED BY <2>7, <3>1, <3>2, <3>3
  <2> QED BY <1>1, <1>2, <2>1, <2>2, <2>5, <2>9, <2>10
<1> QED BY <1>3, <1>4, <1>5

LEMMA TakeRequest ==
  ASSUME IInv, toMain # <<>>
  PROVE  Head(toMain).session \in Sessions /\ Tail(toMain) \in Seq(Requests)
<1>1. toMain \in Seq(Requests) BY DEF IInv, Types
<1>2. Head(toMain) \in Requests /\ Tail(toMain) \in Seq(Requests) BY <1>1
<1> QED BY <1>2 DEF Requests

LEMMA SpawnStep == ASSUME IInv, LocalPtySpawn PROVE IInv'
<1> USE DEF IInv, Types, mainVars, winVars, hist
<1> DEFINE s == Head(toMain).session
<1>1. s \in Sessions /\ toMain' \in Seq(Requests) /\ UNCHANGED <<attached, mounted>>
  BY TakeRequest DEF LocalPtySpawn
<1>2. CASE localPtys[s] # None /\ ToWin(Msg("reattached", s, localPtys[s])) /\ UNCHANGED mainVars
  <2> DEFINE m == Msg("reattached", s, localPtys[s])
  <2>1. m \in Messages BY <1>1 DEF Msg, Messages, WinTypes
  <2>2. m.type = "reattached" /\ m.session = s /\ m.pty = localPtys[s] BY DEF Msg
  <2>3. toWin' = Append(toWin, m) BY <1>2 DEF ToWin
  <2> HIDE DEF m
  <2>4. \A t \in Sessions : \/ Tells(m, t) /\ m.pty = localPtys[t]
                            \/ ~Tells(m, t)
    BY <2>2 DEF Tells
  <2>5. Current' /\ NoCrossTalk' /\ toWin' \in Seq(Messages)
    BY <1>1, <1>2, <2>1, <2>2, <2>3, <2>4, Posted
  <2> QED BY <1>1, <1>2, <2>5 DEF Held, NoneLost
<1>3. CASE localPtys[s] = None /\ Spawned(s)
  <2>1. PICK p \in Ptys : /\ FreshPty(p) /\ localPtys' = [localPtys EXCEPT ![s] = p]
                          /\ pty' = [pty EXCEPT ![p] = "running"]
                          /\ ptyFor' = [ptyFor EXCEPT ![p] = s]
                          /\ ToWin(Msg("spawned", s, p))
    BY <1>3 DEF Spawned
  <2> DEFINE m == Msg("spawned", s, p)
  <2>2. m \in Messages BY <1>1 DEF Msg, Messages, WinTypes
  <2>3. m.type = "spawned" /\ m.session = s /\ m.pty = p BY DEF Msg
  <2>4. toWin' = Append(toWin, m) BY <2>1 DEF ToWin
  <2> HIDE DEF m
  <2>5. localPtys' \in [Sessions -> Ptys \cup {None}] BY <1>1, <2>1
  <2>6. \A t \in Sessions : localPtys'[t] = IF t = s THEN p ELSE localPtys[t] BY <1>1, <2>1
  <2>7. \A t \in Sessions : \/ Tells(m, t) /\ m.pty = localPtys'[t]
                            \/ ~Tells(m, t) /\ localPtys'[t] = localPtys[t]
    BY <2>3, <2>6 DEF Tells
  <2>8. Current' /\ NoCrossTalk' /\ toWin' \in Seq(Messages)
    BY <1>1, <2>2, <2>3, <2>4, <2>5, <2>7, Posted
  <2>9. Held'
    <3>1. pty[p] = "exited" BY <2>1 DEF FreshPty
    <3>2. /\ \A q \in Ptys : pty'[q] = IF q = p THEN "running" ELSE pty[q]
          /\ \A q \in Ptys : ptyFor'[q] = IF q = p THEN s ELSE ptyFor[q]
      BY <2>1
    <3>3. \A t \in Sessions : localPtys[t] # None => localPtys[t] \in Ptys \ {p}
      BY <3>1 DEF Held
    <3>4. ASSUME NEW t \in Sessions, localPtys'[t] # None
          PROVE  pty'[localPtys'[t]] = "running" /\ ptyFor'[localPtys'[t]] = t
      BY <2>6, <3>2, <3>3, <3>4 DEF Held
    <3>5. \A q \in Ptys : pty'[q] # "exited" => ptyFor'[q] \in Sessions
      BY <1>1, <3>2 DEF Held
    <3>6. ASSUME NEW q \in Ptys, pty'[q] = "running" PROVE localPtys'[ptyFor'[q]] = q
      <4>1. CASE q = p BY <1>1, <2>6, <3>2, <4>1
      <4>2. CASE q # p
        <5>1. ptyFor[q] \in Sessions /\ localPtys[ptyFor[q]] = q
          BY <3>2, <3>6, <4>2 DEF Held, NoneLost
        <5>2. ptyFor[q] # s BY <1>3, <5>1, LocalAssumption
        <5> QED BY <2>6, <3>2, <4>2, <5>1, <5>2
      <4> QED BY <4>1, <4>2
    <3> QED BY <3>4, <3>5, <3>6 DEF Held, NoneLost
  <2>10. pty' \in [Ptys -> {"running", "killed", "exited"}] /\ ptyFor' \in [Ptys -> Sessions \cup {None}]
    BY <1>1, <2>1
  <2> QED BY <1>1, <2>5, <2>8, <2>9, <2>10
<1>4. CASE localPtys[s] = None /\ Unspawned(s)
  <2> DEFINE m == Msg("failed", s, None)
  <2>1. m \in Messages BY <1>1 DEF Msg, Messages, WinTypes
  <2>2. m.type = "failed" BY DEF Msg
  <2>3. toWin' = Append(toWin, m) /\ UNCHANGED <<localPtys, pty, ptyFor>>
    BY <1>4 DEF Unspawned, ToWin
  <2> HIDE DEF m
  <2>4. \A t \in Sessions : ~Tells(m, t) BY <2>2 DEF Tells
  <2>5. Current' /\ NoCrossTalk' /\ toWin' \in Seq(Messages)
    BY <1>1, <2>1, <2>2, <2>3, <2>4, Posted
  <2> QED BY <1>1, <2>3, <2>5 DEF Held, NoneLost
<1> QED BY <1>2, <1>3, <1>4 DEF LocalPtySpawn

LEMMA KillStep == ASSUME IInv, LocalPtyKill PROVE IInv'
<1> USE DEF IInv, Types, mainVars, winVars, hist
<1> DEFINE s == Head(toMain).session
<1>1. /\ s \in Sessions /\ toMain' \in Seq(Requests)
      /\ UNCHANGED <<attached, mounted, toWin, ptyFor>>
  BY TakeRequest DEF LocalPtyKill
<1>2. CASE localPtys[s] = None /\ UNCHANGED <<localPtys, pty>>
  <2>1. Current' /\ NoCrossTalk' BY <1>1, <1>2, Silent
  <2> QED BY <1>1, <1>2, <2>1 DEF Held, NoneLost
<1>3. CASE /\ localPtys[s] # None /\ pty' = [pty EXCEPT ![localPtys[s]] = "killed"]
           /\ localPtys' = [localPtys EXCEPT ![s] = None]
  <2> DEFINE p == localPtys[s]
  <2>1. p \in Ptys /\ pty[p] = "running" /\ ptyFor[p] = s BY <1>1, <1>3 DEF Held
  <2>2. \A t \in Sessions : localPtys'[t] = IF t = s THEN None ELSE localPtys[t] BY <1>1, <1>3
  <2>3. \A q \in Ptys : pty'[q] = IF q = p THEN "killed" ELSE pty[q] BY <1>3, <2>1
  <2>4. Current' /\ NoCrossTalk' BY <1>1, <2>2, Silent
  <2> HIDE DEF p
  <2>5. \A t \in Sessions \ {s} : localPtys[t] # p BY <1>1, <2>1, LocalAssumption DEF Held
  <2>6. Held'
    <3>1. ASSUME NEW t \in Sessions, localPtys'[t] # None
          PROVE  pty'[localPtys'[t]] = "running" /\ ptyFor'[localPtys'[t]] = t
      BY <1>1, <2>2, <2>3, <2>5, <3>1 DEF Held
    <3>2. \A q \in Ptys : pty'[q] # "exited" => ptyFor'[q] \in Sessions
      BY <1>1, <2>1, <2>3 DEF Held
    <3>3. ASSUME NEW q \in Ptys, pty'[q] = "running" PROVE localPtys'[ptyFor'[q]] = q
      <4>1. q # p /\ pty[q] = "running" BY <2>3, <3>3
      <4>2. ptyFor[q] \in Sessions /\ localPtys[ptyFor[q]] = q BY <4>1 DEF Held, NoneLost
      <4>3. ptyFor[q] # s BY <4>1, <4>2 DEF p
      <4> QED BY <1>1, <2>2, <4>2, <4>3
    <3> QED BY <3>1, <3>2, <3>3 DEF Held, NoneLost
  <2> QED BY <1>1, <1>3, <2>1, <2>4, <2>6
<1> QED BY <1>2, <1>3 DEF LocalPtyKill

LEMMA PtyStep == ASSUME IInv, NEW p \in Ptys, OnData(p) \/ OnExit(p) PROVE IInv'
<1> USE DEF IInv, Types, mainVars, winVars, hist
<1> DEFINE s == ptyFor[p]
<1>1. s \in Sessions /\ UNCHANGED <<ptyFor, attached, mounted, toMain>>
  BY DEF OnData, OnExit, Held
<1>2. CASE OnData(p)
  <2> DEFINE m == Msg("output", s, p)
  <2>1. m \in Messages BY <1>1 DEF Msg, Messages, WinTypes
  <2>2. m.type = "output" /\ m.session = s /\ m.pty = p BY DEF Msg
  <2>3. toWin' = Append(toWin, m) /\ UNCHANGED <<localPtys, pty>> /\ localPtys[s] = p
    BY <1>2 DEF OnData, ToWin
  <2> HIDE DEF m
  <2>4. \A t \in Sessions : ~Tells(m, t) BY <2>2 DEF Tells
  <2>5. Current' /\ NoCrossTalk' /\ toWin' \in Seq(Messages)
    BY <1>1, <2>1, <2>2, <2>3, <2>4, Posted, LocalAssumption
  <2> QED BY <1>1, <2>3, <2>5 DEF Held, NoneLost
<1>3. CASE OnExit(p)
  <2>1. pty' = [pty EXCEPT ![p] = "exited"] BY <1>3 DEF OnExit
  <2>2. \A q \in Ptys : pty'[q] = IF q = p THEN "exited" ELSE pty[q] BY <2>1
  <2>3. CASE localPtys[s] = p
    <3> DEFINE m == Msg("exit", s, p)
    <3>1. m \in Messages BY <1>1 DEF Msg, Messages, WinTypes
    <3>2. m.type = "exit" /\ m.session = s /\ m.pty = p BY DEF Msg
    <3>3. toWin' = Append(toWin, m) /\ localPtys' = [localPtys EXCEPT ![s] = None]
      BY <1>3, <2>3 DEF OnExit, ToWin
    <3> HIDE DEF m
    <3>4. \A t \in Sessions : localPtys'[t] = IF t = s THEN None ELSE localPtys[t] BY <1>1, <3>3
    <3>5. localPtys' \in [Sessions -> Ptys \cup {None}] BY <1>1, <3>3
    <3>6. \A t \in Sessions : ~Tells(m, t) BY <3>2 DEF Tells
    <3>7. Current' /\ NoCrossTalk' /\ toWin' \in Seq(Messages)
      BY <1>1, <2>3, <3>1, <3>2, <3>3, <3>4, <3>5, <3>6, Posted, LocalAssumption
    <3>8. Held'
      <4>1. \A t \in Sessions \ {s} : localPtys[t] # p BY <1>1, LocalAssumption DEF Held
      <4>2. ASSUME NEW t \in Sessions, localPtys'[t] # None
            PROVE  pty'[localPtys'[t]] = "running" /\ ptyFor'[localPtys'[t]] = t
        BY <1>1, <2>2, <3>4, <4>1, <4>2 DEF Held
      <4>3. \A q \in Ptys : pty'[q] # "exited" => ptyFor'[q] \in Sessions
        BY <1>1, <2>2 DEF Held
      <4>4. ASSUME NEW q \in Ptys, pty'[q] = "running" PROVE localPtys'[ptyFor'[q]] = q
        <5>1. q # p /\ pty[q] = "running" BY <2>2, <4>4
        <5>2. ptyFor[q] \in Sessions /\ localPtys[ptyFor[q]] = q BY <5>1 DEF Held, NoneLost
        <5>3. ptyFor[q] # s BY <2>3, <5>1, <5>2
        <5> QED BY <1>1, <3>4, <5>2, <5>3
      <4> QED BY <4>2, <4>3, <4>4 DEF Held, NoneLost
    <3> QED BY <1>1, <2>1, <3>5, <3>7, <3>8
  <2>4. CASE localPtys[s] # p
    <3>1. UNCHANGED <<localPtys, toWin>> BY <1>3, <2>4 DEF OnExit
    <3>2. Current' /\ NoCrossTalk' BY <1>1, <3>1, Silent
    <3>3. \A t \in Sessions : localPtys[t] # p BY <1>1, <2>4, LocalAssumption DEF Held
    <3>4. Held' BY <1>1, <2>2, <3>1, <3>3 DEF Held, NoneLost
    <3> QED BY <1>1, <2>1, <3>1, <3>2, <3>4
  <2> QED BY <2>3, <2>4
<1> QED BY <1>2, <1>3

LEMMA NextIInv == IInv /\ [Next]_vars => IInv'
<1> SUFFICES ASSUME IInv, [Next]_vars PROVE IInv' OBVIOUS
<1>1. CASE UNCHANGED vars
  BY <1>1 DEF vars, mainVars, winVars, hist, IInv, Types, Held, NoneLost, Current, NoCrossTalk
<1> QED BY <1>1, WindowStep, SpawnStep, KillStep, PtyStep DEF Next

\* The inductive invariant of local terminals (index.ts:245-310, useTerminal.ts:83-120).
THEOREM Invariance == Spec => []IInv
BY InitIInv, NextIInv, PTL DEF Spec

\* A PTY that runs can always be reached and killed, and no session has two
\* (index.ts:252-256, 295, 304-306).
THEOREM NoneLostHolds == Spec => []NoneLost
<1>1. IInv => NoneLost BY DEF IInv, Held
<1> QED BY <1>1, Invariance, PTL

\* A terminal that was told of its new PTY hears nothing more of an old one
\* (index.ts:298, 304).
THEOREM NoCrossTalkHolds == Spec => []NoCrossTalk
<1>1. IInv => NoCrossTalk BY DEF IInv
<1> QED BY <1>1, Invariance, PTL

-----------------------------------------------------------------------------
(* Local terminals: tabs.                                                  *)

\* Of the first n requests, the last that names a session is to kill its PTY, or none names it.
NoneFor(q, n, s) == \A i \in 1..n : q[i].session # s
KilledLast(q, n, s) ==
  \E i \in 1..n : q[i] = Request("kill", s) /\ \A j \in (i + 1)..n : q[j].session # s

\* After the first n requests the session has no PTY, unless a late exit has its way first.
Gone(q, n, s, held) == KilledLast(q, n, s) \/ (NoneFor(q, n, s) /\ held = None)

\* What the main process is asked to do last is what the tabs call for; and before a reload
\* no spawn finds a PTY.
Asked ==
  /\ \A s \in mounted : ~KilledLast(toMain, Len(toMain), s)
  /\ \A s \in Sessions \ mounted : Gone(toMain, Len(toMain), s, localPtys[s])
  /\ ~reloaded => \A i \in DOMAIN toMain : toMain[i].type = "spawn" =>
       Gone(toMain, i - 1, toMain[i].session, localPtys[toMain[i].session])

\* An open tab that nothing more is asked for, and that has no process.
Ended(s) == s \in mounted /\ NoneFor(toMain, Len(toMain), s) /\ localPtys[s] = None

Exits(q, s) == \E i \in DOMAIN q : q[i].type = "exit" /\ q[i].session = s
Silenced(q, s, n) == \A i \in DOMAIN q : i > n => q[i].type # "output" \/ q[i].session # s
ExitsLast(q, s) == \E i \in DOMAIN q : q[i].type = "exit" /\ q[i].session = s /\ Silenced(q, s, i)

Reported ==
  /\ \A s \in Sessions : Ended(s) => exitShown[s] \/ failed \/ Exits(toWin, s)
  /\ ~reloaded /\ ~failed =>
       /\ loaded \subseteq mounted
       /\ \A i \in DOMAIN toWin : toWin[i].type # "reattached"
       /\ \A s \in Sessions : Ended(s) => \/ ExitsLast(toWin, s)
                                          \/ Silenced(toWin, s, 0) /\ s \notin loaded

TabTypes ==
  /\ loaded \subseteq Sessions /\ reloaded \in BOOLEAN /\ failed \in BOOLEAN
  /\ exitShown \in [Sessions -> BOOLEAN] /\ readyCalled \in [Sessions -> BOOLEAN]

TabInv == TabTypes /\ Asked /\ Reported

-----------------------------------------------------------------------------
(* What a queue of requests asks for, when one is added and when one is taken. *)

LEMMA AskedBefore ==
  ASSUME NEW q \in Seq(Requests), NEW m \in Requests, NEW n \in 0..Len(q), NEW s
  PROVE  /\ NoneFor(Append(q, m), n, s) <=> NoneFor(q, n, s)
         /\ KilledLast(Append(q, m), n, s) <=> KilledLast(q, n, s)
<1> DEFINE r == Append(q, m)
<1>1. \A i \in 1..n : r[i] = q[i] OBVIOUS
<1>2. \A i \in 1..n : \A j \in (i + 1)..n : j \in 1..n OBVIOUS
<1> HIDE DEF r
<1>3. NoneFor(r, n, s) <=> NoneFor(q, n, s) BY <1>1 DEF NoneFor
<1>4. KilledLast(r, n, s) <=> KilledLast(q, n, s)
  <2>1. ASSUME NEW i \in 1..n
        PROVE  /\ r[i] = Request("kill", s) <=> q[i] = Request("kill", s)
               /\ (\A j \in (i + 1)..n : r[j].session # s) <=> (\A j \in (i + 1)..n : q[j].session # s)
    BY <1>1, <1>2
  <2> QED BY <2>1 DEF KilledLast
<1> QED BY <1>3, <1>4 DEF r

LEMMA AskedNow ==
  ASSUME NEW q \in Seq(Requests), NEW m \in Requests, NEW s
  PROVE  /\ NoneFor(Append(q, m), Len(Append(q, m)), s) <=> NoneFor(q, Len(q), s) /\ m.session # s
         /\ KilledLast(Append(q, m), Len(Append(q, m)), s)
              <=> m = Request("kill", s) \/ (m.session # s /\ KilledLast(q, Len(q), s))
<1> DEFINE r == Append(q, m)
           n == Len(q)
<1>1. /\ n \in Nat /\ Len(r) = n + 1 /\ r[n + 1] = m
      /\ \A i \in 1..n : r[i] = q[i]
  OBVIOUS
<1> HIDE DEF r, n
<1>2. \A i \in 1..(n + 1) : i = n + 1 \/ i \in 1..n BY <1>1
<1>3. NoneFor(r, n + 1, s) <=> NoneFor(q, n, s) /\ m.session # s BY <1>1, <1>2 DEF NoneFor
<1>4. \A i \in 1..n : \A j \in (i + 1)..n : j \in 1..n /\ j \in (i + 1)..(n + 1) BY <1>1
<1>5. \A i \in 1..n : n + 1 \in (i + 1)..(n + 1) BY <1>1
<1>6. \A i \in 1..n : \A j \in (i + 1)..(n + 1) : j = n + 1 \/ j \in (i + 1)..n BY <1>1
<1>7. ASSUME KilledLast(r, n + 1, s)
      PROVE  m = Request("kill", s) \/ (m.session # s /\ KilledLast(q, n, s))
  <2>1. PICK i \in 1..(n + 1) : r[i] = Request("kill", s) /\ \A j \in (i + 1)..(n + 1) : r[j].session # s
    BY <1>7 DEF KilledLast
  <2>2. CASE i = n + 1 BY <1>1, <2>1, <2>2
  <2>3. CASE i \in 1..n
    <3>1. m.session # s BY <1>1, <1>5, <2>1, <2>3
    <3>2. q[i] = Request("kill", s) /\ \A j \in (i + 1)..n : q[j].session # s
      BY <1>1, <1>4, <2>1, <2>3
    <3> QED BY <2>3, <3>1, <3>2 DEF KilledLast
  <2> QED BY <1>2, <2>2, <2>3
<1>8. ASSUME m = Request("kill", s) PROVE KilledLast(r, n + 1, s)
  <2>1. n + 1 \in 1..(n + 1) /\ \A j \in ((n + 1) + 1)..(n + 1) : FALSE BY <1>1
  <2> QED BY <1>1, <1>8, <2>1 DEF KilledLast
<1>9. ASSUME m.session # s, KilledLast(q, n, s) PROVE KilledLast(r, n + 1, s)
  <2>1. PICK i \in 1..n : q[i] = Request("kill", s) /\ \A j \in (i + 1)..n : q[j].session # s
    BY <1>9 DEF KilledLast
  <2>2. i \in 1..(n + 1) /\ r[i] = Request("kill", s) BY <1>1, <2>1
  <2>3. \A j \in (i + 1)..(n + 1) : r[j].session # s BY <1>1, <1>4, <1>6, <1>9, <2>1
  <2> QED BY <2>2, <2>3 DEF KilledLast
<1> QED BY <1>1, <1>3, <1>7, <1>8, <1>9 DEF r, n

LEMMA AskedLater ==
  ASSUME NEW q \in Seq(Requests), q # <<>>, NEW n \in 0..(Len(q) - 1), NEW s
  PROVE  /\ NoneFor(q, n + 1, s) <=> Head(q).session # s /\ NoneFor(Tail(q), n, s)
         /\ KilledLast(q, n + 1, s) <=> \/ Head(q) = Request("kill", s) /\ NoneFor(Tail(q), n, s)
                                        \/ KilledLast(Tail(q), n, s)
<1> DEFINE t == Tail(q)
<1>1. n \in Nat /\ Head(q) = q[1] /\ \A i \in 1..n : t[i] = q[i + 1] OBVIOUS
<1> HIDE DEF t
<1>2. \A i \in 1..(n + 1) : i = 1 \/ (i - 1 \in 1..n /\ (i - 1) + 1 = i) BY <1>1
<1>3. \A i \in 1..n : i + 1 \in 2..(n + 1) BY <1>1
<1>4. 1 \in 1..(n + 1) BY <1>1
<1>5. NoneFor(q, n + 1, s) <=> Head(q).session # s /\ NoneFor(t, n, s)
  <2>1. ASSUME NoneFor(q, n + 1, s) PROVE Head(q).session # s /\ NoneFor(t, n, s)
    <3>1. \A i \in 1..n : i + 1 \in 1..(n + 1) BY <1>1
    <3> QED BY <1>1, <1>4, <2>1, <3>1 DEF NoneFor
  <2>2. ASSUME Head(q).session # s, NoneFor(t, n, s) PROVE NoneFor(q, n + 1, s)
    <3> SUFFICES ASSUME NEW i \in 1..(n + 1) PROVE q[i].session # s BY DEF NoneFor
    <3>1. CASE i = 1 BY <1>1, <2>2, <3>1
    <3>2. CASE i - 1 \in 1..n /\ (i - 1) + 1 = i
      <4>1. q[i] = t[i - 1] BY <1>1, <3>2
      <4> QED BY <2>2, <3>2, <4>1 DEF NoneFor
    <3> QED BY <1>2, <3>1, <3>2
  <2> QED BY <2>1, <2>2
<1>6. ASSUME KilledLast(q, n + 1, s)
      PROVE  (Head(q) = Request("kill", s) /\ NoneFor(t, n, s)) \/ KilledLast(t, n, s)
  <2>1. PICK i \in 1..(n + 1) : q[i] = Request("kill", s) /\ \A j \in (i + 1)..(n + 1) : q[j].session # s
    BY <1>6 DEF KilledLast
  <2>2. \A j \in i..n : t[j].session # s
    <3> SUFFICES ASSUME NEW j \in i..n PROVE t[j].session # s OBVIOUS
    <3>1. j \in 1..n /\ j + 1 \in (i + 1)..(n + 1) BY <1>1
    <3> QED BY <1>1, <2>1, <3>1
  <2>3. CASE i = 1 BY <1>1, <2>1, <2>2, <2>3 DEF NoneFor
  <2>4. CASE i - 1 \in 1..n /\ (i - 1) + 1 = i
    <3>1. t[i - 1] = Request("kill", s) BY <1>1, <2>1, <2>4
    <3> QED BY <2>2, <2>4, <3>1 DEF KilledLast
  <2> QED BY <1>2, <2>3, <2>4
<1>7. ASSUME Head(q) = Request("kill", s), NoneFor(t, n, s) PROVE KilledLast(q, n + 1, s)
  <2>1. \A j \in (1 + 1)..(n + 1) : q[j].session # s
    <3> SUFFICES ASSUME NEW j \in (1 + 1)..(n + 1) PROVE q[j].session # s OBVIOUS
    <3>1. j - 1 \in 1..n /\ (j - 1) + 1 = j BY <1>1
    <3>2. q[j] = t[j - 1] BY <1>1, <3>1
    <3> QED BY <1>7, <3>1, <3>2 DEF NoneFor
  <2> QED BY <1>1, <1>4, <1>7, <2>1 DEF KilledLast
<1>8. ASSUME KilledLast(t, n, s) PROVE KilledLast(q, n + 1, s)
  <2>1. PICK i \in 1..n : t[i] = Request("kill", s) /\ \A j \in (i + 1)..n : t[j].session # s
    BY <1>8 DEF KilledLast
  <2>2. \A j \in ((i + 1) + 1)..(n + 1) : q[j].session # s
    <3> SUFFICES ASSUME NEW j \in ((i + 1) + 1)..(n + 1) PROVE q[j].session # s OBVIOUS
    <3>1. j - 1 \in (i + 1)..n /\ j - 1 \in 1..n /\ (j - 1) + 1 = j BY <1>1
    <3>2. q[j] = t[j - 1] BY <1>1, <3>1
    <3> QED BY <2>1, <3>1, <3>2
  <2>3. i + 1 \in 1..(n + 1) /\ q[i + 1] = Request("kill", s) BY <1>1, <2>1
  <2> QED BY <2>2, <2>3 DEF KilledLast
<1> QED BY <1>5, <1>6, <1>7, <1>8 DEF t

LEMMA GoneLater ==
  ASSUME NEW q \in Seq(Requests), q # <<>>, NEW n \in 0..(Len(q) - 1), NEW s, NEW held, NEW now,
         Gone(q, n + 1, s, held),
         Head(q) = Request("kill", s) => now = None,
         Head(q).session # s => now = held
  PROVE  Gone(Tail(q), n, s, now)
BY AskedLater DEF Gone

(* What a queue of messages says of a session.                             *)

LEMMA HeardNow ==
  ASSUME NEW q \in Seq(Messages), NEW m \in Messages, NEW s
  PROVE  LET r == Append(q, m)
             said == m.type = "output" /\ m.session = s
             ended == m.type = "exit" /\ m.session = s
         IN /\ Exits(q, s) \/ ended => Exits(r, s)
            /\ ExitsLast(q, s) /\ ~said => ExitsLast(r, s)
            /\ ended => ExitsLast(r, s)
            /\ Silenced(q, s, 0) /\ ~said => Silenced(r, s, 0)
<1> DEFINE r == Append(q, m)
           n == Len(q)
           said == m.type = "output" /\ m.session = s
           ended == m.type = "exit" /\ m.session = s
<1>1. /\ n \in Nat /\ DOMAIN q = 1..n /\ DOMAIN r = 1..(n + 1) /\ r[n + 1] = m
      /\ \A i \in DOMAIN q : r[i] = q[i]
  OBVIOUS
<1> HIDE DEF r, n
<1>2. n + 1 \in DOMAIN r /\ \A i \in DOMAIN r : i = n + 1 \/ i \in DOMAIN q BY <1>1
<1>3. \A i \in DOMAIN q : i \in DOMAIN r BY <1>1
<1>4. ASSUME ~said, NEW k, Silenced(q, s, k) PROVE Silenced(r, s, k)
  BY <1>1, <1>2, <1>4 DEF Silenced
<1>5. ended => Silenced(r, s, n + 1) BY <1>1 DEF Silenced
<1>6. Exits(q, s) \/ ended => Exits(r, s) BY <1>1, <1>2, <1>3 DEF Exits
<1>7. ASSUME ExitsLast(q, s), ~said PROVE ExitsLast(r, s)
  <2>1. PICK i \in DOMAIN q : q[i].type = "exit" /\ q[i].session = s /\ Silenced(q, s, i)
    BY <1>7 DEF ExitsLast
  <2>2. Silenced(r, s, i) BY <1>4, <1>7, <2>1
  <2> QED BY <1>1, <1>3, <2>1, <2>2 DEF ExitsLast
<1>8. ended => ExitsLast(r, s) BY <1>1, <1>2, <1>5 DEF ExitsLast
<1> QED BY <1>4, <1>6, <1>7, <1>8 DEF r

LEMMA HeardLater ==
  ASSUME NEW q \in Seq(Messages), q # <<>>, NEW s
  PROVE  LET m == Head(q)
             said == m.type = "output" /\ m.session = s
             ended == m.type = "exit" /\ m.session = s
         IN /\ Exits(q, s) /\ ~ended => Exits(Tail(q), s)
            /\ ExitsLast(q, s) /\ ~ended => ExitsLast(Tail(q), s)
            /\ ExitsLast(q, s) /\ ended => ExitsLast(Tail(q), s) \/ Silenced(Tail(q), s, 0)
            /\ Silenced(q, s, 0) => ~said /\ Silenced(Tail(q), s, 0)
<1> DEFINE t == Tail(q)
           n == Len(q)
           m == Head(q)
           ended == m.type = "exit" /\ m.session = s
<1>1. /\ n \in Nat \ {0} /\ DOMAIN q = 1..n /\ DOMAIN t = 1..(n - 1) /\ m = q[1]
      /\ \A i \in 1..(n - 1) : t[i] = q[i + 1]
  OBVIOUS
<1> HIDE DEF t, n, m
<1>2. \A i \in DOMAIN q : i = 1 \/ (i - 1 \in DOMAIN t /\ t[i - 1] = q[i])
  <2> SUFFICES ASSUME NEW i \in DOMAIN q, i # 1 PROVE i - 1 \in DOMAIN t /\ t[i - 1] = q[i] OBVIOUS
  <2>1. i - 1 \in 1..(n - 1) /\ (i - 1) + 1 = i BY <1>1
  <2> QED BY <1>1, <2>1
<1>3. ASSUME NEW i \in DOMAIN q, Silenced(q, s, i) PROVE Silenced(t, s, i - 1)
  <2> SUFFICES ASSUME NEW k \in DOMAIN t, k > i - 1 PROVE t[k].type # "output" \/ t[k].session # s
    BY DEF Silenced
  <2>1. k + 1 \in DOMAIN q /\ k + 1 > i /\ t[k] = q[k + 1] BY <1>1
  <2> QED BY <1>3, <2>1 DEF Silenced
<1>4. Exits(q, s) /\ ~ended => Exits(t, s) BY <1>1, <1>2 DEF Exits
<1>5. ASSUME ExitsLast(q, s) PROVE ExitsLast(t, s) \/ (ended /\ Silenced(t, s, 0))
  <2>1. PICK i \in DOMAIN q : q[i].type = "exit" /\ q[i].session = s /\ Silenced(q, s, i)
    BY <1>5 DEF ExitsLast
  <2>2. Silenced(t, s, i - 1) BY <1>3, <2>1
  <2>3. CASE i = 1 BY <1>1, <2>1, <2>2, <2>3
  <2>4. CASE i - 1 \in DOMAIN t /\ t[i - 1] = q[i] BY <2>1, <2>2, <2>4 DEF ExitsLast
  <2> QED BY <1>2, <2>3, <2>4
<1>6. ASSUME Silenced(q, s, 0) PROVE ~(m.type = "output" /\ m.session = s) /\ Silenced(t, s, 0)
  <2>1. 1 \in DOMAIN q /\ 1 > 0 BY <1>1
  <2>2. \A k \in DOMAIN t : k + 1 \in DOMAIN q /\ k + 1 > 0 /\ t[k] = q[k + 1] BY <1>1
  <2>3. ~(m.type = "output" /\ m.session = s) BY <1>1, <1>6, <2>1 DEF Silenced
  <2> QED BY <1>6, <2>2, <2>3 DEF Silenced
<1> QED BY <1>4, <1>5, <1>6 DEF t, m

-----------------------------------------------------------------------------
(* The steps, and what they do to tabs.                                    *)

LEMMA TabStarts == Init => TabInv
<1> SUFFICES ASSUME Init PROVE TabInv OBVIOUS
<1>1. TabTypes BY DEF Init, TabTypes
<1>2. Asked BY DEF Init, Asked, KilledLast, Gone, NoneFor
<1>3. Reported BY DEF Init, Reported, Ended
<1> QED BY <1>1, <1>2, <1>3 DEF TabInv

LEMMA Sent ==
  ASSUME NEW type \in {"spawn", "kill"}, NEW s \in Sessions
  PROVE  /\ Request(type, s) \in Requests
         /\ Request(type, s).type = type /\ Request(type, s).session = s
         /\ \A t : Request(type, s) = Request("kill", t) <=> type = "kill" /\ s = t
BY DEF Request, Requests

LEMMA MountTab ==
  ASSUME IInv, TabInv, NEW s \in Sessions, Mount(s) PROVE TabInv'
<1> USE DEF hist
<1> DEFINE m == Request("spawn", s)
<1>1. /\ s \notin mounted /\ mounted' = mounted \cup {s} /\ toMain' = Append(toMain, m)
      /\ readyCalled' = [readyCalled EXCEPT ![s] = FALSE]
      /\ exitShown' = [exitShown EXCEPT ![s] = FALSE]
      /\ UNCHANGED <<localPtys, loaded, toWin, reloaded, failed>>
  BY DEF Mount, ToMain, mainVars
<1>2. m \in Requests /\ m.type = "spawn" /\ m.session = s /\ \A t : m # Request("kill", t) BY Sent
<1>3. toMain \in Seq(Requests) /\ mounted \subseteq Sessions BY DEF IInv, Types
<1> HIDE DEF m
<1>4. TabTypes' BY <1>1 DEF TabInv, TabTypes
<1>5. \A t : /\ NoneFor(toMain', Len(toMain'), t) <=> NoneFor(toMain, Len(toMain), t) /\ t # s
             /\ KilledLast(toMain', Len(toMain'), t) <=> t # s /\ KilledLast(toMain, Len(toMain), t)
  BY <1>1, <1>2, <1>3, AskedNow
<1>6. Asked'
  <2>1. \A t \in mounted' : ~KilledLast(toMain', Len(toMain'), t) BY <1>1, <1>5 DEF TabInv, Asked
  <2>2. \A t \in Sessions \ mounted' : Gone(toMain', Len(toMain'), t, localPtys'[t])
    BY <1>1, <1>5 DEF TabInv, Asked, Gone
  <2>3. ASSUME ~reloaded, NEW i \in DOMAIN toMain', toMain'[i].type = "spawn"
        PROVE  Gone(toMain', i - 1, toMain'[i].session, localPtys[toMain'[i].session])
    <3>1. i - 1 \in 0..Len(toMain) BY <1>1, <1>2, <1>3
    <3>2. Gone(toMain, i - 1, toMain'[i].session, localPtys[toMain'[i].session])
      <4>1. CASE i \in DOMAIN toMain
        <5>1. toMain'[i] = toMain[i] BY <1>1, <1>2, <1>3, <4>1
        <5> QED BY <2>3, <4>1, <5>1 DEF TabInv, Asked
      <4>2. CASE i \notin DOMAIN toMain
        <5>1. i - 1 = Len(toMain) /\ toMain'[i] = m BY <1>1, <1>2, <1>3, <4>2
        <5> QED BY <1>1, <1>2, <5>1 DEF TabInv, Asked
      <4> QED BY <4>1, <4>2
    <3> QED BY <1>1, <1>2, <1>3, <3>1, <3>2, AskedBefore DEF Gone
  <2> QED BY <1>1, <2>1, <2>2, <2>3 DEF Asked
<1>7. Reported'
  <2>1. \A t \in Sessions : Ended(t)' => Ended(t) /\ t # s BY <1>1, <1>5 DEF Ended
  <2>2. \A t \in Sessions : t # s => exitShown'[t] = exitShown[t] BY <1>1 DEF TabInv, TabTypes
  <2> QED BY <1>1, <2>1, <2>2 DEF TabInv, Reported
<1> QED BY <1>4, <1>6, <1>7 DEF TabInv

LEMMA UnmountTab ==
  ASSUME IInv, TabInv, NEW s \in Sessions, Unmount(s) PROVE TabInv'
<1> USE DEF hist
<1> DEFINE m == Request("kill", s)
<1>1. /\ s \in mounted /\ mounted' = mounted \ {s} /\ loaded' = loaded \ {s}
      /\ toMain' = Append(toMain, m)
      /\ UNCHANGED <<localPtys, readyCalled, exitShown, toWin, reloaded, failed>>
  BY DEF Unmount, ToMain, mainVars
<1>2. /\ m \in Requests /\ m.type = "kill" /\ m.session = s
      /\ \A t : m = Request("kill", t) <=> s = t
  BY Sent
<1>3. toMain \in Seq(Requests) /\ mounted \subseteq Sessions BY DEF IInv, Types
<1> HIDE DEF m
<1>4. TabTypes' BY <1>1 DEF TabInv, TabTypes
<1>5. \A t : /\ NoneFor(toMain', Len(toMain'), t) <=> NoneFor(toMain, Len(toMain), t) /\ t # s
             /\ KilledLast(toMain', Len(toMain'), t) <=> t = s \/ KilledLast(toMain, Len(toMain), t)
  BY <1>1, <1>2, <1>3, AskedNow
<1>6. Asked'
  <2>1. \A t \in mounted' : ~KilledLast(toMain', Len(toMain'), t) BY <1>1, <1>5 DEF TabInv, Asked
  <2>2. \A t \in Sessions \ mounted' : Gone(toMain', Len(toMain'), t, localPtys'[t])
    BY <1>1, <1>5 DEF TabInv, Asked, Gone
  <2>3. ASSUME ~reloaded, NEW i \in DOMAIN toMain', toMain'[i].type = "spawn"
        PROVE  Gone(toMain', i - 1, toMain'[i].session, localPtys[toMain'[i].session])
    <3>1. i - 1 \in 0..Len(toMain) BY <1>1, <1>2, <1>3
    <3>2. i \in DOMAIN toMain /\ toMain'[i] = toMain[i] BY <1>1, <1>2, <1>3, <2>3
    <3>3. Gone(toMain, i - 1, toMain'[i].session, localPtys[toMain'[i].session])
      BY <2>3, <3>2 DEF TabInv, Asked
    <3> QED BY <1>1, <1>2, <1>3, <3>1, <3>3, AskedBefore DEF Gone
  <2> QED BY <1>1, <2>1, <2>2, <2>3 DEF Asked
<1>7. Reported'
  <2>1. \A t \in Sessions : Ended(t)' => Ended(t) /\ t # s BY <1>1, <1>5 DEF Ended
  <2> QED BY <1>1, <2>1 DEF TabInv, Reported
<1> QED BY <1>4, <1>6, <1>7 DEF TabInv

LEMMA ReloadTab ==
  ASSUME IInv, TabInv, Reload PROVE TabInv'
<1> DEFINE q == SetToSeq({Request("spawn", s) : s \in mounted})
           r == toMain'
           n == Len(toMain)
           l == Len(q)
<1>1. /\ toMain' = toMain \o q /\ toWin' = <<>> /\ loaded' = {} /\ reloaded' = TRUE
      /\ readyCalled' = [s \in Sessions |-> FALSE] /\ exitShown' = [s \in Sessions |-> FALSE]
      /\ UNCHANGED <<localPtys, mounted, failed>>
  BY DEF Reload, mainVars
<1>2. toMain \in Seq(Requests) /\ mounted \in SUBSET Sessions BY DEF IInv, Types
<1>3. /\ q \in Seq(Requests)
      /\ \A i \in DOMAIN q : q[i].type = "spawn" /\ q[i].session \in mounted
      /\ \A s \in mounted : \E i \in DOMAIN q : q[i].session = s
  BY <1>2, ReloadAsks
<1> HIDE DEF q
<1>4. /\ n \in Nat /\ l \in Nat /\ Len(r) = n + l /\ DOMAIN q = 1..l
      /\ \A i \in 1..(n + l) : r[i] = IF i <= n THEN toMain[i] ELSE q[i - n]
  BY <1>1, <1>2, <1>3, ConcatProperties, LenProperties
<1> HIDE DEF r, n, l
<1>5. \A i \in 1..n : i \in 1..(n + l) /\ r[i] = toMain[i] BY <1>4
<1>6. \A i \in 1..l : i + n \in (n + 1)..(n + l) /\ r[i + n] = q[i]
  <2> SUFFICES ASSUME NEW i \in 1..l PROVE i + n \in (n + 1)..(n + l) /\ r[i + n] = q[i] OBVIOUS
  <2>1. i + n \in 1..(n + l) /\ ~(i + n <= n) /\ (i + n) - n = i /\ i + n \in (n + 1)..(n + l) BY <1>4
  <2> QED BY <1>4, <2>1
<1>7. ASSUME NEW i \in 1..(n + l), ~(i \in 1..n)
      PROVE  r[i].type = "spawn" /\ r[i].session \in mounted
  <2>1. i - n \in 1..l /\ ~(i <= n) BY <1>4, <1>7
  <2>2. r[i] = q[i - n] BY <1>4, <2>1
  <2> QED BY <1>3, <1>4, <2>1, <2>2
<1>8. TabTypes' BY <1>1 DEF TabInv, TabTypes
<1>9. ASSUME NEW s \in mounted PROVE ~NoneFor(r, n + l, s) /\ ~KilledLast(r, n + l, s)
  <2>1. PICK k \in 1..l : q[k].session = s BY <1>3, <1>4
  <2>2. k + n \in (n + 1)..(n + l) /\ r[k + n].session = s BY <1>6, <2>1
  <2>3. ~NoneFor(r, n + l, s)
    <3>1. k + n \in 1..(n + l) BY <1>4
    <3> QED BY <2>2, <3>1 DEF NoneFor
  <2>4. ASSUME NEW i \in 1..(n + l), r[i] = Request("kill", s) PROVE \E j \in (i + 1)..(n + l) : r[j].session = s
    <3>1. r[i].type # "spawn" BY <2>4 DEF Request
    <3>2. i \in 1..n BY <1>7, <3>1
    <3>3. k + n \in (i + 1)..(n + l) BY <1>4, <3>2
    <3> QED BY <2>2, <3>3
  <2> QED BY <2>3, <2>4 DEF KilledLast
<1>10. ASSUME NEW s \in Sessions \ mounted PROVE Gone(r, n + l, s, localPtys[s])
  <2>1. CASE KilledLast(toMain, n, s)
    <3>1. PICK i \in 1..n : toMain[i] = Request("kill", s) /\ \A j \in (i + 1)..n : toMain[j].session # s
      BY <2>1 DEF KilledLast
    <3>2. ASSUME NEW j \in (i + 1)..(n + l) PROVE r[j].session # s
      <4>1. j \in 1..(n + l) /\ (j \in 1..n => j \in (i + 1)..n) BY <1>4
      <4>2. CASE j \in 1..n BY <1>5, <3>1, <4>1, <4>2
      <4>3. CASE ~(j \in 1..n) BY <1>7, <4>1, <4>3
      <4> QED BY <4>2, <4>3
    <3> QED BY <1>5, <3>1, <3>2 DEF KilledLast, Gone
  <2>2. CASE NoneFor(toMain, n, s) /\ localPtys[s] = None
    <3>1. ASSUME NEW j \in 1..(n + l) PROVE r[j].session # s
      <4>1. CASE j \in 1..n BY <1>5, <2>2, <4>1 DEF NoneFor
      <4>2. CASE ~(j \in 1..n) BY <1>7, <4>2
      <4> QED BY <4>1, <4>2
    <3> QED BY <2>2, <3>1 DEF NoneFor, Gone
  <2>3. Gone(toMain, n, s, localPtys[s]) BY DEF TabInv, Asked, n
  <2> QED BY <2>1, <2>2, <2>3 DEF Gone
<1>11. Asked' BY <1>1, <1>4, <1>9, <1>10 DEF Asked, r
<1>12. Reported'
  <2>1. \A s \in Sessions : ~Ended(s)' BY <1>1, <1>4, <1>9 DEF Ended, r
  <2> QED BY <1>1, <2>1 DEF Reported
<1> QED BY <1>8, <1>11, <1>12 DEF TabInv

\* Steps in which nothing is asked for or taken, and no PTY is spawned.
LEMMA SameRequests ==
  ASSUME TabInv, UNCHANGED <<toMain, mounted, reloaded>>,
         \A s \in Sessions : localPtys'[s] \in {None, localPtys[s]},
         toMain \in Seq(Requests)
  PROVE  Asked'
<1>1. \A n, s : s \in Sessions /\ Gone(toMain, n, s, localPtys[s]) => Gone(toMain, n, s, localPtys'[s])
  BY DEF Gone
<1>2. \A i \in DOMAIN toMain : toMain[i].session \in Sessions
  <2>1. \A i \in DOMAIN toMain : toMain[i] \in Requests BY ElementOfSeq, LenProperties
  <2> QED BY <2>1 DEF Requests
<1> QED BY <1>1, <1>2 DEF TabInv, Asked

LEMMA DeliverTab ==
  ASSUME IInv, TabInv, Deliver PROVE TabInv'
<1> USE DEF hist
<1> DEFINE m == Head(toWin)
<1>1. /\ toWin # <<>> /\ toWin' = Tail(toWin)
      /\ UNCHANGED <<localPtys, mounted, toMain, reloaded, failed>>
  BY DEF Deliver, mainVars
<1>2. toWin \in Seq(Messages) /\ toMain \in Seq(Requests) /\ mounted \subseteq Sessions BY DEF IInv, Types
<1>3. m \in Messages /\ m = toWin[1] /\ 1 \in DOMAIN toWin BY <1>1, <1>2
<1>4. m.session \in Sessions BY <1>3 DEF Messages
<1> HIDE DEF m
<1>5. \/ m.type = "output" /\ OnOutput(m.session)
      \/ m.type = "exit" /\ OnLocalExit(m.session)
      \/ m.type \in {"spawned", "reattached", "failed"} /\ OnReply(m)
  BY DEF Deliver, m
<1>6. TabTypes'
  <2>1. exitShown' \in [Sessions -> BOOLEAN]
    BY <1>5 DEF OnOutput, OnLocalExit, OnReply, TabInv, TabTypes
  <2>2. readyCalled' \in [Sessions -> BOOLEAN]
    BY <1>5 DEF OnOutput, OnLocalExit, OnReply, TabInv, TabTypes
  <2>3. loaded' \subseteq Sessions
    BY <1>4, <1>5 DEF OnOutput, OnLocalExit, OnReply, TabInv, TabTypes
  <2> QED BY <1>1, <2>1, <2>2, <2>3 DEF TabInv, TabTypes
<1>7. Asked' BY <1>1, <1>2, SameRequests
<1>8. \A s \in Sessions : Ended(s)' = Ended(s) BY <1>1 DEF Ended
<1>9. \A s \in Sessions : /\ exitShown[s] => exitShown'[s]
                          /\ m.type = "exit" /\ m.session = s /\ s \in mounted
                               => exitShown'[s] /\ s \notin loaded'
  BY <1>5 DEF OnOutput, OnLocalExit, OnReply, TabInv, TabTypes
<1>10. ASSUME NEW s \in Sessions, Ended(s) PROVE exitShown'[s] \/ failed \/ Exits(toWin', s)
  <2>1. exitShown[s] \/ failed \/ Exits(toWin, s) BY <1>10 DEF TabInv, Reported
  <2>2. s \in mounted BY <1>10 DEF Ended
  <2> QED BY <1>1, <1>2, <1>9, <2>1, <2>2, HeardLater DEF m
<1>11. ASSUME ~reloaded, ~failed
       PROVE  /\ loaded' \subseteq mounted
              /\ \A i \in DOMAIN toWin' : toWin'[i].type # "reattached"
              /\ \A s \in Sessions : Ended(s) => \/ ExitsLast(toWin', s)
                                                 \/ Silenced(toWin', s, 0) /\ s \notin loaded'
  <2>1. /\ loaded \subseteq mounted
        /\ \A i \in DOMAIN toWin : toWin[i].type # "reattached"
        /\ \A s \in Sessions : Ended(s) => \/ ExitsLast(toWin, s)
                                           \/ Silenced(toWin, s, 0) /\ s \notin loaded
    BY <1>11 DEF TabInv, Reported
  <2>2. m.type # "reattached" BY <1>3, <2>1
  <2>3. /\ loaded' \subseteq mounted
        /\ \A s : s \in loaded' => s \in loaded \/ (m.type = "output" /\ m.session = s)
    BY <1>5, <2>1, <2>2 DEF OnOutput, OnLocalExit, OnReply
  <2>4. \A i \in DOMAIN toWin' : toWin'[i].type # "reattached" BY <1>1, <1>2, <2>1
  <2>5. ASSUME NEW s \in Sessions, Ended(s)
        PROVE  ExitsLast(toWin', s) \/ (Silenced(toWin', s, 0) /\ s \notin loaded')
    <3>1. s \in mounted BY <2>5 DEF Ended
    <3>2. CASE ExitsLast(toWin, s)
      BY <1>1, <1>2, <1>9, <3>1, <3>2, HeardLater DEF m
    <3>3. CASE Silenced(toWin, s, 0) /\ s \notin loaded
      <4>1. ~(m.type = "output" /\ m.session = s) /\ Silenced(toWin', s, 0)
        BY <1>1, <1>2, <3>3, HeardLater DEF m
      <4> QED BY <2>3, <3>3, <4>1
    <3> QED BY <2>1, <2>5, <3>2, <3>3
  <2> QED BY <2>3, <2>4, <2>5
<1>12. Reported' BY <1>1, <1>8, <1>10, <1>11 DEF Reported
<1> QED BY <1>6, <1>7, <1>12 DEF TabInv

\* A request is taken: of every other session, what is asked for stays.
LEMMA TakenTab ==
  ASSUME IInv, TabInv, toMain # <<>>, toMain' = Tail(toMain), UNCHANGED <<mounted, reloaded>>,
         \A t \in Sessions : Head(toMain).session # t => localPtys'[t] = localPtys[t],
         \A t \in Sessions : Head(toMain) = Request("kill", t) => localPtys'[t] = None
  PROVE  /\ Asked'
         /\ \A t \in Sessions : Ended(t)' => Ended(t) \/ Head(toMain) = Request("spawn", t)
<1> DEFINE n == Len(toMain) - 1
           h == Head(toMain)
<1>1. toMain \in Seq(Requests) /\ mounted \subseteq Sessions BY DEF IInv, Types
<1>2. /\ n \in Nat /\ n + 1 = Len(toMain) /\ Len(toMain') = n /\ n \in 0..(Len(toMain) - 1)
      /\ DOMAIN toMain' = 1..n /\ DOMAIN toMain = 1..(n + 1)
      /\ \A i \in 1..n : toMain'[i] = toMain[i + 1]
  BY <1>1
<1>3. h \in Requests BY <1>1
<1>4. \A t : h.session = t => h = Request("kill", t) \/ h = Request("spawn", t)
  BY <1>3 DEF Request, Requests
<1>5. \A i \in DOMAIN toMain : toMain[i].session \in Sessions
  <2>1. \A i \in DOMAIN toMain : toMain[i] \in Requests BY <1>1, ElementOfSeq, LenProperties
  <2> QED BY <2>1 DEF Requests
<1> HIDE DEF n, h
<1>6. ASSUME NEW t \in Sessions, NEW k \in 0..(Len(toMain) - 1), Gone(toMain, k + 1, t, localPtys[t])
      PROVE  Gone(toMain', k, t, localPtys'[t])
  BY <1>1, <1>6, GoneLater
<1>7. \A t \in mounted : ~KilledLast(toMain', n, t)
  <2>1. \A t \in mounted : ~KilledLast(toMain, n + 1, t) BY <1>2 DEF TabInv, Asked
  <2> QED BY <1>1, <1>2, <2>1, AskedLater
<1>8. \A t \in Sessions \ mounted : Gone(toMain', n, t, localPtys'[t])
  <2>1. \A t \in Sessions \ mounted : Gone(toMain, n + 1, t, localPtys[t]) BY <1>2 DEF TabInv, Asked
  <2> QED BY <1>2, <1>6, <2>1
<1>9. ASSUME ~reloaded, NEW i \in DOMAIN toMain', toMain'[i].type = "spawn"
      PROVE  Gone(toMain', i - 1, toMain'[i].session, localPtys'[toMain'[i].session])
  <2>1. /\ i + 1 \in DOMAIN toMain /\ toMain'[i] = toMain[i + 1] /\ (i + 1) - 1 = i /\ (i - 1) + 1 = i
        /\ i - 1 \in 0..(Len(toMain) - 1)
    BY <1>2
  <2>2. toMain[i + 1].type = "spawn" BY <1>9, <2>1
  <2>3. Gone(toMain, (i + 1) - 1, toMain[i + 1].session, localPtys[toMain[i + 1].session])
    BY <1>9, <2>1, <2>2 DEF TabInv, Asked
  <2>4. Gone(toMain, (i - 1) + 1, toMain'[i].session, localPtys[toMain'[i].session]) BY <2>1, <2>3
  <2> QED BY <1>5, <1>6, <2>1, <2>4
<1>10. Asked' BY <1>2, <1>7, <1>8, <1>9 DEF Asked
<1>11. ASSUME NEW t \in Sessions, Ended(t)' PROVE Ended(t) \/ h = Request("spawn", t)
  <2>1. t \in mounted /\ NoneFor(toMain', n, t) /\ localPtys'[t] = None BY <1>2, <1>11 DEF Ended
  <2>2. h # Request("kill", t)
    <3>1. ~KilledLast(toMain, n + 1, t) BY <1>2, <2>1 DEF TabInv, Asked
    <3> QED BY <1>1, <1>2, <2>1, <3>1, AskedLater DEF h
  <2>3. CASE h.session # t
    <3>1. NoneFor(toMain, n + 1, t) BY <1>1, <1>2, <2>1, <2>3, AskedLater DEF h
    <3> QED BY <1>2, <2>1, <2>3, <3>1 DEF Ended, h
  <2> QED BY <1>4, <2>2, <2>3
<1> QED BY <1>10, <1>11 DEF h

\* A message that is added to what the window will hear.
LEMMA HeardTab ==
  ASSUME TabInv, NEW m \in Messages, toWin \in Seq(Messages), toWin' = Append(toWin, m),
         UNCHANGED <<winVars, reloaded>>, failed \/ failed' => failed',
         m.type = "reattached" => reloaded,
         m.type = "output" => ~Ended(m.session),
         \A t \in Sessions : Ended(t)' => Ended(t) \/ failed' \/ (m.type = "exit" /\ m.session = t)
  PROVE  Reported'
<1> USE DEF winVars
<1>1. ASSUME NEW t \in Sessions, Ended(t)' PROVE exitShown[t] \/ failed' \/ Exits(toWin', t)
  <2>1. Ended(t) => exitShown[t] \/ failed \/ Exits(toWin, t) BY DEF TabInv, Reported
  <2> QED BY <1>1, <2>1, HeardNow
<1>2. ASSUME ~reloaded, ~failed'
      PROVE  /\ loaded \subseteq mounted
             /\ \A i \in DOMAIN toWin' : toWin'[i].type # "reattached"
             /\ \A t \in Sessions : Ended(t)' => \/ ExitsLast(toWin', t)
                                                 \/ Silenced(toWin', t, 0) /\ t \notin loaded
  <2>1. /\ loaded \subseteq mounted
        /\ \A i \in DOMAIN toWin : toWin[i].type # "reattached"
        /\ \A t \in Sessions : Ended(t) => \/ ExitsLast(toWin, t)
                                           \/ Silenced(toWin, t, 0) /\ t \notin loaded
    BY <1>2 DEF TabInv, Reported
  <2>2. \A i \in DOMAIN toWin' : (i \in DOMAIN toWin /\ toWin'[i] = toWin[i]) \/ toWin'[i] = m
    OBVIOUS
  <2>3. \A i \in DOMAIN toWin' : toWin'[i].type # "reattached" BY <1>2, <2>1, <2>2
  <2>4. ASSUME NEW t \in Sessions, Ended(t)'
        PROVE  ExitsLast(toWin', t) \/ (Silenced(toWin', t, 0) /\ t \notin loaded)
    <3>1. CASE m.type = "exit" /\ m.session = t BY <3>1, HeardNow
    <3>2. CASE Ended(t)
      <4>1. ~(m.type = "output" /\ m.session = t) BY <3>2
      <4> QED BY <2>1, <3>2, <4>1, HeardNow
    <3> QED BY <1>2, <2>4, <3>1, <3>2
  <2> QED BY <2>1, <2>3, <2>4
<1> QED BY <1>1, <1>2 DEF Reported

LEMMA SpawnTab ==
  ASSUME IInv, TabInv, LocalPtySpawn PROVE TabInv'
<1> DEFINE s == Head(toMain).session
<1>1. /\ toMain # <<>> /\ Head(toMain).type = "spawn" /\ toMain' = Tail(toMain)
      /\ UNCHANGED <<winVars, reloaded>>
  BY DEF LocalPtySpawn
<1>2. s \in Sessions /\ toMain \in Seq(Requests) /\ toWin \in Seq(Messages)
  BY <1>1, TakeRequest DEF IInv, Types
<1>3. \A t : Head(toMain) # Request("kill", t) BY <1>1 DEF Request
<1>4. UNCHANGED <<mounted, loaded, exitShown, readyCalled>> BY <1>1 DEF winVars
<1>5. PICK m \in Messages :
        /\ toWin' = Append(toWin, m) /\ m.type \in {"reattached", "spawned", "failed"}
        /\ m.type = "reattached" => localPtys[s] # None
        /\ failed' = (failed \/ m.type = "failed")
        /\ localPtys'[s] # None \/ m.type = "failed"
        /\ \A t \in Sessions \ {s} : localPtys'[t] = localPtys[t]
  <2>1. CASE localPtys[s] # None /\ ToWin(Msg("reattached", s, localPtys[s])) /\ UNCHANGED <<mainVars, failed>>
    <3>1. /\ Msg("reattached", s, localPtys[s]) \in Messages
          /\ Msg("reattached", s, localPtys[s]).type = "reattached"
      BY <1>2 DEF Msg, Messages, WinTypes, IInv, Types
    <3>2. failed' = failed /\ failed \in BOOLEAN BY <2>1 DEF TabInv, TabTypes
    <3> QED BY <2>1, <3>1, <3>2 DEF ToWin, mainVars
  <2>2. CASE localPtys[s] = None /\ Spawned(s)
    <3>1. PICK p \in Ptys : /\ localPtys' = [localPtys EXCEPT ![s] = p]
                            /\ ToWin(Msg("spawned", s, p)) /\ failed' = failed
      BY <2>2 DEF Spawned
    <3>2. Msg("spawned", s, p) \in Messages /\ Msg("spawned", s, p).type = "spawned"
      BY <1>2 DEF Msg, Messages, WinTypes
    <3>3. localPtys'[s] # None /\ \A t \in Sessions \ {s} : localPtys'[t] = localPtys[t]
      BY <1>2, <3>1, LocalAssumption DEF IInv, Types
    <3>4. failed \in BOOLEAN BY DEF TabInv, TabTypes
    <3> QED BY <3>1, <3>2, <3>3, <3>4 DEF ToWin
  <2>3. CASE localPtys[s] = None /\ Unspawned(s)
    <3>1. Msg("failed", s, None) \in Messages /\ Msg("failed", s, None).type = "failed"
      BY <1>2 DEF Msg, Messages, WinTypes
    <3> QED BY <2>3, <3>1 DEF Unspawned, ToWin, mainVars
  <2> QED BY <2>1, <2>2, <2>3 DEF LocalPtySpawn
<1>6. /\ Asked'
      /\ \A t \in Sessions : Ended(t)' => Ended(t) \/ Head(toMain) = Request("spawn", t)
  BY <1>1, <1>3, <1>4, <1>5, TakenTab
<1>7. TabTypes' BY <1>1, <1>4, <1>5 DEF TabInv, TabTypes
<1>8. ASSUME ~reloaded PROVE localPtys[s] = None
  <2>1. 1 \in DOMAIN toMain /\ toMain[1] = Head(toMain) BY <1>1, <1>2
  <2>2. Gone(toMain, 1 - 1, s, localPtys[s]) BY <1>1, <1>8, <2>1 DEF TabInv, Asked
  <2> QED BY <2>2 DEF Gone, KilledLast
<1>9. \A t \in Sessions : Head(toMain) = Request("spawn", t) => t = s BY DEF Request
<1>10. \A t \in Sessions : Ended(t)' => Ended(t) \/ failed'
  <2>1. ASSUME NEW t \in Sessions, Ended(t)', ~Ended(t) PROVE failed'
    <3>1. t = s /\ localPtys'[s] = None BY <1>6, <1>9, <2>1 DEF Ended
    <3> QED BY <1>5, <3>1
  <2> QED BY <2>1
<1> HIDE DEF s
<1>11. Reported' BY <1>1, <1>2, <1>5, <1>8, <1>10, HeardTab
<1> QED BY <1>6, <1>7, <1>11 DEF TabInv

LEMMA KillTab ==
  ASSUME IInv, TabInv, LocalPtyKill PROVE TabInv'
<1> DEFINE s == Head(toMain).session
<1>1. /\ toMain # <<>> /\ Head(toMain).type = "kill" /\ toMain' = Tail(toMain)
      /\ UNCHANGED <<mounted, loaded, exitShown, readyCalled, toWin, reloaded, failed>>
  BY DEF LocalPtyKill, winVars, hist
<1>2. s \in Sessions BY <1>1, TakeRequest
<1>3. localPtys'[s] = None /\ \A t \in Sessions \ {s} : localPtys'[t] = localPtys[t]
  BY <1>2 DEF LocalPtyKill, IInv, Types
<1>4. \A t : Head(toMain) # Request("spawn", t) BY <1>1 DEF Request
<1>5. \A t : Head(toMain) = Request("kill", t) => t = s BY DEF Request
<1>6. /\ Asked'
      /\ \A t \in Sessions : Ended(t)' => Ended(t) \/ Head(toMain) = Request("spawn", t)
  BY <1>1, <1>3, <1>5, TakenTab
<1>7. TabTypes' BY <1>1 DEF TabInv, TabTypes
<1>8. Reported' BY <1>1, <1>4, <1>6 DEF TabInv, Reported
<1> QED BY <1>6, <1>7, <1>8 DEF TabInv

LEMMA PtyTab ==
  ASSUME IInv, TabInv, NEW p \in Ptys, OnData(p) \/ OnExit(p) PROVE TabInv'
<1> DEFINE s == ptyFor[p]
<1>1. /\ s \in Sessions /\ UNCHANGED <<toMain, mounted, loaded, exitShown, readyCalled, reloaded, failed>>
      /\ UNCHANGED winVars
  BY DEF OnData, OnExit, IInv, Held, winVars, hist
<1>2. toMain \in Seq(Requests) /\ toWin \in Seq(Messages) BY DEF IInv, Types
<1>3. TabTypes' BY <1>1 DEF TabInv, TabTypes
<1>4. CASE OnData(p)
  <2> DEFINE m == Msg("output", s, p)
  <2>1. m \in Messages /\ m.type = "output" /\ m.session = s BY <1>1 DEF Msg, Messages, WinTypes
  <2>2. toWin' = Append(toWin, m) /\ localPtys' = localPtys /\ localPtys[s] = p
    BY <1>4 DEF OnData, ToWin, mainVars
  <2> HIDE DEF m
  <2>3. ~Ended(s) BY <2>2, LocalAssumption DEF Ended
  <2>4. \A t \in Sessions : Ended(t)' = Ended(t) BY <1>1, <2>2 DEF Ended
  <2>5. Asked' BY <1>1, <1>2, <2>2, SameRequests
  <2>6. Reported' BY <1>1, <1>2, <2>1, <2>2, <2>3, <2>4, HeardTab
  <2> QED BY <1>3, <2>5, <2>6 DEF TabInv
<1>5. CASE OnExit(p) /\ localPtys[s] = p
  <2> DEFINE m == Msg("exit", s, p)
  <2>1. m \in Messages /\ m.type = "exit" /\ m.session = s BY <1>1 DEF Msg, Messages, WinTypes
  <2>2. toWin' = Append(toWin, m) /\ localPtys' = [localPtys EXCEPT ![s] = None]
    BY <1>5 DEF OnExit, ToWin
  <2> HIDE DEF m
  <2>3. \A t \in Sessions : localPtys'[t] = IF t = s THEN None ELSE localPtys[t]
    BY <1>1, <2>2 DEF IInv, Types
  <2>4. \A t \in Sessions : Ended(t)' => Ended(t) \/ t = s BY <1>1, <2>3 DEF Ended
  <2>5. Asked' BY <1>1, <1>2, <2>3, SameRequests
  <2>6. Reported' BY <1>1, <1>2, <2>1, <2>2, <2>4, HeardTab
  <2> QED BY <1>3, <2>5, <2>6 DEF TabInv
<1>6. CASE OnExit(p) /\ localPtys[s] # p
  <2>1. UNCHANGED <<localPtys, toWin>> BY <1>6 DEF OnExit
  <2>2. \A t \in Sessions : Ended(t)' = Ended(t) BY <1>1, <2>1 DEF Ended
  <2>3. Asked' BY <1>1, <1>2, <2>1, SameRequests
  <2>4. Reported' BY <1>1, <2>1, <2>2 DEF TabInv, Reported
  <2> QED BY <1>3, <2>3, <2>4 DEF TabInv
<1> QED BY <1>4, <1>5, <1>6

LEMMA TabInvStep == IInv /\ TabInv /\ [Next]_vars => TabInv'
<1> SUFFICES ASSUME IInv, TabInv, [Next]_vars PROVE TabInv' OBVIOUS
<1>1. CASE UNCHANGED vars
  <2>1. UNCHANGED <<localPtys, toMain, toWin, mounted, loaded, exitShown, readyCalled, reloaded, failed>>
    BY <1>1 DEF vars, mainVars, winVars, hist
  <2>2. \A s \in Sessions : Ended(s)' = Ended(s) BY <2>1 DEF Ended
  <2> QED BY <2>1, <2>2 DEF TabInv, TabTypes, Asked, Reported
<1> QED BY <1>1, MountTab, UnmountTab, ReloadTab, DeliverTab, SpawnTab, KillTab, PtyTab DEF Next

\* What tabs call for, what is asked for, and what is reported, agree.
THEOREM TabInvariance == Spec => []TabInv
<1>1. Init => TabInv BY TabStarts
<1>2. IInv /\ TabInv /\ [Next]_vars => TabInv' BY TabInvStep
<1> QED BY <1>1, <1>2, Invariance, PTL DEF Spec

\* Once the messages have arrived an open tab has a process or says why not, and a session
\* without a tab keeps none (useTerminal.ts:83, 93-119, 196-210).
THEOREM ProcessPerTabHolds == Spec => []ProcessPerTab
<1>1. IInv /\ TabInv => ProcessPerTab
  <2> SUFFICES ASSUME IInv, TabInv, toMain = <<>>, toWin = <<>>, NEW s \in Sessions
               PROVE  /\ s \in mounted /\ localPtys[s] = None => exitShown[s] \/ failed
                      /\ s \notin mounted => localPtys[s] = None
                      /\ s \in loaded /\ localPtys[s] = None => reloaded \/ failed
    BY DEF ProcessPerTab, Settled
  <2>1. /\ Len(toMain) = 0 /\ \A t : NoneFor(toMain, 0, t) /\ ~KilledLast(toMain, 0, t)
        /\ ~Exits(toWin, s) /\ ~ExitsLast(toWin, s)
    BY DEF NoneFor, KilledLast, Exits, ExitsLast
  <2>2. s \notin mounted => localPtys[s] = None BY <2>1 DEF TabInv, Asked, Gone
  <2>3. s \in mounted /\ localPtys[s] = None => Ended(s) BY <2>1 DEF Ended
  <2>4. s \in mounted /\ localPtys[s] = None => exitShown[s] \/ failed
    BY <2>1, <2>3 DEF TabInv, Reported
  <2>5. s \in loaded /\ localPtys[s] = None => reloaded \/ failed
    BY <2>1, <2>3 DEF TabInv, Reported
  <2> QED BY <2>2, <2>4, <2>5
<1> QED BY <1>1, Invariance, TabInvariance, PTL

\* The types of the module's variables.
THEOREM TypeCorrect == Spec => []TypeOK
<1>1. IInv /\ TabInv => TypeOK
  <2> SUFFICES ASSUME IInv, TabInv PROVE TypeOK OBVIOUS
  <2>1. ToSet(toMain) \subseteq Requests /\ ToSet(toWin) \subseteq Messages
    BY LenProperties, ElementOfSeq DEF IInv, Types, ToSet
  <2> QED BY <2>1 DEF TypeOK, IInv, Types, Held, TabInv, TabTypes, Requests, Messages
<1> QED BY <1>1, Invariance, TabInvariance, PTL

-----------------------------------------------------------------------------
(* Session list: least elements, and what filter() picks.                  *)

\* Every set of natural numbers has a least element.
LEMMA LeastNatural ==
  ASSUME NEW T, T \subseteq Nat, T # {}
  PROVE  Min(T) \in T /\ \A y \in T : Min(T) <= y
<1> DEFINE R == OpToRel(<, Nat)
<1>1. IsWellFoundedOn(R, Nat) BY NatLessThanWellFounded
<1>2. \A x, y \in Nat : <<y, x>> \in R <=> y < x BY Zenon DEF OpToRel
<1> HIDE DEF R
<1>3. PICK x \in T : \A y \in T : ~(<<y, x>> \in R) BY <1>1, WFMin
<1>4. \A y \in T : ~(y < x) BY <1>2, <1>3
<1>5. \A y \in T : x <= y BY <1>4
<1> QED BY <1>5 DEF Min

\* The ranks of the elements of I are 1 to their number, each once.
Rank(I, i) == Cardinality({j \in I : j <= i})

LEMMA Ranks ==
  ASSUME NEW n \in Nat, NEW I, I \subseteq 1..n
  PROVE  /\ IsFiniteSet(I) /\ Cardinality(I) \in Nat
         /\ \A i \in I : Rank(I, i) \in 1..Cardinality(I)
         /\ \A i, j \in I : Rank(I, i) = Rank(I, j) => i = j
         /\ \A k \in 1..Cardinality(I) : \E i \in I : Rank(I, i) = k
<1>1. IsFiniteSet(I) /\ Cardinality(I) \in Nat
  <2>1. IsFiniteSet(1..n) BY FS_Interval
  <2>2. I \in SUBSET (1..n) OBVIOUS
  <2>3. IsFiniteSet(I) BY <2>1, <2>2, FS_Subset
  <2> QED BY <2>3, FS_CardinalityType
<1> DEFINE m == Cardinality(I)
<1>2. ASSUME NEW i \in I PROVE Rank(I, i) \in 1..m
  <2> DEFINE T == {j \in I : j <= i}
  <2>1. T \in SUBSET I /\ i \in T OBVIOUS
  <2> HIDE DEF T
  <2>2. IsFiniteSet(T) /\ Cardinality(T) <= m BY <1>1, <2>1, FS_Subset
  <2>3. Cardinality(T) \in Nat /\ Cardinality(T) # 0
    BY <2>1, <2>2, FS_CardinalityType, FS_EmptySet
  <2>4. Cardinality(T) \in 1..m BY <1>1, <2>2, <2>3
  <2> QED BY <2>4 DEF T, Rank
<1>3. ASSUME NEW i \in I, NEW j \in I, i < j PROVE Rank(I, i) # Rank(I, j)
  <2> DEFINE T == {k \in I : k <= i}
             U == {k \in I : k <= j}
  <2>1. i \in Nat /\ j \in Nat /\ \A k \in I : k \in Nat OBVIOUS
  <2>a. \A k \in I : k <= i => k <= j BY <1>3, <2>1
  <2>b. j <= j /\ ~(j <= i) BY <1>3, <2>1
  <2>c. U \in SUBSET I /\ T \in SUBSET U /\ j \in U /\ j \notin T BY <2>a, <2>b
  <2> HIDE DEF T, U
  <2>2. IsFiniteSet(U) BY <1>1, <2>c, FS_Subset
  <2>3. Cardinality(U) # Cardinality(T) BY <2>c, <2>2, FS_Subset
  <2> QED BY <2>3 DEF T, U, Rank
<1>4. \A i, j \in I : Rank(I, i) = Rank(I, j) => i = j
  <2>1. \A i, j \in I : i = j \/ i < j \/ j < i OBVIOUS
  <2> QED BY <1>3, <2>1
<1> DEFINE f == [i \in I |-> Rank(I, i)]
<1>5. f \in Injection(I, 1..m) BY <1>2, <1>4 DEF Injection, IsInjective
<1> HIDE DEF f
<1>6. IsFiniteSet(1..m) /\ Cardinality(1..m) = m BY <1>1, FS_Interval
<1>7. f \in Surjection(I, 1..m) BY <1>5, <1>6, FS_Injection
<1>8. \A k \in 1..m : \E i \in I : f[i] = k BY <1>7 DEF Surjection
<1>9. \A k \in 1..m : \E i \in I : Rank(I, i) = k BY <1>8 DEF f
<1> QED BY <1>1, <1>2, <1>4, <1>9

\* Nth goes through I, so what filter() returns is the elements at I, each once.
LEMMA NthPicks ==
  ASSUME NEW n \in Nat, NEW I, I \subseteq 1..n
  PROVE  /\ Cardinality(I) \in Nat
         /\ \A k \in 1..Cardinality(I) : Nth(I, k) \in I
         /\ \A k, l \in 1..Cardinality(I) : Nth(I, k) = Nth(I, l) => k = l
         /\ \A i \in I : \E k \in 1..Cardinality(I) : Nth(I, k) = i
<1> DEFINE m == Cardinality(I)
<1>1. /\ m \in Nat
      /\ \A i \in I : Rank(I, i) \in 1..m
      /\ \A i, j \in I : Rank(I, i) = Rank(I, j) => i = j
      /\ \A k \in 1..m : \E i \in I : Rank(I, i) = k
  BY Ranks
<1>2. \A k : Nth(I, k) = CHOOSE i \in I : Rank(I, i) = k BY Zenon DEF Nth, Rank
<1> HIDE DEF m
<1>3. \A k \in 1..m : Nth(I, k) \in I /\ Rank(I, Nth(I, k)) = k BY <1>1, <1>2
<1>4. ASSUME NEW i \in I PROVE Nth(I, Rank(I, i)) = i
  <2> DEFINE k == Rank(I, i)
  <2>1. k \in 1..m BY <1>1
  <2> HIDE DEF k
  <2>2. Nth(I, k) \in I /\ Rank(I, Nth(I, k)) = Rank(I, i) BY <1>3, <2>1 DEF k
  <2>3. Nth(I, k) = i BY <1>1, <2>2
  <2> QED BY <2>3 DEF k
<1>5. \A k, l \in 1..m : Nth(I, k) = Nth(I, l) => k = l BY <1>3
<1>6. \A i \in I : \E k \in 1..m : Nth(I, k) = i BY <1>1, <1>4
<1> QED BY <1>1, <1>3, <1>5, <1>6 DEF m

LEMMA FilterProperties ==
  ASSUME NEW S, NEW list \in Seq(S), NEW I, I \subseteq DOMAIN list
  PROVE  /\ Filter(list, I) \in Seq(S)
         /\ \A k \in DOMAIN Filter(list, I) : \E i \in I : Filter(list, I)[k] = list[i]
         /\ \A i \in I : \E k \in DOMAIN Filter(list, I) : Filter(list, I)[k] = list[i]
         /\ \A k, l \in DOMAIN Filter(list, I) :
              k # l => \E i, j \in I : /\ i # j
                                       /\ Filter(list, I)[k] = list[i]
                                       /\ Filter(list, I)[l] = list[j]
<1> DEFINE m == Cardinality(I)
           r == Filter(list, I)
<1>1. Len(list) \in Nat /\ DOMAIN list = 1..Len(list) /\ \A i \in DOMAIN list : list[i] \in S
  BY LenProperties, ElementOfSeq
<1>2. /\ m \in Nat
      /\ \A k \in 1..m : Nth(I, k) \in I
      /\ \A k, l \in 1..m : Nth(I, k) = Nth(I, l) => k = l
      /\ \A i \in I : \E k \in 1..m : Nth(I, k) = i
  BY <1>1, NthPicks
<1> HIDE DEF m
<1>3. DOMAIN r = 1..m /\ \A k \in 1..m : r[k] = list[Nth(I, k)] BY DEF Filter, m
<1>4. r \in [1..m -> S] BY <1>1, <1>2 DEF Filter, m
<1> HIDE DEF r
<1>5. r \in Seq(S) BY <1>2, <1>4, SeqDef
<1>6. \A k \in DOMAIN r : \E i \in I : r[k] = list[i] BY <1>2, <1>3
<1>7. \A i \in I : \E k \in DOMAIN r : r[k] = list[i] BY <1>2, <1>3
<1>8. \A k, l \in DOMAIN r : k # l => \E i, j \in I : i # j /\ r[k] = list[i] /\ r[l] = list[j]
  BY <1>2, <1>3
<1> QED BY <1>5, <1>6, <1>7, <1>8 DEF r

-----------------------------------------------------------------------------
EntryType == [id : Ids, status : {"running", "offline"}, name : {"first", "second"}]
CallType == [op : {"none", "poll", "create", "delete", "rename"},
             stage : {"sent", "answered", "failed"},
             id : Ids \cup {NoSession}, data : Seq(EntryType)]

Busy(c) == call[c].op # "none"
Created(c) == call[c].op = "create" /\ call[c].stage = "answered"

StoreTypes ==
  /\ server \in Seq(EntryType) /\ sessions \in Seq(EntryType) /\ tabs \in Seq(Ids)
  /\ active \in Ids \cup {NoSession}
  /\ call \in [Slots -> CallType]
  /\ \A c \in Slots : Created(c) => call[c].data # <<>>
  /\ ids \subseteq Ids /\ overlapped \in BOOLEAN /\ marked \in BOOLEAN

\* Whatever id is anywhere was given out.
Known ==
  /\ local \subseteq ids /\ ToSet(tabs) \subseteq ids
  /\ \A e \in ToSet(server) \cup ToSet(sessions) : e.id \in ids
  /\ \A c \in Slots : \A e \in ToSet(call[c].data) : e.id \in ids

Distinct(list) == \A i, j \in DOMAIN list : list[i].id = list[j].id => i = j
OnServer(list) == \A e \in ToSet(list) : e.status = "running" /\ e.id \notin local

\* Unless the server marks sessions, what is offline in the list was made by the window.
Apart ==
  /\ Distinct(server) /\ OnServer(server) /\ Distinct(sessions)
  /\ \A c \in Slots : Distinct(call[c].data) /\ OnServer(call[c].data)
  /\ \A e \in ToSet(sessions) : e.status = "offline" => e.id \in local

\* While calls do not overlap, the one that created a session has not been overtaken by a
\* poll that lists it.
Once ==
  ~overlapped =>
    /\ \A c, d \in Slots : Busy(c) /\ Busy(d) => c = d
    /\ \A c \in Slots : Created(c) => /\ call[c].data[1].id \notin ToSet(tabs)
                                      /\ \A e \in ToSet(sessions) : e.id # call[c].data[1].id
    /\ IsInjective(tabs)
    /\ ~marked => Apart

StoreInv == StoreTypes /\ Known /\ ActiveIsOpen /\ LocalSurvives /\ Once

-----------------------------------------------------------------------------
(* What the operators on lists do to the entries and to their ids.         *)

LEMMA Entries ==
  ASSUME NEW S, NEW list \in Seq(S)
  PROVE  /\ ToSet(list) \subseteq S
         /\ DOMAIN list = 1..Len(list) /\ Len(list) \in Nat
         /\ \A i \in DOMAIN list : list[i] \in ToSet(list)
         /\ \A e \in ToSet(list) : \E i \in DOMAIN list : list[i] = e
         /\ \A e : Contains(list, e) <=> e \in ToSet(list)
BY LenProperties, ElementOfSeq DEF ToSet, Contains

LEMMA ListedIds == ASSUME NEW list PROVE IdsOf(list) = {e.id : e \in ToSet(list)}
BY DEF IdsOf, ToSet

LEMMA OfflineEntries ==
  ASSUME NEW list \in Seq(EntryType)
  PROVE  /\ Offline(list) \in Seq(EntryType)
         /\ ToSet(Offline(list)) = {e \in ToSet(list) : e.status = "offline"}
         /\ Distinct(list) => Distinct(Offline(list))
<1> DEFINE I == {i \in DOMAIN list : list[i].status = "offline"}
           r == Filter(list, I)
<1>1. /\ r \in Seq(EntryType)
      /\ \A k \in DOMAIN r : \E i \in I : r[k] = list[i]
      /\ \A i \in I : \E k \in DOMAIN r : r[k] = list[i]
      /\ \A k, l \in DOMAIN r : k # l => \E i, j \in I : i # j /\ r[k] = list[i] /\ r[l] = list[j]
  <2>1. I \subseteq DOMAIN list OBVIOUS
  <2> HIDE DEF I
  <2> QED BY <2>1, FilterProperties
<1> HIDE DEF r
<1>2. ToSet(r) = {e \in ToSet(list) : e.status = "offline"} BY <1>1 DEF ToSet
<1>3. I \subseteq DOMAIN list OBVIOUS
<1> HIDE DEF I
<1>4. Distinct(list) => Distinct(r)
  <2> SUFFICES ASSUME Distinct(list), NEW k \in DOMAIN r, NEW l \in DOMAIN r, k # l
               PROVE  r[k].id # r[l].id
    BY DEF Distinct
  <2>1. PICK i, j \in I : i # j /\ r[k] = list[i] /\ r[l] = list[j] BY <1>1
  <2> QED BY <1>3, <2>1 DEF Distinct
<1> QED BY <1>1, <1>2, <1>4 DEF r, I, Offline

LEMMA WithoutEntries ==
  ASSUME NEW list \in Seq(EntryType), NEW id
  PROVE  /\ Without(list, id) \in Seq(EntryType)
         /\ ToSet(Without(list, id)) = {e \in ToSet(list) : e.id # id}
         /\ Distinct(list) => Distinct(Without(list, id))
<1> DEFINE I == {i \in DOMAIN list : list[i].id # id}
           r == Filter(list, I)
<1>1. /\ r \in Seq(EntryType)
      /\ \A k \in DOMAIN r : \E i \in I : r[k] = list[i]
      /\ \A i \in I : \E k \in DOMAIN r : r[k] = list[i]
      /\ \A k, l \in DOMAIN r : k # l => \E i, j \in I : i # j /\ r[k] = list[i] /\ r[l] = list[j]
  <2>1. I \subseteq DOMAIN list OBVIOUS
  <2> HIDE DEF I
  <2> QED BY <2>1, FilterProperties
<1> HIDE DEF r
<1>2. ToSet(r) = {e \in ToSet(list) : e.id # id} BY <1>1 DEF ToSet
<1>3. I \subseteq DOMAIN list OBVIOUS
<1> HIDE DEF I
<1>4. Distinct(list) => Distinct(r)
  <2> SUFFICES ASSUME Distinct(list), NEW k \in DOMAIN r, NEW l \in DOMAIN r, k # l
               PROVE  r[k].id # r[l].id
    BY DEF Distinct
  <2>1. PICK i, j \in I : i # j /\ r[k] = list[i] /\ r[l] = list[j] BY <1>1
  <2> QED BY <1>3, <2>1 DEF Distinct
<1> QED BY <1>1, <1>2, <1>4 DEF r, I, Without

\* Tabs that are filtered by a property of their ids.
LEMMA TabsFiltered ==
  ASSUME NEW t \in Seq(Ids), NEW K
  PROVE  LET r == Filter(t, {i \in DOMAIN t : t[i] \in K}) IN
           /\ r \in Seq(Ids) /\ ToSet(r) = ToSet(t) \cap K
           /\ IsInjective(t) => IsInjective(r)
<1> DEFINE I == {i \in DOMAIN t : t[i] \in K}
           r == Filter(t, I)
<1>1. I \subseteq DOMAIN t /\ \A i \in DOMAIN t : i \in I <=> t[i] \in K OBVIOUS
<1> HIDE DEF I
<1>2. /\ r \in Seq(Ids)
      /\ \A k \in DOMAIN r : \E i \in I : r[k] = t[i]
      /\ \A i \in I : \E k \in DOMAIN r : r[k] = t[i]
      /\ \A k, l \in DOMAIN r : k # l => \E i, j \in I : i # j /\ r[k] = t[i] /\ r[l] = t[j]
  BY <1>1, FilterProperties
<1> HIDE DEF r
<1>3. ToSet(r) = ToSet(t) \cap K BY <1>1, <1>2 DEF ToSet
<1>4. ASSUME IsInjective(t), NEW k \in DOMAIN r, NEW l \in DOMAIN r, k # l PROVE r[k] # r[l]
  <2>1. PICK i, j \in I : i # j /\ r[k] = t[i] /\ r[l] = t[j] BY <1>2, <1>4
  <2> QED BY <1>1, <1>4, <2>1 DEF IsInjective
<1>5. IsInjective(t) => IsInjective(r) BY <1>4 DEF IsInjective
<1> QED BY <1>2, <1>3, <1>5 DEF r, I

LEMMA OtherTabsProperties ==
  ASSUME tabs \in Seq(Ids), NEW id
  PROVE  /\ OtherTabs(id) \in Seq(Ids) /\ ToSet(OtherTabs(id)) = ToSet(tabs) \ {id}
         /\ IsInjective(tabs) => IsInjective(OtherTabs(id))
<1> DEFINE K == Ids \ {id}
           r == OtherTabs(id)
           f == Filter(tabs, {i \in DOMAIN tabs : tabs[i] \in K})
<1>1. {i \in DOMAIN tabs : tabs[i] # id} = {i \in DOMAIN tabs : tabs[i] \in K} BY Entries
<1>2. r = f BY <1>1 DEF OtherTabs
<1>3. ToSet(tabs) \cap K = ToSet(tabs) \ {id} BY Entries
<1>4. f \in Seq(Ids) /\ ToSet(f) = ToSet(tabs) \cap K /\ (IsInjective(tabs) => IsInjective(f))
  <2> HIDE DEF K
  <2> QED BY TabsFiltered
<1> HIDE DEF f, r
<1> QED BY <1>2, <1>3, <1>4 DEF r

LEMMA ListedTabsProperties ==
  ASSUME tabs \in Seq(Ids), NEW list
  PROVE  /\ ListedTabs(list) \in Seq(Ids) /\ ToSet(ListedTabs(list)) = ToSet(tabs) \cap IdsOf(list)
         /\ IsInjective(tabs) => IsInjective(ListedTabs(list))
BY TabsFiltered DEF ListedTabs

LEMMA Joined ==
  ASSUME NEW a \in Seq(EntryType), NEW b \in Seq(EntryType)
  PROVE  /\ a \o b \in Seq(EntryType) /\ ToSet(a \o b) = ToSet(a) \cup ToSet(b)
         /\ Distinct(a) /\ Distinct(b) /\ (\A e \in ToSet(a), f \in ToSet(b) : e.id # f.id)
              => Distinct(a \o b)
<1> DEFINE r == a \o b
<1>1. /\ r \in Seq(EntryType) /\ Len(r) = Len(a) + Len(b)
      /\ \A i \in 1..Len(a) + Len(b) : r[i] = IF i <= Len(a) THEN a[i] ELSE b[i - Len(a)]
  BY ConcatProperties
<1>2. /\ Len(a) \in Nat /\ Len(b) \in Nat /\ DOMAIN a = 1..Len(a) /\ DOMAIN b = 1..Len(b)
      /\ DOMAIN r = 1..Len(r)
  BY <1>1, LenProperties
<1> HIDE DEF r
<1>3. ASSUME NEW i \in DOMAIN r
      PROVE  \/ i \in DOMAIN a /\ r[i] = a[i]
             \/ i - Len(a) \in DOMAIN b /\ r[i] = b[i - Len(a)]
  BY <1>1, <1>2
<1>4. \A i \in DOMAIN a : i \in DOMAIN r /\ r[i] = a[i] BY <1>1, <1>2
<1>5. ASSUME NEW j \in DOMAIN b PROVE j + Len(a) \in DOMAIN r /\ r[j + Len(a)] = b[j]
  <2>1. j \in Nat /\ j > 0 /\ j <= Len(b) BY <1>2
  <2>2. (j + Len(a)) - Len(a) = j /\ ~(j + Len(a) <= Len(a)) /\ j + Len(a) \in 1..Len(a) + Len(b)
    BY <1>2, <2>1
  <2> QED BY <1>1, <1>2, <2>2
<1>6. ToSet(r) = ToSet(a) \cup ToSet(b)
  <2>1. ToSet(r) \subseteq ToSet(a) \cup ToSet(b) BY <1>3 DEF ToSet
  <2>2. ToSet(a) \subseteq ToSet(r) BY <1>4 DEF ToSet
  <2>3. ToSet(b) \subseteq ToSet(r) BY <1>5 DEF ToSet
  <2> QED BY <2>1, <2>2, <2>3
<1>7. ASSUME Distinct(a), Distinct(b), \A e \in ToSet(a), f \in ToSet(b) : e.id # f.id,
             NEW i \in DOMAIN r, NEW j \in DOMAIN r, r[i].id = r[j].id
      PROVE  i = j
  <2>1. CASE i \in DOMAIN a /\ r[i] = a[i] /\ j \in DOMAIN a /\ r[j] = a[j]
    BY <1>7, <2>1 DEF Distinct
  <2>2. CASE /\ i - Len(a) \in DOMAIN b /\ r[i] = b[i - Len(a)]
             /\ j - Len(a) \in DOMAIN b /\ r[j] = b[j - Len(a)]
    <3>1. i - Len(a) = j - Len(a) BY <1>7, <2>2 DEF Distinct
    <3> QED BY <1>2, <3>1
  <2>3. \A k \in DOMAIN a, l \in DOMAIN b : a[k].id # b[l].id BY <1>7 DEF ToSet
  <2> QED BY <1>3, <1>7, <2>1, <2>2, <2>3
<1>8. Distinct(a) /\ Distinct(b) /\ (\A e \in ToSet(a), f \in ToSet(b) : e.id # f.id) => Distinct(r)
  BY <1>7 DEF Distinct
<1> QED BY <1>1, <1>6, <1>8 DEF r

LEMMA Single ==
  ASSUME NEW e \in EntryType
  PROVE  <<e>> \in Seq(EntryType) /\ ToSet(<<e>>) = {e} /\ Distinct(<<e>>) /\ <<e>> # <<>> /\ <<e>>[1] = e
BY DEF ToSet, Distinct

LEMMA RenamedEntries ==
  ASSUME NEW list \in Seq(EntryType), NEW id
  PROVE  /\ Renamed(list, id) \in Seq(EntryType)
         /\ \A e \in ToSet(Renamed(list, id)) :
              \E f \in ToSet(list) : f.id = e.id /\ f.status = e.status
         /\ \A f \in ToSet(list) :
              \E e \in ToSet(Renamed(list, id)) : f.id = e.id /\ f.status = e.status
         /\ Distinct(list) => Distinct(Renamed(list, id))
<1> DEFINE r == Renamed(list, id)
<1>1. Len(list) \in Nat /\ DOMAIN list = 1..Len(list) /\ \A i \in DOMAIN list : list[i] \in EntryType
  BY LenProperties, ElementOfSeq
<1>2. DOMAIN r = DOMAIN list BY DEF Renamed
<1>3. ASSUME NEW i \in DOMAIN list
      PROVE  r[i] \in EntryType /\ r[i].id = list[i].id /\ r[i].status = list[i].status
  <2>1. r[i] = IF list[i].id = id THEN [list[i] EXCEPT !.name = "second"] ELSE list[i] BY DEF Renamed
  <2> HIDE DEF r
  <2> QED BY <1>1, <2>1 DEF EntryType
<1>4. r \in [1..Len(list) -> EntryType]
  <2>1. r = [i \in 1..Len(list) |-> r[i]] BY <1>1 DEF Renamed
  <2> HIDE DEF r
  <2> QED BY <1>1, <1>3, <2>1
<1> HIDE DEF r
<1>5. r \in Seq(EntryType) BY <1>1, <1>4, SeqDef
<1>6. \A e \in ToSet(r) : \E f \in ToSet(list) : f.id = e.id /\ f.status = e.status
  BY <1>2, <1>3 DEF ToSet
<1>7. \A f \in ToSet(list) : \E e \in ToSet(r) : f.id = e.id /\ f.status = e.status
  BY <1>2, <1>3 DEF ToSet
<1>8. Distinct(list) => Distinct(r) BY <1>2, <1>3 DEF Distinct
<1> QED BY <1>5, <1>6, <1>7, <1>8 DEF r

LEMMA TabAdded ==
  ASSUME NEW t \in Seq(Ids), NEW id \in Ids
  PROVE  /\ Append(t, id) \in Seq(Ids) /\ ToSet(Append(t, id)) = ToSet(t) \cup {id}
         /\ IsInjective(t) /\ id \notin ToSet(t) => IsInjective(Append(t, id))
<1> DEFINE r == Append(t, id)
<1>1. /\ r \in Seq(Ids) /\ Len(r) = Len(t) + 1 /\ \A i \in 1..Len(t) : r[i] = t[i]
      /\ r[Len(t) + 1] = id
  BY AppendProperties
<1>2. Len(t) \in Nat /\ DOMAIN t = 1..Len(t) /\ DOMAIN r = 1..Len(r) BY <1>1, LenProperties
<1> HIDE DEF r
<1>3. DOMAIN r = DOMAIN t \cup {Len(t) + 1} BY <1>1, <1>2
<1>4. ToSet(r) = ToSet(t) \cup {id} BY <1>1, <1>2, <1>3 DEF ToSet
<1>5. IsInjective(t) /\ id \notin ToSet(t) => IsInjective(r) BY <1>1, <1>2, <1>3 DEF IsInjective, ToSet
<1> QED BY <1>1, <1>4, <1>5 DEF r

LEMMA TabMoved ==
  ASSUME NEW t \in Seq(Ids), NEW i \in DOMAIN t, NEW j \in DOMAIN t,
         NEW r, r = InsertAt(RemoveAt(t, i), j, t[i])
  PROVE  /\ r \in Seq(Ids) /\ ToSet(r) = ToSet(t)
         /\ IsInjective(t) => IsInjective(r)
<1> DEFINE n == Len(t)
           u == RemoveAt(t, i)
<1>1. n \in Nat /\ DOMAIN t = 1..n /\ \A k \in 1..n : t[k] \in Ids BY LenProperties, ElementOfSeq
<1>2. i \in 1..n /\ j \in 1..n BY <1>1
<1>3. /\ u \in Seq(Ids) /\ Len(u) = n - 1
      /\ \A k \in 1..(n - 1) : u[k] = IF k < i THEN t[k] ELSE t[k + 1]
  <2>1. /\ SubSeq(t, 1, i - 1) \in Seq(Ids) /\ Len(SubSeq(t, 1, i - 1)) = i - 1
        /\ \A k \in 1..(i - 1) : SubSeq(t, 1, i - 1)[k] = t[k]
    BY <1>1, <1>2
  <2>2. /\ SubSeq(t, i + 1, n) \in Seq(Ids) /\ Len(SubSeq(t, i + 1, n)) = n - i
        /\ \A k \in 1..(n - i) : SubSeq(t, i + 1, n)[k] = t[i + k]
    BY <1>1, <1>2
  <2> DEFINE a == SubSeq(t, 1, i - 1)
             b == SubSeq(t, i + 1, n)
  <2>3. u = a \o b BY DEF RemoveAt
  <2> HIDE DEF a, b, u, n
  <2>4. /\ a \o b \in Seq(Ids) /\ Len(a \o b) = Len(a) + Len(b)
        /\ \A k \in 1..Len(a) + Len(b) : (a \o b)[k] = IF k <= Len(a) THEN a[k] ELSE b[k - Len(a)]
    BY <2>1, <2>2, ConcatProperties DEF a, b
  <2>5. Len(a) = i - 1 /\ Len(b) = n - i BY <2>1, <2>2 DEF a, b
  <2>6. ASSUME NEW k \in 1..(n - 1) PROVE u[k] = IF k < i THEN t[k] ELSE t[k + 1]
    <3>1. CASE k < i
      <4>1. k \in 1..(i - 1) /\ k <= Len(a) /\ k \in 1..Len(a) + Len(b) BY <1>1, <1>2, <2>5, <3>1
      <4> QED BY <2>1, <2>3, <2>4, <3>1, <4>1 DEF a
    <3>2. CASE ~(k < i)
      <4>1. /\ ~(k <= Len(a)) /\ k \in 1..Len(a) + Len(b) /\ k - Len(a) \in 1..(n - i)
            /\ i + (k - Len(a)) = k + 1
        BY <1>1, <1>2, <2>5, <3>2
      <4> QED BY <2>2, <2>3, <2>4, <3>2, <4>1 DEF b
    <3> QED BY <3>1, <3>2
  <2> QED BY <1>1, <1>2, <2>3, <2>4, <2>5, <2>6
<1> HIDE DEF u
<1>4. /\ r \in Seq(Ids) /\ Len(r) = n
      /\ \A k \in 1..n : r[k] = IF k < j THEN u[k] ELSE IF k = j THEN t[i] ELSE u[k - 1]
  <2> DEFINE a == SubSeq(u, 1, j - 1)
             b == SubSeq(u, j, Len(u))
             x == t[i]
  <2>1. /\ a \in Seq(Ids) /\ Len(a) = j - 1 /\ \A k \in 1..(j - 1) : a[k] = u[k]
    BY <1>1, <1>2, <1>3
  <2>2. /\ b \in Seq(Ids) /\ Len(b) = n - j /\ \A k \in 1..(n - j) : b[k] = u[j + k - 1]
    BY <1>1, <1>2, <1>3
  <2>3. r = a \o <<x>> \o b BY DEF InsertAt, u
  <2>4. x \in Ids BY <1>1, <1>2
  <2> HIDE DEF a, b, x, n
  <2> DEFINE c == a \o <<x>>
  <2>5. c \in Seq(Ids) /\ Len(c) = j /\ \A k \in 1..j : c[k] = IF k < j THEN a[k] ELSE x
    BY <1>1, <1>2, <2>1, <2>4
  <2> HIDE DEF c
  <2>6. /\ r \in Seq(Ids) /\ Len(r) = Len(c) + Len(b)
        /\ \A k \in 1..Len(c) + Len(b) : r[k] = IF k <= Len(c) THEN c[k] ELSE b[k - Len(c)]
    <3>1. r = c \o b BY <2>3 DEF c
    <3>2. c \in Seq(Ids) /\ b \in Seq(Ids) BY <2>2, <2>5
    <3>3. /\ c \o b \in Seq(Ids) /\ Len(c \o b) = Len(c) + Len(b)
          /\ \A k \in 1..Len(c) + Len(b) : (c \o b)[k] = IF k <= Len(c) THEN c[k] ELSE b[k - Len(c)]
      BY <3>2, ConcatProperties
    <3> QED BY <3>1, <3>3
  <2>7. Len(c) + Len(b) = n BY <1>1, <1>2, <2>2, <2>5
  <2>8. ASSUME NEW k \in 1..n
        PROVE  r[k] = IF k < j THEN u[k] ELSE IF k = j THEN t[i] ELSE u[k - 1]
    <3>1. CASE k <= j BY <1>1, <1>2, <2>1, <2>5, <2>6, <2>7, <3>1 DEF x
    <3>2. CASE k > j
      <4>1. k - Len(c) \in 1..(n - j) /\ j + (k - Len(c)) - 1 = k - 1 BY <1>1, <1>2, <2>5, <3>2
      <4>2. b[k - Len(c)] = u[k - 1] BY <2>2, <4>1
      <4>3. r[k] = b[k - Len(c)] /\ ~(k < j) /\ k # j BY <1>1, <1>2, <2>5, <2>6, <2>7, <3>2
      <4> QED BY <4>2, <4>3
    <3> QED BY <1>1, <1>2, <3>1, <3>2
  <2> QED BY <2>6, <2>7, <2>8
<1>5. DOMAIN r = 1..n BY <1>4, LenProperties
<1> DEFINE From(k) == IF k < j THEN (IF k < i THEN k ELSE k + 1)
                      ELSE IF k = j THEN i ELSE (IF k - 1 < i THEN k - 1 ELSE k)
           To(k) == IF k = i THEN j
                    ELSE IF k < i THEN (IF k < j THEN k ELSE k + 1) ELSE (IF k - 1 < j THEN k - 1 ELSE k)
<1>6. ASSUME NEW k \in 1..n PROVE From(k) \in 1..n /\ r[k] = t[From(k)]
  <2>1. CASE k < j BY <1>1, <1>2, <1>3, <1>4, <2>1
  <2>2. CASE k = j BY <1>2, <1>4, <2>2
  <2>3. CASE k > j
    <3>1. k - 1 \in 1..(n - 1) /\ (k - 1) + 1 = k BY <1>1, <1>2, <2>3
    <3> QED BY <1>1, <1>2, <1>3, <1>4, <2>3, <3>1
  <2> QED BY <1>2, <2>1, <2>2, <2>3
<1>7. \A k \in 1..n : To(k) \in 1..n /\ From(To(k)) = k BY <1>1, <1>2
<1>8. \A k, l \in 1..n : From(k) = From(l) => k = l BY <1>1, <1>2
<1> HIDE DEF From, To, n
<1>9. ToSet(r) = ToSet(t)
  <2>1. \A k \in DOMAIN r : r[k] \in ToSet(t) BY <1>1, <1>5, <1>6 DEF ToSet
  <2>2. ASSUME NEW k \in DOMAIN t PROVE t[k] \in ToSet(r)
    <3>1. To(k) \in DOMAIN r /\ r[To(k)] = t[k] BY <1>1, <1>5, <1>6, <1>7
    <3> QED BY <3>1 DEF ToSet
  <2> QED BY <2>1, <2>2 DEF ToSet
<1>10. IsInjective(t) => IsInjective(r) BY <1>1, <1>5, <1>6, <1>8 DEF IsInjective
<1> QED BY <1>4, <1>9, <1>10

-----------------------------------------------------------------------------
(* The steps of the session list.                                          *)

LEMMA Survives ==
  ASSUME NEW list \in Seq(EntryType)
  PROVE  IdsOf(Offline(list)) = {e.id : e \in {f \in ToSet(list) : f.status = "offline"}}
BY OfflineEntries, ListedIds

LEMMA StoreStarts == StoreInit => StoreInv
<1> SUFFICES ASSUME StoreInit PROVE StoreInv OBVIOUS
<1> USE DEF StoreInit
<1>1. ToSet(<<>>) = {} BY DEF ToSet
<1>2. Idle \in CallType BY DEF Idle, CallType
<1>3. StoreTypes
  <2>1. \A c \in Slots : call[c] = Idle OBVIOUS
  <2>2. \A c \in Slots : ~Created(c) BY <2>1 DEF Created, Idle
  <2>3. call \in [Slots -> CallType] BY <1>2
  <2>4. /\ server \in Seq(EntryType) /\ sessions \in Seq(EntryType) /\ tabs \in Seq(Ids)
        /\ active \in Ids \cup {NoSession} /\ ids \subseteq Ids
        /\ overlapped \in BOOLEAN /\ marked \in BOOLEAN
    BY EmptySeq
  <2> HIDE DEF StoreInit
  <2> QED BY <2>2, <2>3, <2>4 DEF StoreTypes
<1>4. Known BY <1>1 DEF Known, Idle
<1>5. ActiveIsOpen BY DEF ActiveIsOpen
<1>6. LocalSurvives BY DEF LocalSurvives
<1>7. \A c \in Slots : ~Busy(c) /\ ~Created(c) BY DEF Busy, Created, Idle
<1>8. Apart BY <1>1 DEF Apart, Distinct, OnServer, Idle
<1>9. IsInjective(tabs) BY DEF IsInjective
<1>10. Once BY <1>7, <1>8, <1>9 DEF Once
<1> QED BY <1>3, <1>4, <1>5, <1>6, <1>10 DEF StoreInv

\* A step of the user that changes tabs alone.
LEMMA TabsStep ==
  ASSUME StoreInv, UNCHANGED <<server, sessions, call, ids, local, flags>>,
         tabs' \in Seq(Ids), active' \in ToSet(tabs') \cup {NoSession},
         ToSet(tabs') \subseteq ToSet(tabs) \cup IdsOf(sessions),
         IsInjective(tabs) => IsInjective(tabs')
  PROVE  StoreInv'
<1> USE DEF flags
<1>1. ToSet(tabs') \subseteq Ids BY Entries
<1>2. StoreTypes' BY <1>1 DEF StoreInv, StoreTypes, Created
<1>3. IdsOf(sessions) = {e.id : e \in ToSet(sessions)} BY ListedIds
<1>4. Known' BY <1>3 DEF StoreInv, Known
<1>5. ActiveIsOpen' BY Entries DEF ActiveIsOpen
<1>6. LocalSurvives' BY DEF StoreInv, LocalSurvives
<1>7. Once'
  <2>1. \A c \in Slots : Busy(c)' = Busy(c) /\ Created(c)' = Created(c) BY DEF Busy, Created
  <2>2. Apart => Apart' BY DEF Apart, Distinct, OnServer
  <2>3. \A c \in Slots : (\A e \in ToSet(sessions) : e.id # call[c].data[1].id) /\ call[c].data[1].id \notin ToSet(tabs)
          => call[c].data[1].id \notin ToSet(tabs')
    BY <1>3
  <2> QED BY <2>1, <2>2, <2>3 DEF StoreInv, Once
<1> QED BY <1>2, <1>4, <1>5, <1>6, <1>7 DEF StoreInv

LEMMA SetActiveSessionStep ==
  ASSUME StoreInv, NEW id \in Ids, SetActiveSession(id) PROVE StoreInv'
<1>1. tabs \in Seq(Ids) BY DEF StoreInv, StoreTypes
<1>2. CASE Contains(tabs, id)
  <2>1. tabs' = tabs /\ active' = id /\ id \in ToSet(tabs) BY <1>1, <1>2, Entries DEF SetActiveSession
  <2> QED BY <1>1, <2>1, TabsStep DEF SetActiveSession
<1>3. CASE ~Contains(tabs, id)
  <2>1. /\ tabs' = Append(tabs, id) /\ active' = id /\ id \notin ToSet(tabs)
        /\ id \in IdsOf(sessions)
    BY <1>1, <1>3, Entries DEF SetActiveSession
  <2>2. /\ tabs' \in Seq(Ids) /\ ToSet(tabs') = ToSet(tabs) \cup {id}
        /\ IsInjective(tabs) => IsInjective(tabs')
    BY <1>1, <2>1, TabAdded
  <2> QED BY <2>1, <2>2, TabsStep DEF SetActiveSession
<1> QED BY <1>2, <1>3

LEMMA CloseTabStep ==
  ASSUME StoreInv, NEW id \in Ids, CloseTab(id) PROVE StoreInv'
<1> DEFINE rest == OtherTabs(id)
           T == {j \in DOMAIN tabs : tabs[j] = id}
           i == Min(T)
<1>1. tabs \in Seq(Ids) /\ DOMAIN tabs \subseteq Nat \ {0} BY LenProperties DEF StoreInv, StoreTypes
<1>2. /\ rest \in Seq(Ids) /\ ToSet(rest) = ToSet(tabs) \ {id}
      /\ IsInjective(tabs) => IsInjective(rest)
  BY <1>1, OtherTabsProperties
<1>3. i \in Nat \ {0}
  <2>1. T # {} /\ T \subseteq Nat \ {0} BY <1>1, Entries DEF CloseTab, ToSet
  <2> HIDE DEF T
  <2>2. Min(T) \in T BY <2>1, LeastNatural
  <2> QED BY <2>1, <2>2
<1>4. /\ tabs' = rest
      /\ active' = IF active # id THEN active
                   ELSE IF rest = <<>> THEN NoSession
                   ELSE rest[IF i <= Len(rest) THEN i ELSE Len(rest)]
  BY DEF CloseTab
<1> HIDE DEF rest, i
<1>5. rest # <<>> => rest[IF i <= Len(rest) THEN i ELSE Len(rest)] \in ToSet(rest)
  <2>1. Len(rest) \in Nat /\ DOMAIN rest = 1..Len(rest) BY <1>2, LenProperties
  <2>2. rest # <<>> => Len(rest) > 0 BY <1>2, <2>1, EmptySeq
  <2>3. rest # <<>> => (IF i <= Len(rest) THEN i ELSE Len(rest)) \in DOMAIN rest
    BY <1>3, <2>1, <2>2
  <2> QED BY <1>2, <2>3, Entries
<1>6. active # NoSession => active \in ToSet(tabs) BY <1>1, Entries DEF StoreInv, ActiveIsOpen
<1>7. active' \in ToSet(rest) \cup {NoSession} BY <1>2, <1>4, <1>5, <1>6
<1> QED BY <1>2, <1>4, <1>7, TabsStep DEF CloseTab

LEMMA ReorderTabsStep ==
  ASSUME StoreInv, NEW i \in DOMAIN tabs, NEW j \in DOMAIN tabs, ReorderTabs(i, j) PROVE StoreInv'
<1>1. tabs \in Seq(Ids) BY DEF StoreInv, StoreTypes
<1>2. tabs' = InsertAt(RemoveAt(tabs, i), j, tabs[i]) BY DEF ReorderTabs
<1>3. /\ tabs' \in Seq(Ids) /\ ToSet(tabs') = ToSet(tabs)
      /\ IsInjective(tabs) => IsInjective(tabs')
  BY <1>1, <1>2, TabMoved
<1>4. active' \in ToSet(tabs') \cup {NoSession}
  BY <1>1, <1>3, Entries DEF StoreInv, ActiveIsOpen, ReorderTabs
<1> QED BY <1>3, <1>4, TabsStep DEF ReorderTabs

LEMMA IdleCalls ==
  ASSUME call' = [c \in Slots |-> Idle]
  PROVE  /\ call' \in [Slots -> CallType]
         /\ \A c \in Slots : ~Busy(c)' /\ ~Created(c)' /\ call'[c].data = <<>>
BY DEF Idle, CallType, Busy, Created

LEMMA RestartStep ==
  ASSUME StoreInv, Restart PROVE StoreInv'
<1> DEFINE kept == Offline(sessions)
<1> USE DEF flags
<1>1. tabs \in Seq(Ids) /\ sessions \in Seq(EntryType) BY DEF StoreInv, StoreTypes
<1>2. /\ kept \in Seq(EntryType) /\ ToSet(kept) = {e \in ToSet(sessions) : e.status = "offline"}
      /\ Distinct(sessions) => Distinct(kept)
  BY <1>1, OfflineEntries
<1>3. IdsOf(kept) = {e.id : e \in ToSet(kept)} BY ListedIds
<1>4. /\ ListedTabs(kept) \in Seq(Ids) /\ ToSet(ListedTabs(kept)) = ToSet(tabs) \cap IdsOf(kept)
      /\ IsInjective(tabs) => IsInjective(ListedTabs(kept))
  BY <1>1, ListedTabsProperties
<1> HIDE DEF kept
<1>5. /\ sessions' = kept /\ tabs' = ListedTabs(kept) /\ call' = [c \in Slots |-> Idle]
      /\ active' = IF active \in IdsOf(kept) THEN active ELSE NoSession
      /\ UNCHANGED <<server, ids, local, overlapped, marked>>
  BY DEF Restart, kept
<1>6. /\ call' \in [Slots -> CallType]
      /\ \A c \in Slots : ~Busy(c)' /\ ~Created(c)' /\ call'[c].data = <<>>
  BY <1>5, IdleCalls
<1>7. StoreTypes' BY <1>2, <1>4, <1>5, <1>6 DEF StoreInv, StoreTypes
<1>8. ToSet(<<>>) = {} BY DEF ToSet
<1>9. Known' BY <1>2, <1>4, <1>5, <1>6, <1>8 DEF StoreInv, Known
<1>10. ActiveIsOpen' BY <1>1, <1>4, <1>5, Entries DEF StoreInv, ActiveIsOpen
<1>11. LocalSurvives'
  <2>1. IdsOf(Offline(sessions)) = {e.id : e \in ToSet(kept)} BY <1>1, <1>2, Survives
  <2>2. IdsOf(Offline(kept)) = {e.id : e \in ToSet(kept)} BY <1>2, Survives
  <2> QED BY <1>5, <2>1, <2>2 DEF StoreInv, LocalSurvives
<1>12. Once'
  <2>1. Apart => Apart' BY <1>2, <1>5, <1>6, <1>8 DEF Apart, OnServer, Distinct
  <2> QED BY <1>4, <1>5, <1>6, <2>1 DEF StoreInv, Once
<1> QED BY <1>7, <1>9, <1>10, <1>11, <1>12 DEF StoreInv

LEMMA SendStep ==
  ASSUME StoreInv, NEW c \in Slots, NEW op \in {"poll", "create", "delete", "rename"},
         NEW id \in Ids \cup {NoSession}, Send(c, op, id)
  PROVE  StoreInv'
<1> USE DEF uiVars
<1> DEFINE new == [op |-> op, stage |-> "sent", id |-> id, data |-> <<>>]
<1>1. call \in [Slots -> CallType] BY DEF StoreInv, StoreTypes
<1>2. new \in CallType BY DEF CallType
<1>3. /\ call' \in [Slots -> CallType] /\ call'[c] = new
      /\ \A d \in Slots \ {c} : call'[d] = call[d]
      /\ UNCHANGED <<server, sessions, tabs, active, ids, local, marked>>
      /\ overlapped' = (overlapped \/ \E d \in Slots : call[d].op # "none")
  BY <1>1, <1>2 DEF Send
<1>4. ~Created(c)' /\ call'[c].data = <<>> BY <1>3 DEF Created
<1>5. \A d \in Slots \ {c} : Busy(d)' = Busy(d) /\ Created(d)' = Created(d) BY <1>3 DEF Busy, Created
<1>6. ToSet(<<>>) = {} BY DEF ToSet
<1> HIDE DEF new
<1>7. overlapped' \in BOOLEAN BY <1>3 DEF StoreInv, StoreTypes
<1>8. StoreTypes' BY <1>3, <1>4, <1>5, <1>7 DEF StoreInv, StoreTypes
<1>9. Known' BY <1>3, <1>4, <1>6 DEF StoreInv, Known
<1>10. ActiveIsOpen' /\ LocalSurvives' BY <1>3 DEF StoreInv, ActiveIsOpen, LocalSurvives
<1>11. ASSUME ~overlapped' PROVE ~overlapped /\ \A d \in Slots \ {c} : ~Busy(d)' /\ ~Created(d)'
  <2>1. ~overlapped /\ \A d \in Slots : ~Busy(d) BY <1>3, <1>11 DEF Busy
  <2> QED BY <1>5, <2>1 DEF Busy, Created
<1>12. Apart => Apart'
  <2>1. Distinct(call'[c].data) /\ OnServer(call'[c].data) BY <1>4, <1>6 DEF Distinct, OnServer
  <2>2. Apart => \A d \in Slots : Distinct(call'[d].data) /\ OnServer(call'[d].data)
    BY <1>3, <2>1 DEF Apart
  <2> QED BY <1>3, <2>2 DEF Apart, Distinct, OnServer
<1>13. Once' BY <1>3, <1>4, <1>11, <1>12 DEF StoreInv, Once
<1> QED BY <1>8, <1>9, <1>10, <1>13 DEF StoreInv

\* An answer is put on a call; nothing of the window changes.
LEMMA Answered ==
  ASSUME StoreTypes, NEW c \in Slots, NEW stage \in {"answered", "failed"},
         NEW data \in Seq(EntryType), Answer(c, stage, data)
  PROVE  /\ call' \in [Slots -> CallType]
         /\ call'[c].op = call[c].op /\ call'[c].stage = stage /\ call'[c].data = data
         /\ \A d \in Slots \ {c} : call'[d] = call[d] /\ Created(d)' = Created(d)
         /\ \A d \in Slots : Busy(d)' = Busy(d)
<1>1. call \in [Slots -> CallType] BY DEF StoreTypes
<1>2. call'[c] = [call[c] EXCEPT !.stage = stage, !.data = data] BY <1>1 DEF Answer
<1>3. \A d \in Slots \ {c} : call'[d] = call[d] BY <1>1 DEF Answer
<1>4. /\ call'[c] \in CallType
      /\ call'[c].op = call[c].op /\ call'[c].stage = stage /\ call'[c].data = data
  BY <1>1, <1>2 DEF CallType
<1>5. call' \in [Slots -> CallType]
  <2>1. DOMAIN call' = Slots /\ call' = [d \in Slots |-> call'[d]] BY <1>1 DEF Answer
  <2> QED BY <1>1, <1>3, <1>4, <2>1
<1> QED BY <1>3, <1>4, <1>5 DEF Busy, Created

\* The server handled a call or the call failed: with what the server and the answer hold now.
LEMMA AnswerStep ==
  ASSUME StoreInv, NEW c \in Slots, NEW stage \in {"answered", "failed"}, NEW data \in Seq(EntryType),
         Answer(c, stage, data), Busy(c), UNCHANGED <<uiVars, local, flags>>,
         server' \in Seq(EntryType), ids \subseteq ids', ids' \subseteq Ids,
         \A e \in ToSet(server') \cup ToSet(data) : e.id \in ids',
         Created(c)' => /\ data # <<>> /\ data[1].id \notin ids,
         Apart => /\ Distinct(server') /\ OnServer(server') /\ Distinct(data) /\ OnServer(data)
  PROVE  StoreInv'
<1> USE DEF uiVars, flags
<1>1. StoreTypes BY DEF StoreInv
<1>2. /\ call' \in [Slots -> CallType]
      /\ call'[c].op = call[c].op /\ call'[c].stage = stage /\ call'[c].data = data
      /\ \A d \in Slots \ {c} : call'[d] = call[d] /\ Created(d)' = Created(d)
      /\ \A d \in Slots : Busy(d)' = Busy(d)
  BY <1>1, Answered
<1>3. StoreTypes'
  <2>1. \A d \in Slots : Created(d)' => call'[d].data # <<>> BY <1>1, <1>2 DEF StoreTypes
  <2> QED BY <1>1, <1>2, <2>1 DEF StoreTypes
<1>4. Known'
  <2>1. \A d \in Slots : \A e \in ToSet(call'[d].data) : e.id \in ids' BY <1>2 DEF StoreInv, Known
  <2> QED BY <2>1 DEF StoreInv, Known
<1>5. ActiveIsOpen' /\ LocalSurvives' BY DEF StoreInv, ActiveIsOpen, LocalSurvives
<1>6. Apart => Apart'
  <2>1. Apart => \A d \in Slots : Distinct(call'[d].data) /\ OnServer(call'[d].data) BY <1>2 DEF Apart
  <2> QED BY <2>1 DEF Apart, Distinct, OnServer
<1>7. ASSUME NEW d \in Slots, Created(d)',
             \A e \in Slots : Created(e) => /\ call[e].data[1].id \notin ToSet(tabs)
                                            /\ \A f \in ToSet(sessions) : f.id # call[e].data[1].id
      PROVE  call'[d].data[1].id \notin ToSet(tabs) /\ \A f \in ToSet(sessions) : f.id # call'[d].data[1].id
  <2>1. CASE d = c BY <1>2, <1>7, <2>1 DEF StoreInv, Known
  <2>2. CASE d # c BY <1>2, <1>7, <2>2
  <2> QED BY <2>1, <2>2
<1>8. Once' BY <1>2, <1>6, <1>7 DEF StoreInv, Once
<1> QED BY <1>3, <1>4, <1>5, <1>8 DEF StoreInv

\* An answer that holds nothing.
LEMMA NothingStep ==
  ASSUME StoreInv, NEW c \in Slots, NEW stage \in {"answered", "failed"}, Answer(c, stage, <<>>),
         Busy(c), stage = "failed" \/ call[c].op # "create", UNCHANGED <<uiVars, local, flags>>,
         server' \in Seq(EntryType), ids \subseteq ids', ids' \subseteq Ids,
         \A e \in ToSet(server') : e.id \in ids',
         Apart => Distinct(server') /\ OnServer(server')
  PROVE  StoreInv'
<1> DEFINE nothing == <<>>
<1>1. /\ nothing \in Seq(EntryType) /\ ToSet(nothing) = {}
      /\ Distinct(nothing) /\ OnServer(nothing)
  BY DEF ToSet, Distinct, OnServer
<1>2. Answer(c, stage, nothing) OBVIOUS
<1> HIDE DEF nothing
<1>3. ~Created(c)' BY <1>1, <1>2, Answered DEF StoreInv, Created
<1> QED BY <1>1, <1>2, <1>3, AnswerStep

LEMMA FailStep ==
  ASSUME StoreInv, NEW c \in Slots, Fail(c) PROVE StoreInv'
<1>1. /\ Busy(c) /\ Answer(c, "failed", <<>>) /\ UNCHANGED <<uiVars, local, flags>>
      /\ server' = server /\ ids' = ids
  BY DEF Fail, Busy
<1>2. Apart => Distinct(server') /\ OnServer(server') BY <1>1 DEF Apart, Distinct, OnServer
<1>3. server' \in Seq(EntryType) /\ ids' \subseteq Ids /\ ids \subseteq ids'
  BY <1>1 DEF StoreInv, StoreTypes
<1>4. \A e \in ToSet(server') : e.id \in ids' BY <1>1 DEF StoreInv, Known
<1> QED BY <1>1, <1>2, <1>3, <1>4, NothingStep

LEMMA ServeStep ==
  ASSUME StoreInv, NEW c \in Slots, Serve(c) PROVE StoreInv'
<1>1. StoreTypes /\ Busy(c) /\ UNCHANGED <<uiVars, local, flags>> BY DEF StoreInv, Serve, Busy
<1>2. server \in Seq(EntryType) /\ ids \subseteq Ids BY <1>1 DEF StoreTypes
<1>4. \A e \in ToSet(server) : e.id \in ids BY DEF StoreInv, Known
<1>5. CASE call[c].op = "poll"
  <2>1. Answer(c, "answered", server) /\ UNCHANGED <<server, ids>> BY <1>5 DEF Serve
  <2>2. ~Created(c)' BY <1>1, <1>2, <1>5, <2>1, Answered DEF Created
  <2>3. Apart => Distinct(server) /\ OnServer(server) BY DEF Apart
  <2> QED BY <1>1, <1>2, <1>4, <2>1, <2>2, <2>3, AnswerStep
<1>6. CASE call[c].op = "create"
  <2>1. PICK id \in Ids \ ids :
           /\ server' = <<Entry(id, "running")>> \o server
           /\ ids' = ids \cup {id}
           /\ \/ Answer(c, "answered", <<Entry(id, "running")>>)
              \/ Answer(c, "failed", <<>>)
    BY <1>6 DEF Serve
  <2> DEFINE e == Entry(id, "running")
  <2>2. e \in EntryType /\ e.id = id /\ e.status = "running" BY DEF EntryType, Entry
  <2> HIDE DEF e
  <2>3. <<e>> \in Seq(EntryType) /\ ToSet(<<e>>) = {e} /\ Distinct(<<e>>) /\ <<e>> # <<>> /\ <<e>>[1] = e
    BY <2>2, Single
  <2>4. id \notin local BY DEF StoreInv, Known
  <2>5. server' = <<e>> \o server BY <2>1 DEF e
  <2> DEFINE w == <<e>>
  <2> HIDE DEF w
  <2>6. /\ w \o server \in Seq(EntryType) /\ ToSet(w \o server) = ToSet(w) \cup ToSet(server)
        /\ Distinct(w) /\ Distinct(server) /\ (\A x \in ToSet(w), y \in ToSet(server) : x.id # y.id)
             => Distinct(w \o server)
    BY <1>2, <2>3, Joined DEF w
  <2>7. /\ server' \in Seq(EntryType) /\ ToSet(server') = {e} \cup ToSet(server)
        /\ Distinct(server) => Distinct(server')
    BY <1>4, <2>2, <2>3, <2>5, <2>6 DEF w
  <2>8. Apart => /\ Distinct(server') /\ OnServer(server') /\ Distinct(w) /\ OnServer(w)
    BY <2>2, <2>3, <2>4, <2>7 DEF Apart, OnServer, w
  <2>9. ids \subseteq ids' /\ ids' \subseteq Ids /\ \A x \in ToSet(server') \cup ToSet(w) : x.id \in ids'
    BY <1>2, <1>4, <2>1, <2>2, <2>3, <2>7 DEF w
  <2>10. CASE Answer(c, "answered", w)
    BY <1>1, <2>2, <2>3, <2>7, <2>8, <2>9, <2>10, AnswerStep DEF w
  <2>11. CASE Answer(c, "failed", <<>>)
    BY <1>1, <2>7, <2>8, <2>9, <2>11, NothingStep
  <2> QED BY <2>1, <2>10, <2>11 DEF w, e
<1>7. CASE call[c].op = "delete"
  <2>1. server' = Without(server, call[c].id) /\ Answer(c, "answered", <<>>) /\ UNCHANGED ids
    BY <1>7 DEF Serve
  <2>2. /\ server' \in Seq(EntryType) /\ ToSet(server') \subseteq ToSet(server)
        /\ Distinct(server) => Distinct(server')
    BY <1>2, <2>1, WithoutEntries
  <2>3. Apart => Distinct(server') /\ OnServer(server') BY <2>2 DEF Apart, OnServer
  <2>4. \A e \in ToSet(server') : e.id \in ids' BY <1>4, <2>1, <2>2
  <2> QED BY <1>1, <1>2, <1>7, <2>1, <2>2, <2>3, <2>4, NothingStep
<1>8. CASE call[c].op = "rename"
  <2>1. server' = Renamed(server, call[c].id) /\ Answer(c, "answered", <<>>) /\ UNCHANGED ids
    BY <1>8 DEF Serve
  <2>2. /\ server' \in Seq(EntryType)
        /\ \A e \in ToSet(server') : \E f \in ToSet(server) : f.id = e.id /\ f.status = e.status
        /\ Distinct(server) => Distinct(server')
    BY <1>2, <2>1, RenamedEntries
  <2>3. Apart => Distinct(server') /\ OnServer(server') BY <2>2 DEF Apart, OnServer
  <2>4. \A e \in ToSet(server') : e.id \in ids' BY <1>4, <2>1, <2>2
  <2> QED BY <1>1, <1>2, <1>8, <2>1, <2>2, <2>3, <2>4, NothingStep
<1> QED
  <2>1. call[c].op \in {"poll", "create", "delete", "rename"}
    BY <1>1 DEF StoreTypes, CallType, Busy
  <2> QED BY <1>5, <1>6, <1>7, <1>8, <2>1

LEMMA DoneCall ==
  ASSUME StoreTypes, NEW c \in Slots, Done(c)
  PROVE  /\ call' \in [Slots -> CallType]
         /\ call'[c].data = <<>> /\ \A d \in Slots \ {c} : call'[d] = call[d]
         /\ \A d \in Slots : /\ Busy(d)' => Busy(d) /\ d # c
                             /\ Created(d)' => Created(d) /\ Busy(d) /\ d # c
<1>1. call \in [Slots -> CallType] BY DEF StoreTypes
<1>2. Idle \in CallType BY DEF Idle, CallType
<1>3. call' \in [Slots -> CallType] /\ call'[c] = Idle /\ \A d \in Slots \ {c} : call'[d] = call[d]
  BY <1>1, <1>2 DEF Done
<1>4. ~Busy(c)' /\ ~Created(c)' /\ call'[c].data = <<>> BY <1>3 DEF Busy, Created, Idle
<1>5. \A d \in Slots : Created(d) => Busy(d) BY DEF Created, Busy
<1>6. \A d \in Slots \ {c} : Busy(d)' = Busy(d) /\ Created(d)' = Created(d) BY <1>3 DEF Busy, Created
<1> QED BY <1>3, <1>4, <1>5, <1>6

\* An answer is applied: with what the window holds now.  What no one else is at work on
\* needs to hold only while calls do not overlap.
LEMMA ApplyStep ==
  ASSUME StoreInv, NEW c \in Slots, Done(c), Busy(c), UNCHANGED <<server, flags>>,
         sessions' \in Seq(EntryType), tabs' \in Seq(Ids), active' \in ToSet(tabs') \cup {NoSession},
         ids \subseteq ids', ids' \subseteq Ids, local' \subseteq ids', local' \cap ids \subseteq local,
         ToSet(tabs') \subseteq ids', \A e \in ToSet(sessions') : e.id \in ids',
         \A id \in local' : \E e \in ToSet(sessions') : e.id = id /\ e.status = "offline",
         ~overlapped => IsInjective(tabs'),
         ~overlapped /\ ~marked =>
           Distinct(sessions') /\ \A e \in ToSet(sessions') : e.status = "offline" => e.id \in local'
  PROVE  StoreInv'
<1> USE DEF flags
<1>1. StoreTypes BY DEF StoreInv
<1>2. /\ call' \in [Slots -> CallType]
      /\ call'[c].data = <<>> /\ \A d \in Slots \ {c} : call'[d] = call[d]
      /\ \A d \in Slots : /\ Busy(d)' => Busy(d) /\ d # c
                          /\ Created(d)' => Created(d) /\ Busy(d) /\ d # c
  BY <1>1, DoneCall
<1>3. active' \in Ids \cup {NoSession}
  <2>1. ToSet(tabs') \subseteq Ids OBVIOUS
  <2> QED BY <2>1
<1>4. StoreTypes'
  <2>1. \A d \in Slots : Created(d)' => call'[d].data # <<>> BY <1>1, <1>2 DEF StoreTypes
  <2> QED BY <1>1, <1>2, <1>3, <2>1 DEF StoreTypes
<1>5. ToSet(<<>>) = {} BY DEF ToSet
<1>6. Known'
  <2>1. \A d \in Slots : \A e \in ToSet(call'[d].data) : e.id \in ids'
    BY <1>2, <1>5 DEF StoreInv, Known
  <2> QED BY <2>1 DEF StoreInv, Known
<1>7. ActiveIsOpen'
  <2>1. Contains(tabs', active') <=> active' \in ToSet(tabs') BY Entries
  <2> QED BY <2>1 DEF ActiveIsOpen
<1>8. LocalSurvives'
  <2>1. IdsOf(Offline(sessions')) = {e.id : e \in {f \in ToSet(sessions') : f.status = "offline"}}
    BY Survives
  <2>2. IdsOf(Offline(sessions))' = IdsOf(Offline(sessions')) BY DEF IdsOf, Offline
  <2> QED BY <2>1, <2>2 DEF LocalSurvives
<1>9. ASSUME ~overlapped, ~marked PROVE Apart'
  <2>1. Apart BY <1>9 DEF StoreInv, Once
  <2>2. ASSUME NEW list, OnServer(list), \A e \in ToSet(list) : e.id \in ids
        PROVE  \A e \in ToSet(list) : e.status = "running" /\ e.id \notin local'
    BY <2>2 DEF OnServer
  <2>3. \A e \in ToSet(server) : e.status = "running" /\ e.id \notin local'
    BY <2>1, <2>2 DEF Apart, StoreInv, Known
  <2>4. \A d \in Slots : /\ Distinct(call'[d].data)
                         /\ \A e \in ToSet(call'[d].data) : e.status = "running" /\ e.id \notin local'
    <3> SUFFICES ASSUME NEW d \in Slots
                 PROVE  /\ Distinct(call'[d].data)
                        /\ \A e \in ToSet(call'[d].data) : e.status = "running" /\ e.id \notin local'
      OBVIOUS
    <3>1. CASE d = c BY <1>2, <1>5, <3>1 DEF Distinct
    <3>2. CASE d # c
      <4>1. /\ Distinct(call[d].data) /\ OnServer(call[d].data)
            /\ \A e \in ToSet(call[d].data) : e.id \in ids
        BY <2>1 DEF Apart, StoreInv, Known
      <4> QED BY <1>2, <2>2, <3>2, <4>1
    <3> QED BY <3>1, <3>2
  <2> QED BY <1>9, <2>1, <2>3, <2>4 DEF Apart, OnServer, Distinct
<1>10. ASSUME ~overlapped PROVE \A d \in Slots : ~Busy(d)' /\ ~Created(d)'
  BY <1>2, <1>10 DEF StoreInv, Once
<1>11. Once' BY <1>9, <1>10 DEF Once
<1> QED BY <1>4, <1>6, <1>7, <1>8, <1>11 DEF StoreInv

LEMMA StoreFacts ==
  ASSUME StoreInv
  PROVE  /\ sessions \in Seq(EntryType) /\ tabs \in Seq(Ids) /\ ids \subseteq Ids
         /\ active \in ToSet(tabs) \cup {NoSession}
         /\ local \subseteq ids /\ ToSet(tabs) \subseteq ids
         /\ \A e \in ToSet(sessions) : e.id \in ids
         /\ \A id \in local : \E e \in ToSet(sessions) : e.id = id /\ e.status = "offline"
         /\ ~overlapped => IsInjective(tabs)
         /\ ~overlapped /\ ~marked =>
              Distinct(sessions) /\ \A e \in ToSet(sessions) : e.status = "offline" => e.id \in local
<1>1. sessions \in Seq(EntryType) /\ tabs \in Seq(Ids) /\ ids \subseteq Ids BY DEF StoreInv, StoreTypes
<1>2. active \in ToSet(tabs) \cup {NoSession} BY <1>1, Entries DEF StoreInv, ActiveIsOpen
<1>3. \A id \in local : \E e \in ToSet(sessions) : e.id = id /\ e.status = "offline"
  BY <1>1, Survives DEF StoreInv, LocalSurvives
<1>4. /\ ~overlapped => IsInjective(tabs)
      /\ ~overlapped /\ ~marked =>
           Distinct(sessions) /\ \A e \in ToSet(sessions) : e.status = "offline" => e.id \in local
  BY DEF StoreInv, Once, Apart
<1> QED BY <1>1, <1>2, <1>3, <1>4 DEF StoreInv, Known

LEMMA ApplyPollStep ==
  ASSUME StoreInv, NEW c \in Slots, ApplyPoll(c) PROVE StoreInv'
<1>1. /\ Done(c) /\ Busy(c) /\ UNCHANGED <<server, flags>>
      /\ tabs' = tabs /\ active' = active /\ ids' = ids /\ local' = local
  BY DEF ApplyPoll, Busy
<1>2. CASE call[c].stage = "failed"
  <2>1. sessions' = sessions BY <1>2 DEF ApplyPoll
  <2> QED BY <1>1, <2>1, StoreFacts, ApplyStep
<1>3. CASE call[c].stage # "failed"
  <2> DEFINE a == call[c].data
             b == Offline(sessions)
  <2>1. a \in Seq(EntryType) /\ \A e \in ToSet(a) : e.id \in ids
    BY DEF StoreInv, StoreTypes, Known, CallType
  <2>2. /\ b \in Seq(EntryType) /\ ToSet(b) = {e \in ToSet(sessions) : e.status = "offline"}
        /\ Distinct(sessions) => Distinct(b)
    BY StoreFacts, OfflineEntries
  <2>3. ~overlapped /\ ~marked => /\ Distinct(a)
                                  /\ \A e \in ToSet(a) : e.status = "running" /\ e.id \notin local
    BY DEF StoreInv, Once, Apart, OnServer
  <2>4. sessions' = a \o b BY <1>3 DEF ApplyPoll
  <2> HIDE DEF a, b
  <2>5. /\ sessions' \in Seq(EntryType) /\ ToSet(sessions') = ToSet(a) \cup ToSet(b)
        /\ Distinct(a) /\ Distinct(b) /\ (\A e \in ToSet(a), f \in ToSet(b) : e.id # f.id)
             => Distinct(sessions')
    BY <2>1, <2>2, <2>4, Joined
  <2>6. \A e \in ToSet(sessions') : e.id \in ids' BY <1>1, <2>1, <2>2, <2>5, StoreFacts
  <2>7. \A id \in local' : \E e \in ToSet(sessions') : e.id = id /\ e.status = "offline"
    BY <1>1, <2>2, <2>5, StoreFacts
  <2>8. ~overlapped /\ ~marked =>
          Distinct(sessions') /\ \A e \in ToSet(sessions') : e.status = "offline" => e.id \in local'
    BY <1>1, <2>2, <2>3, <2>5, StoreFacts
  <2> QED BY <1>1, <2>5, <2>6, <2>7, <2>8, StoreFacts, ApplyStep
<1> QED BY <1>2, <1>3

\* A session is added that no tab and no entry names, while calls do not overlap.
LEMMA AddSessionStep ==
  ASSUME StoreInv, NEW c \in Slots, NEW e \in EntryType, AddSession(e), Done(c), Busy(c),
         UNCHANGED <<server, flags>>, ids \subseteq ids', ids' \subseteq Ids, e.id \in ids',
         local' = local \/ (e.status = "offline" /\ e.id \notin ids /\ local' = local \cup {e.id}),
         ~overlapped => e.id \notin ToSet(tabs) /\ \A f \in ToSet(sessions) : f.id # e.id,
         ~overlapped /\ ~marked /\ e.status = "offline" => e.id \in local'
  PROVE  StoreInv'
<1> DEFINE w == <<e>>
<1>1. w \in Seq(EntryType) /\ ToSet(w) = {e} /\ Distinct(w) BY Single
<1>2. sessions' = w \o sessions /\ tabs' = Append(tabs, e.id) /\ active' = e.id BY DEF AddSession
<1> HIDE DEF w
<1>3. /\ sessions' \in Seq(EntryType) /\ ToSet(sessions') = {e} \cup ToSet(sessions)
      /\ Distinct(sessions) /\ (\A f \in ToSet(sessions) : e.id # f.id) => Distinct(sessions')
  <2>1. /\ w \o sessions \in Seq(EntryType) /\ ToSet(w \o sessions) = ToSet(w) \cup ToSet(sessions)
        /\ Distinct(w) /\ Distinct(sessions) /\ (\A x \in ToSet(w), y \in ToSet(sessions) : x.id # y.id)
             => Distinct(w \o sessions)
    BY <1>1, StoreFacts, Joined
  <2> QED BY <1>1, <1>2, <2>1
<1>4. e.id \in Ids BY DEF EntryType
<1>5. /\ tabs' \in Seq(Ids) /\ ToSet(tabs') = ToSet(tabs) \cup {e.id}
      /\ IsInjective(tabs) /\ e.id \notin ToSet(tabs) => IsInjective(tabs')
  BY <1>2, <1>4, StoreFacts, TabAdded
<1>6. \A f \in ToSet(sessions') : f.id \in ids' BY <1>3, StoreFacts
<1>7. \A id \in local' : \E f \in ToSet(sessions') : f.id = id /\ f.status = "offline"
  BY <1>3, StoreFacts
<1>8. ~overlapped /\ ~marked =>
        Distinct(sessions') /\ \A f \in ToSet(sessions') : f.status = "offline" => f.id \in local'
  <2>1. local \subseteq local' OBVIOUS
  <2> QED BY <1>3, <2>1, StoreFacts
<1>9. local' \subseteq ids' /\ local' \cap ids \subseteq local BY StoreFacts
<1>10. /\ active' \in ToSet(tabs') \cup {NoSession} /\ ToSet(tabs') \subseteq ids'
       /\ ~overlapped => IsInjective(tabs')
  BY <1>2, <1>5, StoreFacts
<1> QED BY <1>3, <1>5, <1>6, <1>7, <1>8, <1>9, <1>10, ApplyStep

LEMMA ApplyCreateStep ==
  ASSUME StoreInv, NEW c \in Slots, ApplyCreate(c) PROVE StoreInv'
<1>1. Done(c) /\ Busy(c) /\ UNCHANGED <<server, flags>> BY DEF ApplyCreate, Busy
<1>2. CASE call[c].stage = "answered"
  <2> DEFINE e == call[c].data[1]
  <2>1. Created(c) /\ AddSession(e) /\ UNCHANGED <<ids, local>> BY <1>2 DEF ApplyCreate, Created
  <2>2. e \in EntryType /\ e \in ToSet(call[c].data)
    <3>1. call[c].data \in Seq(EntryType) /\ call[c].data # <<>>
      BY <2>1 DEF StoreInv, StoreTypes, CallType
    <3>2. 1 \in DOMAIN call[c].data BY <3>1, EmptySeq, LenProperties
    <3> QED BY <3>1, <3>2, Entries
  <2>3. e.id \in ids BY <2>2 DEF StoreInv, Known
  <2>4. ~overlapped => e.id \notin ToSet(tabs) /\ \A f \in ToSet(sessions) : f.id # e.id
    BY <2>1 DEF StoreInv, Once
  <2>5. ~overlapped /\ ~marked => e.status = "running" BY <2>2 DEF StoreInv, Once, Apart, OnServer
  <2> HIDE DEF e
  <2> QED BY <1>1, <2>1, <2>2, <2>3, <2>4, <2>5, StoreFacts, AddSessionStep
<1>3. CASE call[c].stage # "answered"
  <2>1. PICK id \in Ids \ ids : /\ AddSession(Entry(id, "offline"))
                                /\ ids' = ids \cup {id} /\ local' = local \cup {id}
    BY <1>3 DEF ApplyCreate
  <2> DEFINE e == Entry(id, "offline")
  <2>2. e \in EntryType /\ e.id = id /\ e.status = "offline" BY DEF EntryType, Entry
  <2>3. AddSession(e) BY <2>1
  <2> HIDE DEF e
  <2>4. id \notin ToSet(tabs) /\ \A f \in ToSet(sessions) : f.id # id BY StoreFacts
  <2> QED BY <1>1, <2>1, <2>2, <2>3, <2>4, StoreFacts, AddSessionStep
<1> QED BY <1>2, <1>3

LEMMA ApplyDeleteStep ==
  ASSUME StoreInv, NEW c \in Slots, ApplyDelete(c) PROVE StoreInv'
<1> DEFINE id == call[c].id
           rest == OtherTabs(id)
<1>1. /\ Done(c) /\ Busy(c) /\ UNCHANGED <<server, flags>> /\ ids' = ids /\ local' = local \ {id}
      /\ sessions' = Without(sessions, id) /\ tabs' = rest
      /\ active' = IF active # id THEN active ELSE IF rest = <<>> THEN NoSession ELSE Last(rest)
  BY DEF ApplyDelete, Busy, RemoveSession
<1>2. /\ rest \in Seq(Ids) /\ ToSet(rest) = ToSet(tabs) \ {id}
      /\ IsInjective(tabs) => IsInjective(rest)
  BY StoreFacts, OtherTabsProperties
<1> HIDE DEF rest, id
<1>3. /\ sessions' \in Seq(EntryType) /\ ToSet(sessions') = {e \in ToSet(sessions) : e.id # id}
      /\ Distinct(sessions) => Distinct(sessions')
  BY <1>1, StoreFacts, WithoutEntries
<1>4. rest # <<>> => Last(rest) \in ToSet(rest)
  <2>1. rest # <<>> => Len(rest) \in DOMAIN rest BY <1>2, EmptySeq, LenProperties
  <2> QED BY <1>2, <2>1, Entries DEF Last
<1>5. active' \in ToSet(tabs') \cup {NoSession} BY <1>1, <1>2, <1>4, StoreFacts
<1>6. \A i \in local' : \E e \in ToSet(sessions') : e.id = i /\ e.status = "offline"
  BY <1>1, <1>3, StoreFacts
<1>7. ~overlapped /\ ~marked =>
        Distinct(sessions') /\ \A e \in ToSet(sessions') : e.status = "offline" => e.id \in local'
  BY <1>1, <1>3, StoreFacts
<1>8. \A e \in ToSet(sessions') : e.id \in ids' BY <1>1, <1>3, StoreFacts
<1> QED BY <1>1, <1>2, <1>3, <1>5, <1>6, <1>7, <1>8, StoreFacts, ApplyStep

LEMMA ApplyRenameStep ==
  ASSUME StoreInv, NEW c \in Slots, ApplyRename(c) PROVE StoreInv'
<1>1. /\ Done(c) /\ Busy(c) /\ UNCHANGED <<server, flags>>
      /\ tabs' = tabs /\ active' = active /\ ids' = ids /\ local' = local
      /\ sessions' = Renamed(sessions, call[c].id)
  BY DEF ApplyRename, Busy
<1>2. /\ sessions' \in Seq(EntryType)
      /\ \A e \in ToSet(sessions') : \E f \in ToSet(sessions) : f.id = e.id /\ f.status = e.status
      /\ \A f \in ToSet(sessions) : \E e \in ToSet(sessions') : f.id = e.id /\ f.status = e.status
      /\ Distinct(sessions) => Distinct(sessions')
  BY <1>1, StoreFacts, RenamedEntries
<1>3. \A e \in ToSet(sessions') : e.id \in ids' BY <1>1, <1>2, StoreFacts
<1>4. \A i \in local' : \E e \in ToSet(sessions') : e.id = i /\ e.status = "offline"
  <2> SUFFICES ASSUME NEW i \in local'
               PROVE  \E e \in ToSet(sessions') : e.id = i /\ e.status = "offline"
    OBVIOUS
  <2>1. PICK f \in ToSet(sessions) : f.id = i /\ f.status = "offline" BY <1>1, StoreFacts
  <2> QED BY <1>2, <2>1
<1>5. ~overlapped /\ ~marked =>
        Distinct(sessions') /\ \A e \in ToSet(sessions') : e.status = "offline" => e.id \in local'
  BY <1>1, <1>2, StoreFacts
<1> QED BY <1>1, <1>2, <1>3, <1>4, <1>5, StoreFacts, ApplyStep

LEMMA MarkStep ==
  ASSUME StoreInv, NEW i \in DOMAIN server, Mark(i) PROVE StoreInv'
<1> DEFINE new == IF server[i].status = "offline" THEN "running" ELSE "offline"
<1> USE DEF uiVars
<1>1. /\ UNCHANGED <<sessions, tabs, active, call, ids, local, overlapped>> /\ marked' = TRUE
      /\ server' = [server EXCEPT ![i].status = new]
  BY DEF Mark
<1>2. server \in Seq(EntryType) /\ Len(server) \in Nat /\ DOMAIN server = 1..Len(server)
      /\ \A j \in DOMAIN server : server[j] \in EntryType /\ server[j].id \in ids
  BY Entries DEF StoreInv, StoreTypes, Known
<1>3. new \in {"running", "offline"} OBVIOUS
<1> HIDE DEF new
<1>4. server'[i] = [server[i] EXCEPT !.status = new] BY <1>1
<1>5. \A j \in DOMAIN server : server'[j] \in EntryType /\ server'[j].id = server[j].id
  <2>1. server'[i] \in EntryType /\ server'[i].id = server[i].id BY <1>2, <1>3, <1>4 DEF EntryType
  <2> QED BY <1>1, <1>2, <2>1
<1>6. DOMAIN server' = DOMAIN server /\ server' = [j \in DOMAIN server |-> server'[j]] BY <1>1
<1>7. server' \in Seq(EntryType)
  <2>1. server' \in [1..Len(server) -> EntryType] BY <1>2, <1>5, <1>6
  <2> QED BY <1>2, <2>1, SeqDef
<1>8. \A c \in Slots : Busy(c)' = Busy(c) /\ Created(c)' = Created(c) BY <1>1 DEF Busy, Created
<1>9. StoreTypes' BY <1>1, <1>7, <1>8 DEF StoreInv, StoreTypes
<1>10. \A e \in ToSet(server') : e.id \in ids BY <1>2, <1>5, <1>6 DEF ToSet
<1>11. Known' BY <1>1, <1>10 DEF StoreInv, Known
<1>12. ActiveIsOpen' /\ LocalSurvives' BY <1>1 DEF StoreInv, ActiveIsOpen, LocalSurvives
<1>13. Once' BY <1>1, <1>8 DEF StoreInv, Once
<1> QED BY <1>9, <1>11, <1>12, <1>13 DEF StoreInv

LEMMA StoreInvStep ==
  StoreInv /\ [StoreNext]_storeVars => StoreInv'
<1> SUFFICES ASSUME StoreInv, [StoreNext]_storeVars PROVE StoreInv' OBVIOUS
<1>1. CASE UNCHANGED storeVars
  <2>1. \A c \in Slots : Busy(c)' = Busy(c) /\ Created(c)' = Created(c)
    BY <1>1 DEF Busy, Created, storeVars
  <2>2. StoreTypes' BY <1>1, <2>1 DEF StoreInv, StoreTypes, storeVars, uiVars, flags
  <2>3. Known' BY <1>1 DEF StoreInv, Known, storeVars, uiVars
  <2>4. ActiveIsOpen' /\ LocalSurvives'
    BY <1>1 DEF StoreInv, ActiveIsOpen, LocalSurvives, storeVars, uiVars
  <2>5. Apart => Apart' BY <1>1 DEF Apart, Distinct, OnServer, storeVars, uiVars
  <2>6. Once' BY <1>1, <2>1, <2>5 DEF StoreInv, Once, storeVars, uiVars, flags
  <2> QED BY <2>2, <2>3, <2>4, <2>6 DEF StoreInv
<1>2. ASSUME NEW id \in Ids, SetActiveSession(id) PROVE StoreInv' BY <1>2, SetActiveSessionStep
<1>3. ASSUME NEW id \in Ids, CloseTab(id) PROVE StoreInv' BY <1>3, CloseTabStep
<1>4. ASSUME NEW i \in DOMAIN tabs, NEW j \in DOMAIN tabs, ReorderTabs(i, j) PROVE StoreInv'
  BY <1>4, ReorderTabsStep
<1>5. CASE Restart BY <1>5, RestartStep
<1>6. ASSUME NEW c \in Slots, NEW id \in Ids, Poll(c) \/ CreateCall(c) \/ DeleteCall(c, id) \/ RenameCall(c, id)
      PROVE  StoreInv'
  <2>1. CASE Poll(c) BY <2>1, SendStep DEF Poll
  <2>2. CASE CreateCall(c) BY <2>2, SendStep DEF CreateCall, Call
  <2>3. CASE DeleteCall(c, id) BY <2>3, SendStep DEF DeleteCall, Call
  <2>4. CASE RenameCall(c, id) BY <2>4, SendStep DEF RenameCall, Call
  <2> QED BY <1>6, <2>1, <2>2, <2>3, <2>4
<1>7. ASSUME NEW c \in Slots, Poll(c) \/ CreateCall(c) PROVE StoreInv'
  BY <1>7, SendStep DEF Poll, CreateCall, Call
<1>8. ASSUME NEW c \in Slots, Serve(c) PROVE StoreInv' BY <1>8, ServeStep
<1>9. ASSUME NEW c \in Slots, Fail(c) PROVE StoreInv' BY <1>9, FailStep
<1>10. ASSUME NEW c \in Slots, Apply(c) PROVE StoreInv'
  BY <1>10, ApplyPollStep, ApplyCreateStep, ApplyDeleteStep, ApplyRenameStep DEF Apply
<1>11. ASSUME NEW i \in DOMAIN server, Mark(i) PROVE StoreInv' BY <1>11, MarkStep
<1> QED BY <1>1, <1>2, <1>3, <1>4, <1>5, <1>6, <1>7, <1>8, <1>9, <1>10, <1>11 DEF StoreNext

\* The invariant of the session list.
THEOREM StoreInvariance == StoreSpec => []StoreInv
BY StoreStarts, StoreInvStep, PTL DEF StoreSpec

\* The session that is shown has a tab.
THEOREM ActiveIsOpenHolds == StoreSpec => []ActiveIsOpen
<1>1. StoreInv => ActiveIsOpen BY DEF StoreInv
<1> QED BY <1>1, StoreInvariance, PTL

\* No session of the window alone is lost.
THEOREM LocalSurvivesHolds == StoreSpec => []LocalSurvives
<1>1. StoreInv => LocalSurvives BY DEF StoreInv
<1> QED BY <1>1, StoreInvariance, PTL

\* Until calls overlap, nothing is listed twice.
THEOREM ListedOnceHolds == StoreSpec => []ListedOnce
<1>1. StoreInv => ListedOnce
  BY DEF StoreInv, Once, Apart, Distinct, ListedOnce, IsInjective
<1> QED BY <1>1, StoreInvariance, PTL
=============================================================================
