------------------------ MODULE BrowserViewer_proofs -------------------------
(***************************************************************************)
(* Proofs about BrowserViewer, for any number of sessions, sockets, calls  *)
(* and token pairs: a terminal shows its own session, says when its        *)
(* connection is over, and a logout is not undone.                         *)
(*                                                                         *)
(* The argument: the shared variables current and ws are set and cleared   *)
(* together, every other socket is closed or closing (Shared), and only a  *)
(* refresh that was on its way can bring tokens back (LoggedOut).          *)
(***************************************************************************)
EXTENDS BrowserViewer, TLAPS

Shared ==
  /\ current = None <=> ws = None
  /\ ws # None => of[ws] = current
  /\ \A k \in Sockets \ {ws} : sock[k] \in {"idle", "closing"}
  /\ view = "login" => current = None

\* Nothing that is under way brings tokens back to who logged out.
LoggedOut ==
  view = "login" /\ ~crossed =>
    held = NoPair /\ \A c \in Calls : call[c].pc \notin {"refresh", "refreshed"}

IInv == TypeOK /\ Shared /\ shown \subseteq {current} /\ EndIsShown /\ LoggedOut

CallRecords == [pc : Labels, sent : Nat, spent : Nat, fresh : Nat]

LEMMA InitIInv == Init => IInv
<1> SUFFICES ASSUME Init PROVE IInv OBVIOUS
<1> USE DEF Init, NoPair
<1>1. TypeOK
  <2>1. Idle \in CallRecords BY DEF Idle, CallRecords, Labels
  <2>2. call \in [Calls -> CallRecords] BY <2>1
  <2> QED BY <2>2 DEF TypeOK, CallRecords
<1>2. Shared /\ shown \subseteq {current} /\ EndIsShown BY DEF Shared, EndIsShown
<1>3. LoggedOut BY DEF LoggedOut, Idle
<1> QED BY <1>1, <1>2, <1>3 DEF IInv

-----------------------------------------------------------------------------
\* Steps of calls leave the terminal alone.
LEMMA CallKeepsTerminal ==
  ASSUME IInv, UNCHANGED terminalVars, view' = view \/ view' = "app"
  PROVE  Shared' /\ (shown \subseteq {current})' /\ EndIsShown'
BY DEF IInv, Shared, EndIsShown, terminalVars

\* Steps of the terminal leave the calls alone.
LEMMA SocketKeepsCalls ==
  ASSUME IInv, UNCHANGED <<serverVars, pageVars>>
  PROVE  LoggedOut'
BY DEF IInv, LoggedOut, pageVars

LEMMA CallStep ==
  ASSUME IInv, NEW c \in Calls,
         \/ ClickLogin(c) \/ AnswerLogin(c) \/ SignIn(c) \/ AnswerFetch(c) \/ AskRefresh(c)
         \/ AnswerRefresh(c) \/ StoreRefresh(c) \/ Fails(c)
  PROVE  IInv'
<1> USE DEF serverVars, terminalVars
<1>t. UNCHANGED terminalVars /\ (view' = view \/ view' = "app")
  BY DEF ClickLogin, AnswerLogin, SignIn, AnswerFetch, AskRefresh, AnswerRefresh, StoreRefresh, Fails
<1>1. Shared' /\ (shown \subseteq {current})' /\ EndIsShown'
  BY <1>t, CallKeepsTerminal
<1>2. TypeOK'
  <2> USE DEF IInv, TypeOK, Labels, Idle, Asking, NoPair
  <2>1. CASE ClickLogin(c) BY <2>1 DEF ClickLogin
  <2>i. ASSUME NEW l \in Labels, NEW old, Issue(c, l, old)
        PROVE  call' \in [Calls -> CallRecords] /\ issued' \in Nat /\ rows' \subseteq Nat
    <3>1. issued' \in Nat /\ rows' \subseteq Nat BY <2>i DEF Issue
    <3>a. call[c] \in CallRecords /\ issued + 1 \in Nat BY DEF CallRecords
    <3>2. [call[c] EXCEPT !.pc = l, !.fresh = issued + 1] \in CallRecords
      BY <3>a, Zenon DEF CallRecords
    <3>3. call' = [call EXCEPT ![c] = [call[c] EXCEPT !.pc = l, !.fresh = issued + 1]]
      BY <2>i DEF Issue
    <3> QED BY <3>1, <3>2, <3>3 DEF CallRecords
  <2>2. CASE AnswerLogin(c)
    <3>1. call' \in [Calls -> CallRecords] /\ issued' \in Nat /\ rows' \subseteq Nat
      BY <2>2, <2>i DEF AnswerLogin
    <3> QED BY <2>2, <3>1 DEF AnswerLogin, CallRecords
  <2>3. CASE SignIn(c) BY <2>3 DEF SignIn
  <2>4. CASE AnswerFetch(c) BY <2>4 DEF AnswerFetch
  <2>5. CASE AskRefresh(c)
    <3>1. [call[c] EXCEPT !.pc = "refresh", !.spent = held] \in CallRecords BY ZenonT(40) DEF CallRecords
    <3>2. call' = [call EXCEPT ![c] = [call[c] EXCEPT !.pc = "refresh", !.spent = held]]
      BY <2>5 DEF AskRefresh
    <3>3. call' \in [Calls -> CallRecords] BY <3>1, <3>2 DEF CallRecords
    <3> QED BY <2>5, <3>3 DEF AskRefresh, CallRecords
  <2>6. CASE AnswerRefresh(c)
    <3>1. call' \in [Calls -> CallRecords] /\ issued' \in Nat /\ rows' \subseteq Nat
      <4>1. CASE Issue(c, "refreshed", {call[c].spent}) BY <4>1, <2>i
      <4>2. CASE call' = [call EXCEPT ![c].pc = "refused"] /\ UNCHANGED <<issued, rows>>
        BY <4>2 DEF CallRecords
      <4> QED BY <2>6, <4>1, <4>2 DEF AnswerRefresh
    <3> QED BY <2>6, <3>1 DEF AnswerRefresh, CallRecords
  <2>7. CASE StoreRefresh(c)
    <3>1. [call[c] EXCEPT !.pc = "again", !.sent = call[c].fresh] \in CallRecords
      BY ZenonT(40) DEF CallRecords
    <3>2. call' = [call EXCEPT ![c] = [call[c] EXCEPT !.pc = "again", !.sent = call[c].fresh]]
      BY <2>7 DEF StoreRefresh
    <3>3. call' \in [Calls -> CallRecords] BY <3>1, <3>2 DEF CallRecords
    <3> QED BY <2>7, <3>3 DEF StoreRefresh, CallRecords
  <2>8. CASE Fails(c) BY <2>8 DEF Fails
  <2> QED BY <2>1, <2>2, <2>3, <2>4, <2>5, <2>6, <2>7, <2>8
<1>3. LoggedOut'
  <2> USE DEF IInv, TypeOK, LoggedOut, Idle, Asking, NoPair
  <2>1. CASE ClickLogin(c) BY <2>1 DEF ClickLogin
  <2>2. CASE AnswerLogin(c) BY <2>2 DEF AnswerLogin, Issue
  <2>3. CASE SignIn(c) BY <2>3 DEF SignIn
  <2>4. CASE AnswerFetch(c) BY <2>4 DEF AnswerFetch
  <2>5. CASE AskRefresh(c) BY <2>5 DEF AskRefresh
  <2>6. CASE AnswerRefresh(c) BY <2>6 DEF AnswerRefresh, Issue
  <2>7. CASE StoreRefresh(c) BY <2>7 DEF StoreRefresh
  <2>8. CASE Fails(c) BY <2>8 DEF Fails
  <2> QED BY <2>1, <2>2, <2>3, <2>4, <2>5, <2>6, <2>7, <2>8
<1> QED BY <1>1, <1>2, <1>3 DEF IInv

LEMMA ConnectStep ==
  ASSUME IInv, NEW s \in Sessions, NEW c \in Calls, connectToSession(s, c)
  PROVE  IInv'
<1> USE DEF connectToSession, Opens
<1> DEFINE Free == {k \in Sockets \ {ws} : sock[k] = "idle"}
           new == CHOOSE k \in Free : TRUE
<1>1. new \in Sockets /\ new # ws /\ ws' = new BY DEF Opens
<1>2. /\ of' = [of EXCEPT ![new] = s] /\ sock' = [Closing EXCEPT ![new] = "connecting"]
      /\ current' = s /\ shown' = {} /\ noted' = FALSE /\ view' = "app" /\ view = "app"
  OBVIOUS
<1>3. Closing \in [Sockets -> {"idle", "connecting", "open", "closing"}]
  BY DEF IInv, TypeOK, Closing
<1> HIDE DEF new
<1>4. TypeOK'
  <2>1. call' \in [Calls -> [pc : Labels, sent : Nat, spent : Nat, fresh : Nat]]
    BY DEF IInv, TypeOK, Labels, Idle, Asking, NoPair
  <2>2. sock' \in [Sockets -> {"idle", "connecting", "open", "closing"}]
    BY <1>1, <1>2, <1>3
  <2>3. of' \in [Sockets -> Sessions \cup {None}] BY <1>2 DEF IInv, TypeOK
  <2>4. UNCHANGED <<serverVars, held, listed, crossed>> OBVIOUS
  <2> QED BY <1>1, <1>2, <2>1, <2>2, <2>3, <2>4 DEF IInv, TypeOK, serverVars
<1>5. Shared'
  <2>1. \A k \in Sockets \ {ws} : Closing[k] \in {"idle", "closing"}
    BY DEF IInv, Shared, Closing
  <2>2. ws \in Sockets => Closing[ws] \in {"idle", "closing"} BY DEF Closing
  <2>3. \A k \in Sockets \ {ws'} : sock'[k] \in {"idle", "closing"}
    BY <1>1, <1>2, <1>3, <2>1, <2>2
  <2>4. of'[new] = s BY <1>1, <1>2 DEF IInv, TypeOK
  <2> QED BY <1>1, <1>2, <2>3, <2>4, ViewerAssumption DEF Shared
<1>6. EndIsShown' BY <1>1, <1>2, <1>3 DEF EndIsShown
<1>7. LoggedOut' BY <1>2 DEF LoggedOut
<1> QED BY <1>2, <1>4, <1>5, <1>6, <1>7 DEF IInv

LEMMA SocketStep ==
  ASSUME IInv, NEW k \in Sockets, OnOpen(k) \/ OnMessage(k) \/ OnClose(k)
  PROVE  IInv'
<1> USE DEF IInv, serverVars, pageVars
<1>1. LoggedOut' BY SocketKeepsCalls DEF OnOpen, OnMessage, OnClose
<1>2. TypeOK' BY DEF TypeOK, OnOpen, OnMessage, OnClose
<1>3. Shared' BY DEF Shared, TypeOK, OnOpen, OnMessage, OnClose
\* Only the shared socket is open, and it is the shown session's.
<1>4. (shown \subseteq {current})'
  BY DEF Shared, OnOpen, OnMessage, OnClose
<1>5. EndIsShown'
  BY ViewerAssumption DEF EndIsShown, Shared, TypeOK, OnOpen, OnMessage, OnClose
<1> QED BY <1>1, <1>2, <1>3, <1>4, <1>5

LEMMA LogoutStep ==
  ASSUME IInv, Logout, UNCHANGED <<serverVars, listed>>,
         call' = call \/ \E c \in Calls : call' = [call EXCEPT ![c] = Idle]
  PROVE  IInv'
<1> USE DEF Logout, disconnectTerminal, serverVars
<1>1. Closing \in [Sockets -> {"idle", "connecting", "open", "closing"}]
      /\ \A k \in Sockets : Closing[k] \in {"idle", "closing"}
  BY DEF IInv, TypeOK, Shared, Closing
<1>2. TypeOK'
  <2>1. call' \in [Calls -> [pc : Labels, sent : Nat, spent : Nat, fresh : Nat]]
    BY DEF IInv, TypeOK, Labels, Idle, NoPair
  <2>2. crossed' \in BOOLEAN OBVIOUS
  <2> QED BY <1>1, <2>1, <2>2 DEF IInv, TypeOK, NoPair
<1>3. Shared' BY <1>1 DEF Shared
<1>4. EndIsShown' BY DEF EndIsShown
<1>5. LoggedOut'
  <2>1. ASSUME ~crossed', NEW d \in Calls PROVE call'[d].pc \notin {"refresh", "refreshed"}
    BY <2>1 DEF IInv, TypeOK, Idle
  <2> QED BY <2>1 DEF LoggedOut
<1> QED BY <1>2, <1>3, <1>4, <1>5 DEF IInv

LEMMA ReloadStep == ASSUME IInv, Reload PROVE IInv'
<1> USE DEF Reload, serverVars
<1>1. TypeOK'
  <2>1. call' \in [Calls -> [pc : Labels, sent : Nat, spent : Nat, fresh : Nat]]
    BY DEF IInv, TypeOK, Labels, Idle, Asking, NoPair
  <2> QED BY <2>1 DEF IInv, TypeOK
<1>2. Shared' BY DEF Shared
<1>3. EndIsShown' BY DEF EndIsShown
<1>4. LoggedOut'
  <2>1. \A c \in Calls : call'[c].pc \in {"idle", "fetch"} BY DEF Idle, Asking
  <2> QED BY <2>1 DEF LoggedOut
<1> QED BY <1>1, <1>2, <1>3, <1>4 DEF IInv

LEMMA StepKeeps == IInv /\ [Next]_vars => IInv'
<1> SUFFICES ASSUME IInv, [Next]_vars PROVE IInv' OBVIOUS
<1>1. CASE \E c \in Calls :
             \/ ClickLogin(c) \/ AnswerLogin(c) \/ SignIn(c) \/ AnswerFetch(c) \/ AskRefresh(c)
             \/ AnswerRefresh(c) \/ StoreRefresh(c) \/ Fails(c)
  BY <1>1, CallStep
<1>2. CASE \E s \in Sessions, c \in Calls : connectToSession(s, c) BY <1>2, ConnectStep
<1>3. CASE \E k \in Sockets : OnOpen(k) \/ OnMessage(k) \/ OnClose(k) BY <1>3, SocketStep
<1>4. CASE ClickLogout BY <1>4, LogoutStep DEF ClickLogout
<1>5. ASSUME NEW c \in Calls, RefusedRefresh(c) PROVE IInv'
  BY <1>5, LogoutStep DEF RefusedRefresh
<1>6. CASE Reload BY <1>6, ReloadStep
<1>7. ASSUME NEW n \in Pairs, Expires(n) PROVE IInv'
  <2>1. Shared' /\ (shown \subseteq {current})' /\ EndIsShown'
    BY <1>7, CallKeepsTerminal DEF Expires, pageVars, terminalVars
  <2>a. n \in Nat BY ViewerAssumption DEF Pairs
  <2>2. TypeOK'
    <3>1. issued' \in Nat /\ rows' \subseteq Nat /\ expired' \subseteq Nat
      BY <1>7, <2>a DEF IInv, TypeOK, Expires
    <3>2. UNCHANGED <<pageVars, terminalVars>> BY <1>7 DEF Expires
    <3> QED BY <3>1, <3>2 DEF IInv, TypeOK, pageVars, terminalVars
  <2>3. LoggedOut' BY <1>7 DEF IInv, LoggedOut, Expires, pageVars
  <2> QED BY <2>1, <2>2, <2>3 DEF IInv
<1>8. CASE UNCHANGED vars
  BY <1>8 DEF vars, serverVars, pageVars, terminalVars, IInv, TypeOK, Shared, EndIsShown, LoggedOut
<1> QED BY <1>1, <1>2, <1>3, <1>4, <1>5, <1>6, <1>7, <1>8 DEF Next

-----------------------------------------------------------------------------
\* Whatever the order of clicks, events and answers, the invariant holds.
THEOREM Invariance == Spec => []IInv
BY InitIInv, StepKeeps, PTL DEF Spec

\* Every variable of the page has its type.
THEOREM TypeCorrect == Spec => []TypeOK
<1>1. IInv => TypeOK BY DEF IInv
<1> QED BY <1>1, Invariance, PTL

\* For any number of sessions and sockets a terminal has no output but its session's, and
\* nobody who is logged out has a connection (app.js:105-155, 183-195).
THEOREM ShowsItsSessionHolds == Spec => []ShowsItsSession
<1>1. IInv => ShowsItsSession
  BY ViewerAssumption DEF IInv, Shared, TypeOK, ShowsItsSession
<1> QED BY <1>1, Invariance, PTL

\* A terminal whose connection is over always says so (app.js:153-155).
THEOREM EndIsShownHolds == Spec => []EndIsShown
<1>1. IInv => EndIsShown BY DEF IInv
<1> QED BY <1>1, Invariance, PTL

\* However many calls are under way at a logout, only a refresh brings tokens back
\* (app.js:59-66, 205-217).
THEOREM LoggedOutStaysOutHolds == Spec => []LoggedOutStaysOut
<1>1. IInv => LoggedOutStaysOut BY DEF IInv, LoggedOut, LoggedOutStaysOut
<1> QED BY <1>1, Invariance, PTL
=============================================================================
