---------------------------- MODULE BrowserViewer ----------------------------
(***************************************************************************)
(* The browser's terminal viewer, server/web/app.js: one page that keeps   *)
(* its token pair in two variables and in localStorage (always written     *)
(* together: held), and its terminal, socket and session in variables      *)
(* that every callback shares.                                             *)
(*                                                                         *)
(* A step is one callback of the page, or the server's part of a call.     *)
(* The server lists the same sessions all the time, and serves a refresh   *)
(* at once (TokenRotation has its statements one by one).  Which items of  *)
(* the list are highlighted is left out.                                   *)
(***************************************************************************)
EXTENDS Naturals

CONSTANTS
  Sessions, None,
  Calls,       \* bound: fetches in progress at once
  Sockets,     \* each used again once it is closed and forgotten
  MaxPairs     \* bound: token pairs the server issues

ASSUME ViewerAssumption ==
  /\ None \notin Sessions \cup Sockets /\ Calls # {} /\ MaxPairs \in Nat

NoPair == 0
Pairs == 1..MaxPairs

VARIABLES
  issued, rows, expired,   \* the server: pairs issued, refresh tokens it takes, access tokens it refuses
  held,                    \* accessToken, refreshToken and 'moltty_tokens'
  view,                    \* which of login form and app is displayed
  call,                    \* of each fetch: where it is, and the tokens it carries and was given
  listed,                  \* are the sessions listed?
  current, ws, sock,       \* currentSessionId, ws, and what the next event of each socket will tell
  of,                      \* the session a socket is for
  shown, noted,            \* of the shown terminal: whose output it has, does it say "Connection closed."?
  crossed                  \* history: a refresh was on its way at the last logout

serverVars == <<issued, rows, expired>>
pageVars == <<held, view, call, listed, crossed>>
terminalVars == <<current, ws, sock, of, shown, noted>>
vars == <<serverVars, pageVars, terminalVars>>

Idle == [pc |-> "idle", sent |-> NoPair, spent |-> NoPair, fresh |-> NoPair]
Asking(pair) == [Idle EXCEPT !.pc = "fetch", !.sent = pair]   \* loadSessions, authFetch

Init ==
  /\ issued = 0 /\ rows = {} /\ expired = {}
  /\ held = NoPair /\ view = "login" /\ call = [c \in Calls |-> Idle]
  /\ listed = FALSE /\ crossed = FALSE
  /\ current = None /\ ws = None /\ sock = [k \in Sockets |-> "idle"]
  /\ of = [k \in Sockets |-> None] /\ shown = {} /\ noted = FALSE

-----------------------------------------------------------------------------
(* The terminal.                                                           *)

\* ws.close(): of its events only onclose will come.
Closing == [k \in Sockets |-> IF k = ws /\ sock[k] # "idle" THEN "closing" ELSE sock[k]]

disconnectTerminal ==
  /\ sock' = Closing /\ ws' = None /\ current' = None
  /\ shown' = {} /\ noted' = FALSE
  /\ UNCHANGED of

Opens(s, c, before) ==
  /\ view = "app" /\ listed /\ s # current
  /\ LET Free == {k \in Sockets \ {ws} : sock[k] = "idle"}
         k == CHOOSE k \in Free : TRUE IN
       /\ Free # {}
       /\ ws' = k /\ of' = [of EXCEPT ![k] = s] /\ sock' = [before EXCEPT ![k] = "connecting"]
  /\ current' = s /\ shown' = {} /\ noted' = FALSE
  /\ call[c] = Idle /\ call' = [call EXCEPT ![c] = Asking(held)]
  /\ UNCHANGED <<serverVars, held, view, listed, crossed>>

\* Mutant: the socket of the session before stays open.
ConnectOver(s, c) == Opens(s, c, sock)

\* A click on an item: the terminal of before goes, and the list is asked for anew.
connectToSession(s, c) == Opens(s, c, Closing)

OnOpen(k) ==
  /\ sock[k] = "connecting" /\ sock' = [sock EXCEPT ![k] = "open"]
  /\ UNCHANGED <<serverVars, pageVars, current, ws, of, shown, noted>>

\* Output goes to the terminal that is shown.
OnMessage(k) ==
  /\ sock[k] = "open" /\ current # None
  /\ shown' = shown \cup {of[k]}
  /\ UNCHANGED <<serverVars, pageVars, current, ws, sock, of, noted>>

\* Mutant: a handshake that was refused is not told.
OnCloseOfOpened(k) ==
  /\ sock[k] # "idle" /\ sock' = [sock EXCEPT ![k] = "idle"]
  /\ noted' = (noted \/ (current # None /\ sock[k] = "open"))
  /\ UNCHANGED <<serverVars, pageVars, current, ws, of, shown>>

\* So does the note, whichever socket has closed; without a terminal it throws.
OnClose(k) ==
  /\ sock[k] # "idle" /\ sock' = [sock EXCEPT ![k] = "idle"]
  /\ noted' = (noted \/ current # None)
  /\ UNCHANGED <<serverVars, pageVars, current, ws, of, shown>>

-----------------------------------------------------------------------------
(* Tokens and the list.                                                    *)

\* Mutant: the page forgets the tokens and leaves them in localStorage.
LogoutKeepsTokens ==
  /\ UNCHANGED held /\ view' = "login" /\ disconnectTerminal
  /\ crossed' = \E c \in Calls : call[c].pc \in {"refresh", "refreshed"}

\* The logout button, clicked by the user or by authFetch.
Logout ==
  /\ held' = NoPair /\ view' = "login" /\ disconnectTerminal
  /\ crossed' = \E c \in Calls : call[c].pc \in {"refresh", "refreshed"}

ClickLogout == view = "app" /\ Logout /\ UNCHANGED <<serverVars, call, listed>>

ClickLogin(c) ==
  /\ view = "login" /\ call[c] = Idle
  /\ call' = [call EXCEPT ![c].pc = "login"]
  /\ UNCHANGED <<serverVars, held, view, listed, crossed, terminalVars>>

Issue(c, label, old) ==
  /\ issued < MaxPairs /\ issued' = issued + 1
  /\ rows' = (rows \ old) \cup {issued + 1}
  /\ call' = [call EXCEPT ![c].pc = label, ![c].fresh = issued + 1]

\* A call that gets no answer it can use ends.
Fails(c) ==
  /\ call[c].pc # "idle" /\ call' = [call EXCEPT ![c] = Idle]
  /\ UNCHANGED <<serverVars, held, view, listed, crossed, terminalVars>>

\* The server takes the password.
AnswerLogin(c) ==
  /\ call[c].pc = "login" /\ Issue(c, "signIn", {})
  /\ UNCHANGED <<expired, held, view, listed, crossed, terminalVars>>

\* showApp, which loads the list.
SignIn(c) ==
  /\ call[c].pc = "signIn"
  /\ held' = call[c].fresh /\ view' = "app"
  /\ call' = [call EXCEPT ![c] = Asking(held')]
  /\ UNCHANGED <<serverVars, listed, crossed, terminalVars>>

Accepts(pair) == pair # NoPair /\ pair \notin expired

\* renderSessions.
AnswerFetch(c) ==
  /\ call[c].pc \in {"fetch", "again"} /\ Accepts(call[c].sent)
  /\ listed' = TRUE
  /\ call' = [call EXCEPT ![c] = Idle]
  /\ UNCHANGED <<serverVars, held, view, crossed, terminalVars>>

\* 401: the refresh token that is held by now is sent.
AskRefresh(c) ==
  /\ call[c].pc = "fetch" /\ ~Accepts(call[c].sent) /\ held # NoPair
  /\ call' = [call EXCEPT ![c].pc = "refresh", ![c].spent = held]
  /\ UNCHANGED <<serverVars, held, view, listed, crossed, terminalVars>>

AnswerRefresh(c) ==
  /\ call[c].pc = "refresh"
  /\ \/ call[c].spent \in rows /\ Issue(c, "refreshed", {call[c].spent})
     \/ call[c].spent \notin rows /\ call' = [call EXCEPT ![c].pc = "refused"]
                                  /\ UNCHANGED <<issued, rows>>
  /\ UNCHANGED <<expired, held, view, listed, crossed, terminalVars>>

\* The new pair is kept, whether or not the user has logged out, and the list asked for again.
StoreRefresh(c) ==
  /\ call[c].pc = "refreshed" /\ held' = call[c].fresh
  /\ call' = [call EXCEPT ![c].pc = "again", ![c].sent = held']
  /\ UNCHANGED <<serverVars, view, listed, crossed, terminalVars>>

RefusedRefresh(c) ==
  /\ call[c].pc = "refused" /\ Logout
  /\ call' = [call EXCEPT ![c] = Idle]
  /\ UNCHANGED <<serverVars, listed>>

\* The page is loaded anew: only localStorage is left, and calls that were sent have no reader.
Reload ==
  /\ current' = None /\ ws' = None /\ shown' = {} /\ noted' = FALSE
  /\ sock' = [k \in Sockets |-> "idle"] /\ of' = [k \in Sockets |-> None]
  /\ listed' = FALSE /\ crossed' = FALSE
  /\ view' = IF held = NoPair THEN "login" ELSE "app"
  /\ LET first == CHOOSE c \in Calls : TRUE IN
       call' = [c \in Calls |-> IF c = first /\ held # NoPair THEN Asking(held) ELSE Idle]
  /\ UNCHANGED <<serverVars, held>>

Expires(n) ==
  /\ \/ n \in 1..issued \ expired /\ expired' = expired \cup {n} /\ UNCHANGED rows
     \/ n \in rows \cap expired /\ rows' = rows \ {n} /\ UNCHANGED expired
  /\ UNCHANGED <<issued, pageVars, terminalVars>>

-----------------------------------------------------------------------------
Next ==
  \/ \E c \in Calls :
       \/ ClickLogin(c) \/ AnswerLogin(c) \/ SignIn(c) \/ AnswerFetch(c) \/ AskRefresh(c)
       \/ AnswerRefresh(c) \/ StoreRefresh(c) \/ RefusedRefresh(c) \/ Fails(c)
       \/ \E s \in Sessions : connectToSession(s, c)
  \/ \E k \in Sockets : OnOpen(k) \/ OnMessage(k) \/ OnClose(k)
  \/ \E n \in Pairs : Expires(n)
  \/ ClickLogout \/ Reload

Spec == Init /\ [][Next]_vars

-----------------------------------------------------------------------------
(* Properties.                                                             *)

Labels == {"idle", "login", "signIn", "fetch", "refresh", "refreshed", "refused", "again"}

TypeOK ==
  /\ issued \in Nat /\ rows \subseteq Nat /\ expired \subseteq Nat /\ held \in Nat
  /\ view \in {"login", "app"} /\ listed \in BOOLEAN
  /\ call \in [Calls -> [pc : Labels, sent : Nat, spent : Nat, fresh : Nat]]
  /\ current \in Sessions \cup {None} /\ ws \in Sockets \cup {None}
  /\ sock \in [Sockets -> {"idle", "connecting", "open", "closing"}]
  /\ of \in [Sockets -> Sessions \cup {None}]
  /\ shown \subseteq Sessions \cup {None} /\ noted \in BOOLEAN /\ crossed \in BOOLEAN

\* Through quick changes of the session, logouts and reloads, a terminal has no output but
\* its session's, and nobody who is logged out has a terminal or a connection
\* (app.js:105-155, 183-195).
ShowsItsSession ==
  /\ shown \subseteq {current}
  /\ view = "login" => current = None /\ \A k \in Sockets : sock[k] \in {"idle", "closing"}

\* A terminal whose connection is over says so, which is all that tells the user to go
\* elsewhere: nothing connects it again (app.js:106, 153-155).
EndIsShown == current # None /\ sock[ws] = "idle" => noted

\* Who logged out has no tokens left in the browser, however calls were under way, unless a
\* refresh was (app.js:59-66, 205-217).
LoggedOutStaysOut == view = "login" /\ held # NoPair => crossed

-----------------------------------------------------------------------------
(* What the code does not keep.                                            *)

\* "Connection closed." is said of the session that is shown, see viewer_foreign_note.cfg.
NoteIsTrue == noted => sock[ws] = "idle"
=============================================================================
