---------------------------- MODULE TokenRotation ----------------------------
(***************************************************************************)
(* Signing in and staying signed in: the refresh tokens of                 *)
(* server/internal/auth/jwt.go and handler.go, and the client that spends  *)
(* them: request() of client/src/renderer/services/api.ts, useAuth.ts, and *)
(* the token file of the main process (auth-store.ts), which every request *)
(* of the window reads and may replace or clear.                           *)
(*                                                                         *)
(* A token pair is a number, counted from 1: the n-th the server issued.   *)
(* A step is an answer of the main process, an answer of the network, or   *)
(* one database statement; requests of the window (a poll every 3 seconds, *)
(* clicks, terminals that open) run concurrently.                          *)
(***************************************************************************)
EXTENDS Naturals, FiniteSets

CONSTANTS
  Requests,      \* calls of request(), each slot used again and again
  MaxPairs,      \* bound: token pairs issued
  MaxFaults      \* bound: tokens whose refresh fails in the database or on the way back

ASSUME TokenAssumption == MaxPairs \in Nat /\ MaxFaults \in Nat

NoPair == 0

VARIABLES
  issued,        \* how many pairs the server has issued
  rows,          \* refresh tokens in the database
  expired,       \* pairs whose access token has run out
  lapsed,        \* pairs whose refresh token has run out
  stored,        \* the pair in the token file of the main process
  authed,        \* isAuthenticated of the window
  pc,
  sent,          \* the access token a request carries
  spent,         \* the refresh token it redeems
  fresh,         \* the pair it was answered
  lost,          \* history: refresh tokens whose answer was lost on the way
  faulted,       \* history: refresh tokens refused because a statement failed
  kept,          \* history: refresh tokens whose DELETE failed
  redeemed,      \* history: how often a refresh token was exchanged for a pair
  overlapped,    \* history: two requests were refreshing at once
  crossed        \* history: a refresh was on its way at the last sign-out

dbVars  == <<issued, rows>>
reqVars == <<sent, spent, fresh>>
history == <<lost, faulted, kept, redeemed, overlapped, crossed>>
vars == <<dbVars, expired, lapsed, stored, authed, pc, reqVars, history>>

Pairs == 1..MaxPairs

Init ==
  /\ issued = 0 /\ rows = {} /\ expired = {} /\ lapsed = {} /\ stored = NoPair /\ authed = FALSE
  /\ pc = [q \in Requests |-> "idle"]
  /\ sent = [q \in Requests |-> NoPair] /\ spent = [q \in Requests |-> NoPair]
  /\ fresh = [q \in Requests |-> NoPair]
  /\ lost = {} /\ faulted = {} /\ kept = {}
  /\ redeemed = [n \in Pairs |-> 0] /\ overlapped = FALSE /\ crossed = FALSE

Goto(q, label) == pc' = [pc EXCEPT ![q] = label]

MayFail == Cardinality(lost) + Cardinality(faulted) + Cardinality(kept) < MaxFaults

\* request() ends: what it had read is gone.
Return(q) ==
  /\ Goto(q, "idle")
  /\ sent' = [sent EXCEPT ![q] = NoPair] /\ spent' = [spent EXCEPT ![q] = NoPair]
  /\ fresh' = [fresh EXCEPT ![q] = NoPair]

-----------------------------------------------------------------------------
(* Time, sign-in and sign-out.                                             *)

\* Access tokens run out after 15 minutes, refresh tokens after 7 days, pair by pair.
AccessExpires(n) ==
  /\ n \in 1..issued /\ expired' = expired \cup {n}
  /\ UNCHANGED <<authed, dbVars, lapsed, stored, pc, reqVars, history>>

RefreshExpires(n) ==
  /\ n \in expired /\ lapsed' = lapsed \cup {n}
  /\ UNCHANGED <<authed, dbVars, expired, stored, pc, reqVars, history>>

\* Login, Register or the OAuth callback: GenerateTokenPair, then the file and the window.
SignIn ==
  /\ issued < MaxPairs
  /\ issued' = issued + 1 /\ rows' = rows \cup {issued + 1}
  /\ stored' = issued + 1 /\ authed' = TRUE
  /\ UNCHANGED <<expired, lapsed, pc, reqVars, history>>

\* logout clears the file and tells the window: the row stays, requests go on.
SignOut ==
  /\ authed /\ authed' = FALSE /\ stored' = NoPair
  /\ crossed' = \E q \in Requests : pc[q] \in {"find", "delete", "generate", "set"}
  /\ UNCHANGED <<dbVars, expired, lapsed, pc, reqVars, lost, faulted, kept, redeemed, overlapped>>

-----------------------------------------------------------------------------
(* request().                                                              *)

\* getAccessToken.
ReadAccess(q) ==
  /\ pc[q] = "idle"
  /\ sent' = [sent EXCEPT ![q] = stored]
  /\ Goto(q, "fetch")
  /\ UNCHANGED <<authed, dbVars, expired, lapsed, stored, spent, fresh, history>>

Refreshing == {"find", "delete", "generate", "set", "clear"}

Accepts(n) == n # NoPair /\ n \notin expired

\* The fetch: an answer, or an error that ends the call.
Fetch(q) ==
  /\ pc[q] = "fetch"
  /\ \/ Return(q)
     \/ ~Accepts(sent[q]) /\ Goto(q, "readRefresh") /\ UNCHANGED reqVars
  /\ UNCHANGED <<authed, dbVars, expired, lapsed, stored, history>>

\* Mutant: the refresh token that was read with the access token is spent.
ReadRefreshBefore(q) ==
  /\ pc[q] = "readRefresh"
  /\ spent' = [spent EXCEPT ![q] = sent[q]]
  /\ Goto(q, IF sent[q] = NoPair THEN "clear" ELSE "find")
  /\ overlapped' = (overlapped \/ \E p \in Requests : pc[p] \in Refreshing)
  /\ UNCHANGED <<authed, dbVars, expired, lapsed, stored, sent, fresh, lost, faulted, kept, redeemed, crossed>>

\* After a 401 the token file is read again.
ReadRefresh(q) ==
  /\ pc[q] = "readRefresh"
  /\ spent' = [spent EXCEPT ![q] = stored]
  /\ Goto(q, IF stored = NoPair THEN "clear" ELSE "find")
  /\ overlapped' = (overlapped \/ \E p \in Requests : pc[p] \in Refreshing)
  /\ UNCHANGED <<authed, dbVars, expired, lapsed, stored, sent, fresh, lost, faulted, kept, redeemed, crossed>>

\* ValidateRefreshToken: the SELECT; a missing row, one past its time and a failed
\* statement are refused alike ...
FindRow(q) ==
  /\ pc[q] = "find"
  /\ \/ /\ Goto(q, IF spent[q] \in rows \ lapsed THEN "delete" ELSE "clear")
        /\ UNCHANGED faulted
     \/ MayFail /\ Goto(q, "clear") /\ faulted' = faulted \cup {spent[q]}
  /\ UNCHANGED <<authed, dbVars, expired, lapsed, stored, reqVars, lost, kept, redeemed, overlapped, crossed>>

\* The refresh or its refusal gets lost: the fetch throws out of request(), the file stays.
RefreshThrows(q) ==
  /\ pc[q] = "find" /\ MaxFaults > 0
  /\ Return(q)
  /\ UNCHANGED <<authed, dbVars, expired, lapsed, stored, history>>

\* Mutant: the used token stays.
DeleteNothing(q) ==
  /\ pc[q] = "delete"
  /\ Goto(q, "generate")
  /\ UNCHANGED <<authed, dbVars, expired, lapsed, stored, reqVars, history>>

\* ... and the DELETE, whose outcome nobody looks at.
DeleteRow(q) ==
  /\ pc[q] = "delete"
  /\ \/ rows' = rows \ {spent[q]} /\ UNCHANGED kept
     \/ MayFail /\ kept' = kept \cup {spent[q]} /\ UNCHANGED rows
  /\ Goto(q, "generate")
  /\ UNCHANGED <<authed, issued, expired, lapsed, stored, reqVars, lost, faulted, redeemed, overlapped, crossed>>

\* The answer gets lost: the fetch throws and the file stays.
AnswerLost(q) ==
  /\ MayFail /\ lost' = lost \cup {spent[q]} /\ Return(q)
  /\ UNCHANGED faulted

\* GenerateTokenPair and the answer.
Generate(q) ==
  /\ pc[q] = "generate" /\ issued < MaxPairs
  /\ issued' = issued + 1 /\ rows' = rows \cup {issued + 1}
  /\ redeemed' = [redeemed EXCEPT ![spent[q]] = @ + 1]
  /\ \/ /\ fresh' = [fresh EXCEPT ![q] = issued + 1] /\ Goto(q, "set")
        /\ UNCHANGED <<sent, spent, lost, faulted>>
     \/ AnswerLost(q)
  /\ UNCHANGED <<authed, expired, lapsed, stored, kept, overlapped, crossed>>

\* GenerateTokenPair fails: a 500, though the token is spent already.
GenerateFails(q) ==
  /\ pc[q] = "generate" /\ MayFail
  /\ \/ /\ faulted' = faulted \cup {spent[q]} /\ Goto(q, "clear")
        /\ UNCHANGED <<reqVars, lost>>
     \/ AnswerLost(q)
  /\ UNCHANGED <<authed, dbVars, expired, lapsed, stored, kept, redeemed, overlapped, crossed>>

\* Mutant: the new pair serves the retry and is not saved.
SetTokenUnsaved(q) ==
  /\ pc[q] = "set"
  /\ sent' = [sent EXCEPT ![q] = fresh[q]]
  /\ Goto(q, "retry")
  /\ UNCHANGED <<authed, dbVars, expired, lapsed, stored, spent, fresh, history>>

\* setToken: saveTokens and initWorker; then the request is sent once more.
SetToken(q) ==
  /\ pc[q] = "set"
  /\ stored' = fresh[q] /\ sent' = [sent EXCEPT ![q] = fresh[q]]
  /\ Goto(q, "retry")
  /\ UNCHANGED <<authed, dbVars, expired, lapsed, spent, fresh, history>>

\* Whatever is answered this time is the answer.
Retry(q) ==
  /\ pc[q] = "retry" /\ Return(q)
  /\ UNCHANGED <<authed, dbVars, expired, lapsed, stored, history>>

\* clearToken: clearTokens and stopWorker.
ClearToken(q) ==
  /\ pc[q] = "clear" /\ stored' = NoPair
  /\ Return(q)
  /\ UNCHANGED <<authed, dbVars, expired, lapsed, history>>

-----------------------------------------------------------------------------
Request(q) ==
  \/ ReadAccess(q) \/ Fetch(q) \/ ReadRefresh(q) \/ FindRow(q) \/ RefreshThrows(q)
  \/ DeleteRow(q) \/ Generate(q) \/ GenerateFails(q) \/ SetToken(q) \/ Retry(q) \/ ClearToken(q)

Next ==
  \/ SignIn \/ SignOut
  \/ \E n \in Pairs : AccessExpires(n) \/ RefreshExpires(n)
  \/ \E q \in Requests : Request(q)

Spec == Init /\ [][Next]_vars

-----------------------------------------------------------------------------
(* Properties.                                                             *)

Labels == {"idle", "fetch", "readRefresh", "find", "delete", "generate", "set", "retry", "clear"}

TypeOK ==
  /\ issued \in 0..MaxPairs /\ rows \subseteq 1..issued
  /\ expired \subseteq Pairs /\ lapsed \subseteq Pairs
  /\ lost \subseteq Pairs /\ faulted \subseteq Pairs /\ kept \subseteq Pairs
  /\ stored \in 0..issued
  /\ pc \in [Requests -> Labels]
  /\ sent \in [Requests -> 0..issued] /\ spent \in [Requests -> 0..issued]
  /\ fresh \in [Requests -> 0..issued]
  /\ \A q \in Requests : pc[q] \in {"find", "delete", "generate"} => spent[q] # NoPair
  /\ redeemed \in [Pairs -> Nat] /\ overlapped \in BOOLEAN
  /\ authed \in BOOLEAN /\ crossed \in BOOLEAN

\* However requests race to refresh and whatever statement fails, the refresh token in the
\* file is good unless it ran out of time, its answer was lost, or a request is about to
\* replace or clear it (jwt.go:67-76, handler.go:103-111, api.ts:50-67).
StoredIsUsable ==
  stored # NoPair =>
    \/ stored \in rows \cup lost
    \/ \E q \in Requests : spent[q] = stored /\ pc[q] \in {"generate", "set", "clear"}

\* A refresh token redeemed several times was redeemed by requests that overlapped, or the
\* DELETE failed, which nobody looks at: otherwise a spent token is refused to whoever
\* asks after the DELETE (jwt.go:70-74).
ReplayOverlaps ==
  [][\A q \in Requests :
       pc[q] = "find" /\ pc'[q] = "delete" => redeemed[spent[q]] = 0 \/ spent[q] \in kept]_vars

\* Until two requests refresh at once, a request signs the user out only when the token
\* it had was past its time, its renewal got lost or failed in the database, or the user
\* was signed in anew in the meantime (api.ts:50-66, jwt.go:70, handler.go:103-111).
SignedOutForCause ==
  [][~overlapped /\ stored # NoPair =>
       \A q \in Requests : pc[q] = "clear" /\ pc'[q] = "idle" =>
         stored \in lapsed \cup lost \cup faulted \/ spent[q] # stored]_vars

\* Who signed out stays out: unless a refresh was on its way then, no request that is
\* still under way puts tokens into the file again, and starts the worker with them
\* (api.ts:50-66, useAuth.ts:58-61, index.ts:147-155).
SignedOutStaysOut == ~authed /\ stored # NoPair => crossed

-----------------------------------------------------------------------------
(* What the repository says and the code does not keep.                    *)

\* jwt.go:73 "Delete used refresh token (rotation)": a refresh token is used once.
UsedOnce == \A n \in Pairs : redeemed[n] <= 1
=============================================================================
