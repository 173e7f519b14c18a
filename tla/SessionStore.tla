---------------------------- MODULE SessionStore ----------------------------
(***************************************************************************)
(* The session list of the desktop window: the store of                    *)
(* client/src/renderer/store/index.ts and the calls of                     *)
(* hooks/useSessions.ts that fill it from the server, which lists, creates, *)
(* renames and deletes rows (server/internal/session/handler.go).          *)
(*                                                                         *)
(* Its names differ from those of LocalPty, the other part of the window,   *)
(* so that one module can be about both.                                   *)
(*                                                                         *)
(* Each call has a slot: sent, then served, then its answer is applied to   *)
(* whatever the store holds by then.  Calls overlap, fail before or after   *)
(* the server handled them, and are applied in any order.                   *)
(***************************************************************************)
EXTENDS Naturals, SequencesExt

CONSTANTS
  Slots,          \* calls of the window that may be under way at once
  Ids,            \* bound: session ids, of the server and of the window
  NoSession,
  MaxMoves,       \* bound: things the user and the server do on their own
  MaxListed       \* bound: length of a list that is polled again

ASSUME StoreAssumption ==
  NoSession \notin Ids /\ MaxMoves \in Nat /\ MaxListed \in Nat

VARIABLES
  server,         \* the user's rows, newest first
  sessions, tabs, active,   \* sessions, openTabs and activeSessionId of the store
  call,           \* the call in a slot
  ids,            \* session ids given out
  local,          \* history: sessions made by the window alone and not deleted
  overlapped,     \* history: two calls were under way at once
  marked,         \* history: the server has marked a session offline
  moves           \* history: moves made

uiVars == <<sessions, tabs, active>>
flags == <<overlapped, marked>>
storeVars == <<server, uiVars, call, ids, local, flags, moves>>

\* Statuses other than "offline" make no difference here and are called "running".
Entry(id, status) == [id |-> id, status |-> status, name |-> "first"]
Idle == [op |-> "none", stage |-> "sent", id |-> NoSession, data |-> <<>>]

StoreInit ==
  /\ server = <<>> /\ sessions = <<>> /\ tabs = <<>> /\ active = NoSession
  /\ call = [c \in Slots |-> Idle]
  /\ ids = {} /\ local = {} /\ overlapped = FALSE /\ marked = FALSE /\ moves = 0

IdsOf(list) == {list[i].id : i \in DOMAIN list}

\* The elements of a list at the indices I, in their order: what filter() returns, as a
\* function that proofs can unfold.
Nth(I, k) == CHOOSE i \in I : Cardinality({j \in I : j <= i}) = k
Filter(list, I) == [k \in 1..Cardinality(I) |-> list[Nth(I, k)]]

Offline(list) == Filter(list, {i \in DOMAIN list : list[i].status = "offline"})
Without(list, id) == Filter(list, {i \in DOMAIN list : list[i].id # id})
OtherTabs(id) == Filter(tabs, {i \in DOMAIN tabs : tabs[i] # id})
ListedTabs(list) == Filter(tabs, {i \in DOMAIN tabs : tabs[i] \in IdsOf(list)})
Renamed(list, id) == [i \in DOMAIN list |-> IF list[i].id = id THEN [list[i] EXCEPT !.name = "second"]
                                            ELSE list[i]]
Move == moves < MaxMoves /\ moves' = moves + 1

-----------------------------------------------------------------------------
(* The store.                                                              *)

AddSession(e) ==
  /\ sessions' = <<e>> \o sessions
  /\ tabs' = Append(tabs, e.id)
  /\ active' = e.id

RemoveSession(id) ==
  LET rest == OtherTabs(id) IN
  /\ sessions' = Without(sessions, id)
  /\ tabs' = rest
  /\ active' = IF active # id THEN active ELSE IF rest = <<>> THEN NoSession ELSE Last(rest)

\* setActiveSession of the list, openTab of the tab bar.
SetActiveSession(id) ==
  /\ Move /\ id \in IdsOf(sessions) \cup ToSet(tabs)
  /\ active' = id
  /\ tabs' = IF Contains(tabs, id) THEN tabs ELSE Append(tabs, id)
  /\ UNCHANGED <<server, sessions, call, ids, local, flags>>

\* The tab that slides into the place of the closed one is shown, or the last.
CloseTab(id) ==
  LET rest == OtherTabs(id)
      i == Min({j \in DOMAIN tabs : tabs[j] = id})
  IN /\ Move /\ Contains(tabs, id)
     /\ tabs' = rest
     /\ active' = IF active # id THEN active
                  ELSE IF rest = <<>> THEN NoSession
                  ELSE rest[IF i <= Len(rest) THEN i ELSE Len(rest)]
     /\ UNCHANGED <<server, sessions, call, ids, local, flags>>

ReorderTabs(i, j) ==
  /\ Move /\ {i, j} \subseteq DOMAIN tabs /\ i # j
  /\ tabs' = InsertAt(RemoveAt(tabs, i), j, tabs[i])
  /\ UNCHANGED <<server, sessions, active, call, ids, local, flags>>

\* Mutant: the tab that was active is not filtered.
RestartAnyActive ==
  /\ Move
  /\ sessions' = Offline(sessions)
  /\ tabs' = ListedTabs(Offline(sessions))
  /\ call' = [c \in Slots |-> Idle]
  /\ UNCHANGED <<server, active, ids, local, flags>>

\* The app starts again: saveLocalSessions wrote, on every change, what loadLocalSessions
\* now reads.  What was under way is forgotten.
Restart ==
  /\ Move
  /\ sessions' = Offline(sessions)
  /\ tabs' = ListedTabs(Offline(sessions))
  /\ active' = IF active \in IdsOf(Offline(sessions)) THEN active ELSE NoSession
  /\ call' = [c \in Slots |-> Idle]
  /\ UNCHANGED <<server, ids, local, flags>>

-----------------------------------------------------------------------------
(* Calls.                                                                  *)

Send(c, op, id) ==
  /\ call[c].op = "none"
  /\ call' = [call EXCEPT ![c] = [op |-> op, stage |-> "sent", id |-> id, data |-> <<>>]]
  /\ overlapped' = (overlapped \/ \E d \in Slots : call[d].op # "none")
  /\ UNCHANGED <<server, uiVars, ids, local, marked>>

\* fetchSessions, every 3 seconds whether the last one was answered or not.
Poll(c) == Len(sessions) <= MaxListed /\ Send(c, "poll", NoSession) /\ UNCHANGED moves

\* Bound: ids are left for every create under way, the server's and the window's.
Room == Cardinality(ids) + 2 * Cardinality({c \in Slots : call[c].op = "create"}) + 2
          <= Cardinality(Ids)

Call(c, op, id) == Move /\ Send(c, op, id)
CreateCall(c) == Room /\ Call(c, "create", NoSession)
DeleteCall(c, id) == id \in IdsOf(sessions) /\ Call(c, "delete", id)
RenameCall(c, id) == id \in IdsOf(sessions) /\ Call(c, "rename", id)

Answer(c, stage, data) == call' = [call EXCEPT ![c].stage = stage, ![c].data = data]

\* The server handles the call; the answer arrives or not.
Serve(c) ==
  /\ call[c].op # "none" /\ call[c].stage = "sent"
  /\ CASE call[c].op = "poll" ->
            /\ Answer(c, "answered", server) /\ UNCHANGED <<server, ids>>
       [] call[c].op = "create" ->
            \E id \in Ids \ ids :
              /\ server' = <<Entry(id, "running")>> \o server
              /\ ids' = ids \cup {id}
              /\ \/ Answer(c, "answered", <<Entry(id, "running")>>)
                 \/ Answer(c, "failed", <<>>)
       [] call[c].op = "delete" ->
            /\ server' = Without(server, call[c].id)
            /\ Answer(c, "answered", <<>>) /\ UNCHANGED ids
       [] call[c].op = "rename" ->
            /\ server' = Renamed(server, call[c].id)
            /\ Answer(c, "answered", <<>>) /\ UNCHANGED ids
  /\ UNCHANGED <<uiVars, local, flags, moves>>

\* The call does not reach the server, or is refused.
Fail(c) ==
  /\ call[c].op # "none" /\ call[c].stage = "sent"
  /\ Answer(c, "failed", <<>>)
  /\ UNCHANGED <<server, uiVars, ids, local, flags, moves>>

Done(c) == call' = [call EXCEPT ![c] = Idle]

\* Mutant: the answer replaces the whole list.
ApplyPollAll(c) ==
  /\ call[c].op = "poll" /\ call[c].stage # "sent"
  /\ sessions' = IF call[c].stage = "failed" THEN sessions ELSE call[c].data
  /\ Done(c)
  /\ UNCHANGED <<server, tabs, active, ids, local, flags, moves>>

\* Mutant: the answer is added to the list.
ApplyPollAdds(c) ==
  /\ call[c].op = "poll" /\ call[c].stage # "sent"
  /\ sessions' = IF call[c].stage = "failed" THEN sessions
                 ELSE call[c].data
                      \o Filter(sessions, {i \in DOMAIN sessions : sessions[i] \notin ToSet(call[c].data)})
  /\ Done(c)
  /\ UNCHANGED <<server, tabs, active, ids, local, flags, moves>>

\* The answer replaces the list but for the sessions that are offline in it by now.
ApplyPoll(c) ==
  /\ call[c].op = "poll" /\ call[c].stage # "sent"
  /\ sessions' = IF call[c].stage = "failed" THEN sessions
                 ELSE call[c].data \o Offline(sessions)
  /\ Done(c)
  /\ UNCHANGED <<server, tabs, active, ids, local, flags, moves>>

\* A session that could not be created on the server is made by the window alone.
ApplyCreate(c) ==
  /\ call[c].op = "create" /\ call[c].stage # "sent"
  /\ IF call[c].stage = "answered"
     THEN AddSession(call[c].data[1]) /\ UNCHANGED <<ids, local, flags>>
     ELSE \E id \in Ids \ ids :
            /\ AddSession(Entry(id, "offline"))
            /\ ids' = ids \cup {id} /\ local' = local \cup {id}
  /\ Done(c)
  /\ UNCHANGED <<server, flags, moves>>

\* Whatever was answered, the session goes.
ApplyDelete(c) ==
  /\ call[c].op = "delete" /\ call[c].stage # "sent"
  /\ RemoveSession(call[c].id)
  /\ local' = local \ {call[c].id}
  /\ Done(c)
  /\ UNCHANGED <<server, ids, flags, moves>>

\* Whatever was answered, the name changes.
ApplyRename(c) ==
  /\ call[c].op = "rename" /\ call[c].stage # "sent"
  /\ sessions' = Renamed(sessions, call[c].id)
  /\ Done(c)
  /\ UNCHANGED <<server, tabs, active, ids, local, flags, moves>>

Apply(c) == ApplyPoll(c) \/ ApplyCreate(c) \/ ApplyDelete(c) \/ ApplyRename(c)

\* The hub marks a session offline when its worker is gone, and running when it is back.
Mark(i) ==
  /\ Move /\ i \in DOMAIN server
  /\ server' = [server EXCEPT ![i].status = IF @ = "offline" THEN "running" ELSE "offline"]
  /\ marked' = TRUE
  /\ UNCHANGED <<uiVars, call, ids, local, overlapped>>

-----------------------------------------------------------------------------
StoreNext ==
  \/ \E id \in Ids : SetActiveSession(id) \/ CloseTab(id)
  \/ \E i, j \in DOMAIN tabs : ReorderTabs(i, j)
  \/ Restart
  \/ \E c \in Slots : Poll(c) \/ CreateCall(c) \/ Serve(c) \/ Fail(c) \/ Apply(c)
  \/ \E c \in Slots, id \in Ids : DeleteCall(c, id) \/ RenameCall(c, id)
  \/ \E i \in DOMAIN server : Mark(i)

StoreSpec == StoreInit /\ [][StoreNext]_storeVars

\* The poll goes on, answers are applied, and the server can be reached again and again.
Fairness ==
  \A c \in Slots : WF_storeVars(Poll(c)) /\ WF_storeVars(Apply(c)) /\ SF_storeVars(Serve(c))

FairSpec == StoreSpec /\ Fairness

-----------------------------------------------------------------------------
(* Properties.                                                             *)

\* The session that is shown has a tab, through deletes, closed tabs, late answers and
\* restarts (store/index.ts:23-30, 80-136).
ActiveIsOpen == active # NoSession => Contains(tabs, active)

\* A session the server knows nothing of exists nowhere else: no poll, late answer or
\* restart loses it before it is deleted (useSessions.ts:22-26, store/index.ts:15-30).
LocalSurvives == local \subseteq IdsOf(Offline(sessions))

\* Until two calls overlap no session has two tabs, and until the server marks one
\* offline as well none is listed twice, whatever fails (useSessions.ts:20-26, 44-47, 81).
ListedOnce ==
  ~overlapped =>
    /\ IsInjective(tabs)
    /\ ~marked => IsInjective([i \in DOMAIN sessions |-> sessions[i].id])

\* Unless the server marks sessions, the list becomes, once the user stops, what the
\* server has and what only the window has, although late answers brought back deleted
\* sessions or dropped new ones.
Agrees ==
  /\ {sessions[i] : i \in {j \in DOMAIN sessions : sessions[j].status # "offline"}} = ToSet(server)
  /\ IdsOf(Offline(sessions)) = local
Converges == <>[](marked \/ Agrees)

-----------------------------------------------------------------------------
(* What the repository says and the code does not keep.                    *)

\* useSessions.ts:23 "Preserve local-only (offline) sessions that don't exist on server":
\* what the list keeps beside the server's rows are sessions the window made.
KeepsLocalOnly ==
  \A i, j \in DOMAIN sessions : i # j /\ sessions[j].status = "offline" =>
    sessions[i].id # sessions[j].id
=============================================================================
