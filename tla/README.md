# moltty: TLA+ models, checks and proofs

moltty runs Claude Code on a Mac (the *worker*, an Electron app), relays its terminals through a
Go *server*, and shows them to *viewers* (the same app, a browser). This directory models the
parts of it where processes, callbacks, network and database interleave, checks them with TLC,
and proves the central results with TLAPS. Paths below are relative to `src/`; line numbers are
those of the commit the models were written from. The repository has no tests.

## 1. Inventory

| Component | State | Operations | Talks to | Hard behaviours | What makes it correct | Model |
|---|---|---|---|---|---|---|
| Worker hub `server/internal/worker/hub.go` | `workers`, `SessionIDs`, `sessions` under `h.mu`; rows in two tables | register, unregister, worker messages, spawn, input, resize, kill | a goroutine per WebSocket and per request; the database; agents | old and new handler of one worker overlap; rows read, then saved; server crash | sessions stay on their machine, none is forgotten at a reconnect, rows agree with connections | `WorkerHub` |
| Relay of a session `hub.go`, `scrollback.go`, `proxy/websocket.go` | scrollback, viewers, `relay.mu` | output, fan-out, open, join, leave | handlers (producers), viewer sockets | joins during a fan-out, relay replaced by another, slow viewers | each chunk once and in order, the tail of the output kept | `ViewerRelay`, `Broadcast` |
| Session manager, worker sessions `session/*.go` | session rows | create, rename, delete | hub, database | rename and delete race with the hub's row updates | as the hub | `WorkerHub` |
| Session manager, container sessions `session/manager.go`, `container/*.go` | session rows, node counters, containers | create, destroy | Docker, database | every call may fail; creations overlap | counters match rows, no leaked container, capacity | `ContainerPool` |
| Tokens `auth/jwt.go`, `auth/handler.go`; `renderer/services/api.ts`, `main/auth-store.ts` | refresh-token rows, token file | sign in, refresh, sign out | window to main process to server | concurrent refreshes, lost answers, expiry | the stored token is good; no sign-out without cause | `TokenRotation` |
| Worker agent `main/worker-manager.ts`, `main/index.ts` | socket, timer, attempts, PTYs per manager | connect, reconnect, spawn, kill, disconnect | server, PTYs, window | callbacks of a replaced manager; back-off; respawns | one chain of attempts, a map of live PTYs, a status that is current | `WorkerManager`, `Reconnection` |
| Session list of the window `renderer/store`, `hooks/useSessions.ts` | sessions, tabs, active; localStorage | poll, create, delete, rename, tabs, restart | server's REST calls | answers late, lost, out of order | local sessions survive, no duplicates, convergence | `SessionStore` |
| Local terminals `main/index.ts`, `hooks/useTerminal.ts` | PTY map; mounted, loaded | spawn or reattach, kill, output, exit | IPC | tabs closed and reopened, reloads, late exits | one PTY per open tab, no cross-talk | `LocalPty` |
| Remote terminals `renderer/services/ws.ts`, `useTerminal.ts` | socket, retry timer, attempts, size | connect, reconnect, resize, disconnect | main process (URL), server's proxy | URL, retry or close event meets the closing of the tab | one attempt at a time, a size that is known, an end that is told | `TerminalSocket` over `TerminalLink`, `Reconnection` |
| Container proxy `proxy/websocket.go`, `container/pty-bridge/main.go` | two sockets, four goroutines, a shell | relay both ways, SIGHUP, close | terminal, container | any side ends first, output still on its way | the last output arrives, nothing is left behind | `PtyBridge`; composed in `ContainerTerminal` |
| Browser viewer `server/web/app.js` | tokens, current session, its socket, its terminal | log in and out, list, select, refresh | server's REST calls and proxy | callbacks of an old socket, answers after a logout | a terminal shows its session, a logout stays one | `BrowserViewer` |
| Google sign-in `auth/google.go` | state cookie | redirect, callback, hand-over | Google, browser | - | - | not modelled |
| Users, passwords, middleware, configuration, database, React components, landing page | - | stateless or presentation | - | - | - | not modelled |

`ResumeSession`, `HealthCheck` and `updateToken` have no caller and are not modelled. Google sign-in
keeps nothing but a cookie between two redirects, and hands its tokens to the page that opened it by
`postMessage`, to which only a button listens that no component renders; nothing else depends on it.
For the same reason the window signs in through the OAuth callback of the main process alone.

## 2. Modules

One module per component, an `MC*` module with the instances for TLC, a `*_proofs` module with
the theorems. No module uses RECURSIVE.

**WorkerHub.** A process is a goroutine: the read loop of a worker's WebSocket (`Conns`),
`DELETE /workers/w` (`Workers`), `POST /sessions` (`Sessions`); renames, deletes, key presses and
terminals that open are steps of a session. A step is one critical section of `h.mu`, one SQL
statement or one write to a WebSocket. Three things keep a mutex over several steps.
`UnregisterWorker` keeps `h.mu`, and `hmu` names its holder. The ping loop keeps its read lock from
`PingBegin` to `PingEnd`, across its writes to every worker; whoever locks `h.mu` waits, whoever only
reads may pass (`Readable`). A fan-out keeps `relay.mu` (`FanningOut`), and `MarkRelay` waits for it
with `h.mu` held. A relay that was replaced counts as its successor there, so the model has that wait
at least as often as the code. `link`, `toServer` and `toWorker` are the network, `sock`, `ptys` and
`mapped` the agent at the other end. `ServerCrash` keeps the database only.

What fails is of three kinds, and `MaxFaults` bounds them together. Any statement of a handler or of
`UnregisterWorker` may fail (`StatementFails`): the code ignores most of these errors and goes on, and
`FindResumableFails` resumes nothing (hub.go:95-98). The agent may fail to make a session's directory
(`AgentSpawnThrows`): `mkdirSync` throws outside the `try` (worker-manager.ts:171), `connect` logs it
as an invalid message, and the server hears of neither a start nor an exit. `faulted` records the
sessions and workers concerned. And a peer may stop reading while its connection stays open
(`StopsReading`, `hung`), so that no write to it returns, because no write deadline is set anywhere.
A request of the user whose statement fails changes nothing; it is one that never takes its next step.

**ViewerRelay** is the relay of one session with its producers and viewers. Output is counted
in bytes, so that the scrollback is the interval `lo..hi` and a chunk a start and a length.
`relay.mu` (`rmu`) is held across the writes of a fan-out. **Broadcast** is what a relay promises
whoever watches: all that is broadcast since the join, each part once, before anything else is
broadcast. `ViewerRelay!ImplementsBroadcast` is the refinement, for any one relay (`Watched`). A viewer leaves
in two steps, as `UnregisterViewer` does: the look-up under `h.mu` and the removal under `relay.mu`.

**WorkerManager**: several manager objects, because callbacks of one that was replaced still run.
Each step is one callback of the single-threaded main process. The constructor of a WebSocket may
throw wherever `connect()` is called: for the first manager (`FirstWorkerThrows`), for one that
replaces another (`ReplaceWorkerThrows`), and from the timer (`OnTimerThrows`).

**Reconnection** is what both reconnecting clients promise, the manager and the terminal of a tab: one
attempt, connection or wait at a time, `MaxTries` waits between two connections, nothing after the end.
A client may begin with a wait, when its first `connect()` throws.
`ImplementsReconnection` of `WorkerManager` and of `TerminalSocket` are the refinements. `Doing` reads
off sockets, timer and owner what a client is doing; two sockets at once, a timer beside a socket, or
anything of a client that was stopped is "astray", which is no phase. All clients are one instance,
with functions over them, so that TLC can check it; the app stops one manager and starts another in
one step, which is why a step of `Reconnection` moves each client or leaves it alone.

**ContainerPool**: requests that create a session and requests that delete one; a step is one
statement or one Docker call. Three history variables say under which circumstances a property is
stated: `overlapped` (two creations at once), `crossed` (a DELETE met another request on its
session), `trouble` (nothing failed; a call did; bookkeeping did). A rename of a container session
(session/handler.go:102-125), which saves the whole row it read, is not among the requests; the stale
save is modelled for worker sessions, by `RenameRead` and `RenameWrite` of `WorkerHub`.

**TokenRotation**: a token pair is a number. `request()` of the window is the process; each read
or write of the token file, each fetch, and each statement of the server is a step, and each of these
may fail: the SELECT (`FindRow`; jwt.go:70 refuses with 401 for any error), the DELETE (`DeleteRow`;
nobody looks at it), the INSERT of the new pair (`GenerateFails`; 500 with the old token spent). The
client clears its file on any answer that is not ok (api.ts:59-66). `faulted` are the tokens refused
because a statement failed, `kept` those whose DELETE failed, `lost` those whose answer got lost.
Signing in and out write the same file, and `authed` is what the window shows meanwhile.

**SessionStore**: calls in slots: sent, served or failed, applied to whatever the store holds then.
JavaScript's `filter` is the function `Filter`, the elements of a list at a set of indices in their
order, which a proof can unfold (the library's `SelectSeq` is recursive). Names differ from those of
`LocalPty`, so that `Window_proofs` can be about both halves of the window.

**LocalPty**: the two processes and the ordered IPC messages between them.

**TerminalLink** is the connection between a terminal and the server's proxy as its ends see it.
**TerminalSocket** extends it with the window's end: a terminal is one mount of a tab with its
`TerminalWebSocket`, a step is one callback. **PtyBridge** extends it with the server's end: the
proxy's handler and its goroutine, the connection to the container, the bridge's handler with its two
goroutines, and the shell. All of that belongs to one connection, so `conn` is a record per socket; of
the output one message is followed, the shell's last, since messages keep their order on the way.
**ContainerTerminal** composes the two: `sock` and `link` are all they share. Sockets are used again
once both ends are done with them, which keeps the number of reconnections unbounded.

**BrowserViewer**: the page's shared variables, its sockets and its fetches in progress. A step is one
callback, or the server's part of a call. The server's refresh is one step here; `TokenRotation` has
its statements one by one.

How they fit: the agent of `WorkerHub` is one manager of `WorkerManager`; the relay entry that
`WorkerHub` reduces to its worker is the relay of `ViewerRelay`; the pair that `TokenRotation`
stores is what makes `initWorker` replace the manager; `Mark` of `SessionStore` is `MarkWrite` of
`WorkerHub`; the socket of `TerminalSocket` ends at `PtyBridge` for a container session and at the
viewer of `ViewerRelay` for a worker session. The other compositions are not built because their
product is out of TLC's reach and each module's environment is at least as free as the other module.

## 3. Runs

All runs have `CHECK_DEADLOCK FALSE`: each system may stop when its connections, ids, pairs or
moves are used up, or when users do nothing. Liveness is checked against the named fairness.

| Run | Bounds | Shows |
|---|---|---|
| `hub_orderly` | 1 worker, 1 session, 2 connections, 1 rename, deletions, 1 queued input or output, 1 failing statement or spawn, no overlap | a row that says running will be taken out of it (`RunningIsTracked`); the worker's row agrees with its connection |
| `hub_live` | 1 worker, 1 session, 2 overlapping connections, ping loop, 1 queued output, 1 failure or peer that stops reading | no offline session is forgotten; handlers of dead connections end unless a write never returns; offline sessions are resumed |
| `hub_two_workers` | 2 workers, 1 session, 3 connections (two of one worker), 1 crash or 1 removal of the other worker, 1 queued input or output, no deletions | messages about a session never concern another worker |
| `relay_one` | 1 producer, 2 viewers, 2 relays, scrollback 2, chunks of 1-2, 3 bytes | each chunk once, in order, at most one twice; refinement of `Broadcast`; nobody waits for `relay.mu` for ever |
| `manager_callbacks` | 2 managers, 2 sockets, 2 PTYs, 1 session, 6 attempts, each of which may throw | each manager implements `Reconnection`; current status, live entries, back-off, no early silence |
| `pool_requests` | 3 creations, 2 deleters, 2 nodes of capacity 1 | counters, containers, leaks, capacity |
| `token_race` | 2 requests, 3 pairs, 1 failed statement or lost answer | the stored token is usable; signed out stays out; reuse only in overlaps; sign-outs have a cause |
| `store_calls` | 2 slots, 3 ids, 3 moves, lists up to 3 | tabs, local sessions, duplicates, convergence |
| `pty_tabs` | 2 sessions, 3 PTYs, queues of 2, reloads and failing spawns | no PTY lost, doubled or mixed up; open tabs have one, closed ones none |
| `container_terminal` | 1 terminal, 2 sockets, 1 served connection, 1 retry | each terminal implements `Reconnection`; known size, last output delivered; the terminal settles, nothing is left behind |
| `browser_viewer` | 2 sessions, 2 sockets, 2 fetches, 3 pairs | a terminal shows its session and its end; a logout stays one |
| `hub_stale_handler` | as `hub_live` | **violated**: an old handler unregisters the connection of a new one |

`ScrollbackIsTail`, `OneChain`, `OneAttempt` and the type invariants of section 4 are proved and need
no run; the two `One...` are what `ImplementsReconnection` says of a single state, in the code's terms.
`relay_one` has one producer, because `InOrder` and `OneChunkTwice` are about one; `ExactlyOnce` and
the refinement are proved for any number of them.
Two configurations are extra: `container_possible.cfg` (module `ContainerTerminal`) and
`manager_possible.cfg` (module `MCWorkerManager`) check the invariant `Possible` of these modules with
the bounds of `container_terminal` and `manager_callbacks`: an action that is said to be possible is
ENABLED. The theorems about liveness rest on it.

Why the bounds are enough. What can go wrong in the hub takes an old and a new connection of one
worker, hence two connections; sessions meet only in `h.mu`, so one shows what a session can do,
and the second worker is there for what two can confuse. Relays meet only in `current`, so two
show a replacement; three bytes overrun a scrollback of two. The sixth attempt is the first whose
wait is capped. One failure in the hub is enough: it leaves a row, a resume or a lock in a state the
rest of the run then meets. A third creation is the first that finds two full nodes. A third pair is the
first that replaces one that was itself refreshed. Three PTYs are an old one that dies, its successor
and another session's. Two sockets are an old one whose close is on its way and its successor; with
two terminals the state space of `container_terminal` exceeds five minutes, and terminals share
nothing but the limit of served connections, which is why its invariants are proved for any number. Runs
without fairness use symmetry where their values are interchangeable; runs with liveness do not.
`hub_live` has the constraint `MadeInOrder` in its place: the two connections are made in an order, which
every behaviour is up to their names. `hub_orderly` and `hub_two_workers` leave out the ping loop and
peers that stop reading, which only delay. `hub_orderly` has no removal, because its properties are about
behaviours without one; `hub_two_workers` has no deletion, because a kill is routed as a keystroke is, and
its constraint `OneUpset` keeps crash and removal apart and removes the worker with one connection only.

`HandlerEnds` names what can stop a handler: a write of the ping loop (`StuckPing`) or of a fan-out
(`StuckFanOut`) that never returns, with `h.mu` or `relay.mu` held, or the handler's own spawn. TLC
finds the property violated without either of the first two in `hub_live`; the third takes a
registered third connection that stops reading while an older handler still resumes, and is there
because the code has it, not because the run meets it.

`MaxInput` and `MaxOutput` of the hub limit only what input and output add to a link, so no step of the
protocol is blocked by them. `MaxRenames`, `MaxRemovals`, `MaxCrashes`, `MaxFaults` bound how often these
happen, `PingLoop`, `MayStall` and `MayDelete` say what a run is about, `MaxPairs` bounds the token
pairs, `MaxMoves` what user and server do on their own, `MaxListed` the list that is polled again,
`MaxOutput` and `MaxChunk` the output of a relay. `MaxServed` is how many connections the server works on at
once: a second one waits until the goroutines of the first have ended. It leaves out only steps of
different connections that commute, because connections share no variable of the server.

### Fairness

- `WorkerHub`: goroutines run and mutexes are handed on (`WF` of each handler with its spawn and its
  unregistration, of removals, of the ping loop's end), agents read their sockets. Weak fairness is
  enough for `h.mu`: a connection is used once, removals are bounded, and the ping loop does not begin
  while a goroutine is about to lock (`WaitsToLock`; a waiting writer keeps new readers out, and pings
  are half a minute apart). It is not enough for `relay.mu`, which the outputs another handler reads can
  take again and again, hence `SF` of `FanOut`: Go's `sync.Mutex` hands over to a waiter that starves.
  A write returns unless its peer has stopped reading, which is no assumption but a step of the model.
  Nothing is assumed of users, PTYs, the network, failures or crashes.
- `ViewerRelay`: handlers run, writes to viewers return, and whoever waits for `relay.mu` to join or to
  fan out gets it (`SF`). That writes return is an assumption about the network here, since the code sets
  no write deadline; `WorkerHub` has writes that do not.
- `WorkerManager`: a manager's timer fires and its connection attempt ends one way or the other.
- `ContainerTerminal`: of each connection some step is taken as long as one stays possible (events are
  delivered, the server answers, goroutines run, a shell that got SIGHUP exits), and the main process
  answers and timers fire for each terminal. Nothing is assumed of users, the network, or what a shell
  does by itself.
- `SessionStore`: the interval timer goes on, answers are applied, and a call that is sent again
  and again is answered at some point (`SF`).

## 4. Theorems

TLAPS proves, for every value of the constants that satisfies the named assumptions:

| Module | Theorem | Property |
|---|---|---|
| `WorkerHub_proofs` | `TypeCorrect`, `RoutingHolds`, `NothingForgotten`, `RunningIsTrackedHolds`, `RowMatchesConnectionHolds` | `TypeOK`, `Routing`, `NoForgottenSession`, `RunningIsTracked`, `RowMatchesConnection` |
| `ViewerRelay_proofs` | `TypeCorrect`, `ScrollbackHolds`, `ExactlyOnceHolds`, `Refinement`, `InOrderHolds`, `OneChunkTwiceHolds` | `TypeOK`, `ScrollbackIsTail`, `ExactlyOnce`, `ImplementsBroadcast`, `InOrder`, `OneChunkTwice` |
| `TokenRotation_proofs` | `TypeCorrect`, `StoredIsUsableHolds`, `SignedOutStaysOutHolds`, `ReplayOverlapsHolds`, `SignedOutForCauseHolds` | `TypeOK`, `StoredIsUsable`, `SignedOutStaysOut`, `ReplayOverlaps`, `SignedOutForCause` |
| `ContainerPool_proofs` | `TypeCorrect`, `WithinCapacityHolds`, `CountMatchesRowsHolds`, `RunningHasContainerHolds`, `NoLeakHolds` | `TypeOK`, `WithinCapacity`, `CountMatchesRows`, `RunningHasContainer`, `NoLeak` |
| `WorkerManager_proofs` | `Refinement`, `OneChainHolds`, `StatusIsCurrentHolds`, `EntryIsAliveHolds`, `LostByRespawnOnlyHolds`, `BackoffGrowsHolds`, `SettlesHolds` | `ImplementsReconnection`, `OneChain`, `StatusIsCurrent`, `EntryIsAlive`, `LostByRespawnOnly`, `BackoffGrows`, `Settles` |
| `BrowserViewer_proofs` | `TypeCorrect`, `ShowsItsSessionHolds`, `EndIsShownHolds`, `LoggedOutStaysOutHolds` | `TypeOK`, `ShowsItsSession`, `EndIsShown`, `LoggedOutStaysOut` |
| `ContainerTerminal_proofs` | `Refinement`, `LastWordsHolds`, `OneAttemptHolds`, `SizeIsCurrentHolds`, `NothingLeftBehindHolds` | `ImplementsReconnection`, `LastWords`, `OneAttempt`, `SizeIsCurrent`, `NothingLeftBehind` |
| `Window_proofs`, of `LocalPty` | `TypeCorrect`, `NoneLostHolds`, `NoCrossTalkHolds`, `ProcessPerTabHolds` | `TypeOK`, `NoneLost`, `NoCrossTalk`, `ProcessPerTab` |
| `Window_proofs`, of `SessionStore` | `ActiveIsOpenHolds`, `LocalSurvivesHolds`, `ListedOnceHolds` | `ActiveIsOpen`, `LocalSurvives`, `ListedOnce` |

Each module proves `Invariance == Spec => []IInv` for an inductive invariant `IInv` from
`Init => IInv` and `IInv /\ [Next]_vars => IInv'`; the other theorems follow from it.
`OrderlyInvariance`, `OneInvariance`, `BooksInvariance` and `TabInvariance` (of `ContainerTerminal` and of
`LocalPty`) are second invariants of the same kind, and `StoreInvariance` is `SessionStore`'s.

- *Hub.* `Routing` is not inductive: a message is routed by the relay, which is written by whoever
  holds a session in `cur`, which was read from a row, a list or a message. `OwnedProcs`,
  `OwnedHub` and `OwnedMsgs` say of each of these places that the session is of the worker in
  question. `NoForgottenSession` needs that whoever marks sessions holds `h.mu` with the worker out
  of the map (`Marking`), so that a new handler registers, and runs its query, after the marking or
  is not the registered one, and that a registered handler spawns on its own connection (`Resumed`).
  While handlers do not overlap a handler of a worker is registered between its two calls
  (`RegisteredOne`) and what it lists or is told has a relay (`Listed`, `Announced`), so a session that
  says running is listed or is being marked (`Running`), and the row follows the handler (`Rows`). What a
  statement that failed has touched is in `faulted`, which each of these parts excepts and which only grows.
- *Relay.* `relay.mu` is held from the choice of viewers to the last write (`Locked`), a fan-out
  picks viewers of its own relay (`Members`), so what a viewer lacks is what the fan-out in progress
  owes it (`Owed`). With one producer, `OneInv` adds where the producer is between scrollback and
  fan-out. The refinement maps lock, writes and unlock to one `Send`, several `Show` and stutters.
- *Tokens.* A pair on its way to the file is in the database, differs from what is stored and from
  what anybody is spending, and is known to one request (`FreshPairs`); what was exchanged is not in
  the database unless its DELETE failed (`Gone`). So whichever request writes the file last writes a good token. Who is signed
  out has an empty file and, unless a refresh crossed the sign-out, no request that will fill it.
  Unless refreshes race, one request refreshes at a time with the token the file holds, so a refused
  one lapsed, failed in the database, or its answer was lost (`Cause`).
- *Pool.* While creations do not overlap, the one under way has kept the room it found (`Room`),
  since deletions only make room. For the other properties `Phase` says what each stage of a creation
  has done to row and container, `Handles` the same of a deletion, and `OneRequest` that no two
  deletions work on a session; so each step moves at most one session in or out of `Counted`, and the
  counter moves by one with it, or `trouble` says why not.
- *Agent.* Sockets that are not closed belong to the manager in charge or are closing ones of managers
  whose disconnect was `intentional` (`Chain`); a PTY that has not exited has its session to itself
  or the session was spawned twice (`Processes`). `BackoffGrows` needs that the last wait is the one of
  the attempts counted so far (`Backoff`) and that `Pow2`, which is recursive, doubles; that it has a
  solution and is monotone is shown with least elements of sets of numbers, because the library's
  induction theorem takes an operator. For `Refinement`, `DoingIs` shows from `Chain` that nothing is
  astray, and `StepMoves` goes through the callbacks: each moves every manager as `Reconnection` allows.
- *Browser viewer.* `current` and `ws` change together and every other socket is idle or closing
  (`Shared`), so no other session's output is taken; who logged out has no refresh under way but one
  that crossed the logout (`LoggedOut`).
- *Container terminal.* The server's side of a connection is an invariant of its record alone
  (`Good`): the bridge closes its end only after the shell's output was written (`Drained`), and the
  server's goroutine ends only after it was read (`Delivered`). On the window's side a terminal nobody
  disconnected has no socket but the one it names (`Own`), because it connects when it has no other,
  and one that was disconnected has only closing ones and no attempts left (`Out`), or none to begin
  with. `Refinement` follows as the agent's does, with `Allowed` beside `TabInv`: a terminal that nobody
  disconnected may still use all its attempts. Steps of the server, the bridge and the network move no
  terminal.
- *Local terminals.* A running PTY is its session's (`Held`), because none is spawned while there is
  one; and what the window will have been told last, when its queue is empty, is that PTY
  (`Current`), whose output alone is passed on. What the main process is asked to do last for a session
  is never a kill if it has a tab, and a kill, or nothing while there is no PTY, if not (`Asked`); and a process that ended is
  reported after everything it said, so a late output cannot hide the report (`Reported`).
- *Session list.* Ids anywhere in the window, on the server or in an answer were given out (`Known`), so
  one that is drawn is new everywhere; while calls do not overlap and the server marks nothing, what only
  the window has is offline in the list and nowhere on the server (`Apart`); while calls do not overlap the session a create has made is not in the list yet
  (`Once`). That `Filter` keeps what passes, in order and once, is `FilterProperties`, by ranks.
- *Liveness.* `NothingLeftBehind` and `Settles` follow from a number of steps left that no step raises
  and each step of the fair action lowers. A connection that ended is never stuck: as long as its record
  is in use some goroutine, the shell or the window's event can go on (`Hung`, `NeverStuck`), and `Left`
  counts what they have to do, which the other connections and the user cannot add to (`StepLess`,
  `ProgressLess`). A manager that is neither connected nor out of attempts waits or tries (`BusyIs`); what
  it does next is one of its `Moves`, so `StepsLeft` falls (`BusyLess`, `OwnStepCounts`). For the prover
  `ENABLED A` is an atom, so both theorems have the hypothesis `Possibly`, that is `[]Possible`:
  what the guards of the fair action come to implies that it is ENABLED. It holds by the form of the
  actions, every one of which sets every variable, and TLC checks it. Induction over the steps left
  cannot be used on a temporal formula, so the theorems chain one lemma (`OneMore`, `OneStepMore`) a
  fixed number of times: 30 are more than any connection has left, and 42 are more than a manager has
  left with the 20 attempts of `worker-manager.ts:29`; `SettlesHolds` says `MaxAttempts <= 20`.

Assumptions: the `ASSUME`s of the modules (constants are disjoint and of their types; a relay is
watched; scrollback and chunks are not empty; the sessions of the pool and of the local terminals are
finite sets, since counters count them and a reload lists them), which TLC evaluates on every run.

Only model-checked: the other liveness properties. `HandlerEnds`, `OfflineIsResumed` and `NobodyWaits`
wait for a lock that any number of others may take first, `Converges` for a list of any length, and
`TerminalSettles` for one of the server's places, which any number of connections may hold; what is
left to do has no bound to chain a lemma over, and the library's induction takes an operator. Every
other property of the passing runs is a theorem.

## 5. What the models merge or leave out

- The hub's look-up and update of the *worker's* row when it registers are one step, and so are
  selection and insertion when a session is created, and the two critical sections and the relay's
  field that `SendInput` reads. Look-ups and updates of *session* rows are separate steps.
- A delete reads the row and routes the kill in one step; the row's deletion is another.
- `gorm`'s `Save` inserts a row that is gone; both models of the session table do so.
- Database errors are modelled in `WorkerHub`, `TokenRotation` and `ContainerPool`; in `SessionStore` a
  call that fails covers them. A ping and its pong change no state, so only the lock and the writes of
  the ping loop are modelled, not the messages. A session's command, directory and name, and sizes of
  terminals, are data nothing depends on.
- In `WorkerHub` a peer stops reading only when a write to it is about to be made, since nothing else can
  tell; readers of `h.mu` may pass the ping loop even while a writer waits, as those do that came before it.
- A rename of a container session is not modelled (section 2, `ContainerPool`).
- `AgentRestart` is the app that quits as well as a manager that is replaced: what the old manager's
  PTYs still say goes to no open socket.
- `StopContainer`'s stop and removal are one step; a host is one node.
- A call of the window that is under way at a restart has been served or never will be.
- The last output of a shell stands for all of it; sizes are current or not; a resize that arrives at
  the bridge changes nothing the properties read. The length of waits is left out, but not their order.
- React's double effects in development, scrolling, titles and highlighting are left out.
- Failures of bookkeeping statements on a node's row or of a session's deletion are told apart from
  failed Docker calls, because only the latter leave the counters right.

## 6. Where code and documents disagree

`hub_stale_handler` is listed as a finding in `PROJECT.json`. Further configurations reproduce
disagreements that are known; each is violated when run with its MC module (`container_*` with
`ContainerTerminal`, `viewer_*` with `MCBrowserViewer`; `hub_server_restart` with `-continue` shows
both of its).

| Configuration | Property | Says | What happens |
|---|---|---|---|
| `hub_server_restart` | `LostIsResumable` | README.md:21 | after a server crash rows still say running, and `FindResumable` asks for offline |
| `hub_server_restart` | `SelectionIsLive` | selector.go:9 "using the Hub's live worker connections" | the row decides, and it can say online after a crash |
| `hub_marking` | `AllMarkedOffline` | hub.go:111 "marks all sessions as offline" | a session whose spawn was sent but not confirmed is not in `SessionIDs` |
| `hub_destroy` | `KillIsSent` | manager.go:153 "kills a worker session" | no kill is sent while the worker is not connected or the relay knows none |
| `hub_least_loaded` | `LeastLoaded` | repository.go:41 "least-loaded" | nothing writes `active_sessions` |
| `relay_gap` | `NoGap` | README.md:22 "everything" | output between scrollback and join is not shown |
| `relay_orphan` | `NoOrphan` | README.md:23 | the relay a viewer opened is replaced by the first output's |
| `manager_orphan` | `DisconnectKillsAll` | worker-manager.ts:106 "Kill all PTY processes" | PTYs that were respawned over, or spawned on a closing socket, stay |
| `pool_overcommit` | `CapacityKept` | container/worker.go:45 "with available capacity" | counted only after the container runs |
| `token_reuse` | `UsedOnce` | jwt.go:73 "Delete used refresh token" | two requests pass the SELECT before the DELETE |
| `store_offline` | `KeepsLocalOnly` | useSessions.ts:23 | sessions the server marked offline pile up in the list |
| `container_late_url` | `UnmountCleansUp` | useTerminal.ts:195 "Clean up on ... unmount" | a tab closed before its URL arrives gets a socket that nobody disconnects |
| `container_late_write` | `NoWriteAfterReturn` | websocket.go:134-165 | the handler returns while its goroutine still writes to the released connection |
| `container_silent_end` | `EndIsTold` | websocket.go:165 | a shell that ends by itself leaves its terminal connected until a key is typed |
| `viewer_foreign_note` | `NoteIsTrue` | app.js:153 | the close of the old socket is noted in the new session's terminal |

That is why the properties of the passing runs name their circumstances (`Orderly`, `~overlapped`,
`~crossed`, `OneProducer`...): within them the property is what the code guarantees.

## 7. Plan

Done first, because the rest of the system depends on it: hub, relay, agent; then the pool, tokens,
session list and local terminals; then remote terminals with the container's bridge and the browser
viewer, and the proofs of section 4. What is left, in this order:

1. `WriteMu` as a lock of its own: here a write to a peer that stopped reading does not return, whoever
   makes it, and the order of `h.mu`, `relay.mu` and `WriteMu` is not stated as a property.
2. Proofs: that handlers of dead connections end (`HandlerEnds`), for a bounded number of waiters first.
3. Renames of container sessions in `ContainerPool`.

## 8. Running

`tlc -config X.cfg MCModule` checks a run (module and configuration are paired in `PROJECT.json`);
`tlapm Module_proofs.tla` checks a proof module. `PROJECT.json` lists components, runs, mutants,
the lines of code each definition stands for, hazards and theorems.
