# A TLA+ verification of cross-tab-worker-databus

`cross-tab-worker-databus` lets the tabs of one origin share realtime
subscriptions: the tabs elect, per topic, the one tab that holds the topic at
the transport (a WebSocket of its own, or a session in a SharedWorker) and
hands its publications on to the others. There is no server-side coordinator:
everything goes through localStorage records and BroadcastChannel frames, and
every tab may be hidden, frozen, killed or restored at any time.

This directory holds TLA+ modules translated from `src/src/**`, TLC
configurations that check them on small instances, and TLAPS proofs for every
value of the constants. Contents:

1. [Inventory](#1-inventory): components, state, operations, interactions
2. [Hard behaviours and the properties that answer them](#2-hard-behaviours-and-the-properties-that-answer-them)
3. [Plan](#3-plan): modules, order, abstract specifications, theorems
4. [Modules](#4-modules): how state and actions correspond to the code
5. [Runs](#5-runs): what each checks, bounds, fairness
6. [Proofs](#6-proofs)
7. [Findings](#7-findings) and [observations](#8-observations-without-a-run)
8. [What is not modelled](#9-what-is-not-modelled)

`PROJECT.json` maps every definition to the lines it models and lists the
hazards of the code at the line where they bite.

## 1. Inventory

| component | source (`src/src/`) | state | operations | interacts through |
|---|---|---|---|---|
| WorkerClusterRuntime | `core/cluster.ts` | subscribedTopics, assignedTopics, currentRecord, knownTopics, routeOwnerCache, started/suspended/lifecycleListening | start, stop, pause, resume, subscribe, unsubscribe, publish, handleMessage (CONTROL, ROUTE_RELEASED, REGISTRY, EVENT), reconcile, heartbeat, setStatus, visibility | localStorage records (worker, route, subscriber), BroadcastChannel frames, onControl/onSuspend/onResume callbacks |
| Routing | `core/routing.ts` | none | selectActiveWorkers, selectLeastLoadedWorker, selectRebalanceTarget, topicMatchesPattern | called by the runtime |
| BatchingStorageWriter | `core/storage-batch.ts` | pending, retryCount, flushScheduled, retryHandle, retryDelayMs | getItem, setItem, removeItem, keys, flush, discardPending, clear | microtask, retry timer, localStorage |
| CrossTabDataBus | `core/data-bus.ts` | started/stopping/suspended, lifecycleEpoch, startPromise, pendingStop, stopPromise, queuedStart, recovery gate, timer and tokens, transportReady, transportSubscribedTopics, handlers | start, stop, ready, subscribe, publish, suspendTransport, reopenTransport, recovery, updateStatus, runTransport | promises, the transport, the runtime's callbacks, status handlers of the application |
| ReplayManager | `core/replay-manager.ts`, `core/replay-pruning.ts` | buffers, pending persistence, hydration flags and epoch, retryGeneration, retention cut-off and cleanup | record, hydrate, clear*, suspend, resetBuffers, scheduleRetentionCleanup, withPersistenceRetry | promises of the persistence adapter |
| IndexedDB adapter | `core/replay-persistence.ts` | mutation queue, connection | load, append, clear*, the drain | IndexedDB transactions |
| DedupManager | `core/dedup-manager.ts` | seen ids, adaptive window | isDuplicate, start/stop, reset, pruneExpired | clock, sweep timer |
| PortReaper, SharedWorker host | `workers/port-reaper.ts`, `workers/centrifuge.shared.worker.ts` | targets, lastSeenAt, time-outs, interval timer | register, touch, setTimeout, remove, reap, dispose | port messages, timer |
| CentrifugeWorkerTransport | `centrifuge.ts`, `centrifuge-protocol.ts` | backend, generation, heartbeat, token requests | start, stop, subscribe, unsubscribe, publish, token bridge, onWorkerFailed | worker ports |
| CentrifugeSession | `centrifuge-session.ts` | client, subscriptions, lifecycle, token requests | INIT, SUBSCRIBE, UNSUBSCRIBE, PUBLISH, STOP, TOKEN_*; client events | worker port, Centrifuge SDK |
| WebSocketTransport | `websocket.ts` | socket, handlers, subscribedTopics, connect promise and timer | start, stop, subscribe, unsubscribe, publish; onopen, onclose, onerror, onmessage, time-out | WebSocket |
| Environment, storage channel | `core/environment.ts`, `utils/storage-utils.ts` | of the storage-event channel: senderId, seq, one key of localStorage | choice of a channel, postMessage, close, storage events; adapters of browser APIs | storage events of other tabs |
| Trace, bindings, utilities | `core/trace.ts`, `hooks.ts`, `vue.ts`, `utils/*`, `core/hash.ts`, ... | none that the others read | - | - |

How they interact. The bus owns one runtime, one transport and one replay
manager. The runtime calls back into the bus (`onControl` to subscribe or
unsubscribe a topic, `onSuspend`/`onResume` on page events); the transport
reports statuses and publications; the application calls start, stop,
subscribe, publish, and is called back synchronously in the middle of many of
the bus's functions (status handlers). Runtimes of different tabs share
localStorage, each behind a BatchingStorageWriter that delays its writes to the
next microtask, and exchange frames that may be late or lost.

## 2. Hard behaviours and the properties that answer them

Names in parentheses are the parts of the conjunction before them.

- *Ownership among tabs* (cluster, storage, routing). Each task of a tab reads
  records that another tab's task may have replaced in between; frames refer
  to routes that changed since; tabs vanish between two steps of a handoff;
  throttled tabs are taken for dead and come back. `Accounted` (`Coherent`,
  `LoadAccurate`) in every state, `OwnersAgree` (`TakesWhatIsFree`, `LetsGoFirst`,
  `HoldsItsOwn`) of every step; `Settles` (`Converges`, `RecordsCleaned`, `RolesSettle`) once the disturbances
  end.
- *Delayed writes.* Uncancellable microtasks, a retry timer, partial passes and
  teardown all drain one queue. `ArmedForQueue` (`NothingStranded`,
  `IdleIsClean`), `InOrder` (`AppliesInOrder`, `ListingAgrees`), `Drains`, and
  refinement of a write buffer, `ReadsOwnWrites`.
- *The lifecycle of a bus.* A start, a stop, a page event, a recovery and a
  status handler may each supersede any of the others at any await.
  `CallsInOrder` (`OneLifecycleCall`, `SuspendedIsGated`, `StoppedIsDown`),
  `GateHasKeeper`, `ReadyIsReal` (`ReadyIsAnswered`, `ReadyIsHeard`), `InStep`,
  `StartsFresh`, `NobodyWaitsForever` (`StopEnds`, `OperationsLeave`).
- *Sockets that answer late.* The time-out, onopen, onerror and onclose of one
  handshake race each other and the sockets given up before; Blob frames are
  converted behind an await. `ServedExactly`, `GivenUpIsSilent` (`TimersAreLive`,
  `HeardByOwn`), and refinement of the link the bus assumes, `ImplementsLink`.
- *Credentials and sessions behind a worker.* A token is asked for in the
  worker, resolved in the tab and answered over a port that may be closed,
  replaced or restarted meanwhile; a stopped client keeps firing; a
  Subscription object is used again. `CredentialsArrive` (`TokensAreOwn`,
  `NoneStranded`), `HandedOnOnce`, `SubscriptionsAgree`, `ImplementsLink`.
- *Publications.* The owner is resolved from a cache, a route and the live
  workers, each perhaps outdated; the owner a request reaches is no longer the
  owner; the same publication comes over several subscriptions, again from the
  server, and as another tab's event; a storage event is not raised for a value
  that is there already. `GoesToOwnerOnce` (`SentOnce`, `CacheIsHonest`),
  `OncePerAcceptance`, `WindowIsKept`, `Reaches`.
- *Sessions of dead tabs.* A MessagePort has no close event, a live tab may be
  slow, heartbeats differ. `OnlySilentEnd` (`CadenceFollowsPorts`,
  `PromptIsKept`, `ReapedIsTold`), `DeadIsReaped`.
- *History behind awaits.* A load that began before a clear ends after it, an
  append waits in its backoff, a suspension abandons everything, clean-ups
  request each other. `LiveTail`, `ClearedForGood` (`ClearedStaysOut`,
  `ClearedIsGone`), `JobsAreCurrent` (`HydrationIsCurrent`,
  `NoStrandedCutoff`), `Hydrates`.

## 3. Plan

Modules, most important first (`*` exists):

1. `Routing`*, `Cluster`*, `MCCluster`*: election and handoff among tabs.
2. `StorageBatch`*, abstract `WriteBuffer`*: what the runtime may assume of its
   storage; the first refinement.
3. `ClusterProofs`*, `StorageBatchProofs`*, `SocketProofs`*, `PortReaperProofs`*,
   `DeliveryProofs`*, `BridgeProofs`*, `DataBusProofs`*, `ReplayProofs`*.
4. `PortReaper`*: sessions of the SharedWorker.
5. `Transport`*, `Lifecycle`*, `DataBus`*, `MCDataBus`*: the bus over either
   transport. `DataBus` composes `Lifecycle` (what each function does) with
   `Transport` (the far end) and an abstraction of the runtime.
6. `Link`*, abstract: what `DataBus` takes a transport to be, stated as a
   machine of its own; `Socket`* and `Bridge`* implement it.
7. `Replay`*: the history and its persistence; `Lists`*, the filter it shares
   with `Dedup` and `Delivery`.
8. `Dedup`*, `Delivery`*, `MCDelivery`*: publications from a call to the
   handlers, over the route owner cache, EVENT frames, patterns and channels.
9. `TopicOwnership`, an abstract specification (a topic is free, held, or in
   handoff) refined by `Cluster`.
10. The weighting of loads by throughput in `Routing` and `Cluster`; the tab
    identity of `environment.ts` (a duplicated tab that brings its id along).

Theorems, most important first: the inductive invariant of `Cluster`* (types,
`Coherent`, `LoadAccurate`); that of `StorageBatch`* and its refinement*; that
of `Socket`* (`ServedExactly`, `GivenUpIsSilent`) and its refinement of `Link`*;
`OwnersAgree` of `Cluster`*; `OnlySilentEnd` of
`PortReaper`*; `GoesToOwnerOnce`, `OncePerAcceptance` and `WindowIsKept` of `Delivery`*;
`CredentialsArrive`, `HandedOnOnce` and `SubscriptionsAgree` of `Bridge`*;
`CallsInOrder`, `GateHasKeeper`, `ReadyIsReal` and `StartsFresh` of `DataBus`*;
`LiveTail`, `ClearedForGood` and `JobsAreCurrent` of `Replay`*; the refinement
of `Link` by `Bridge`*. No module that carries or is meant to carry theorems
declares a RECURSIVE operator.

## 4. Modules

### Routing, Cluster, MCCluster

One runtime per tab. An action is one task of one tab, from its entry to its
return: `Start`, `Stop`, `PageHide`, `Resume` (pageshow), `Subscribe`,
`Unsubscribe`, `SetStatus`, `VisibilityChange`, `Heartbeat`, `Registry` (a
REGISTRY frame) and `Deliver` (a CONTROL or ROUTE_RELEASED frame). Each is a
chain of operators on a *task* record (what the tab reads through its writer,
what it queued, what it sends, its own sets), named after the code's methods:
`Pruned` is readWorkers, `Reconcile` the sequence of reconcile*,
`Elect`/`Handoff` the two ways routes are built, `UpdateLoad`, `RefreshRole`
and so on; `Commit` then puts the queued writes, the sent frames and the tab's
own sets in place. `Flush` is the microtask that makes the queued writes
visible to the other tabs, `FlushFails` its failure with a retry, `Expire` and
`AgeRoute` the passing of workerTtlMs for a record and for a route, `Lose` the
loss of frames whose sender has gone, `Crash` the end of a process without a
handler.

| variable | code |
|---|---|
| `storage` | the localStorage records: worker, route, subscriber |
| `pending`, `retrying` | BatchingStorageWriter.pending, its armed retry timer |
| `phase` | started, suspended; or a process that is gone |
| `subscribed`, `assigned` | subscribedTopics, assignedTopics |
| `held` | the topics whose last `onControl` was SUBSCRIBE: what the transport holds |
| `me` | currentRecord |
| `chan`, `nudged` | frames posted and not handled |
| `now` | the clock, as far as `registeredAt` goes |
| `churn` | disturbances so far (bound) |

Ties of the election's orderings are broken as the code breaks them
(registeredAt, then id), and least-loaded choices are taken from a snapshot
that counts the assignments made in the same pass.
`MCCluster` defines the sets of tabs and `SettledInit`, a state `Init` reaches
(every tab started, tab 1 the owner), from which the three-tab instance stays
small.

### StorageBatch, WriteBuffer

The writer line by line: `SetItem`/removeItem, `Flush`, `Microtask`,
`RetryTimer`, `DiscardPending`, `Clear`; `Pass` is one pass of flush with the
key it stops at chosen by the environment (a store that throws). `WriteBuffer`
is what the runtime relies on: reads see the runtime's own writes at once, the
backing store follows, and a write that cannot be made is given up.

### PortReaper

The SharedWorker host and the tabs of a browser. Tabs connect, send INIT and
PINGs, stall, wake, die, stop, and learn that they were reaped; the worker
handles CONNECT, INIT, PING and STOP (`Deliver`), and runs `Reap` when its
interval timer is due. Time is `Tick`, which may not pass anything that is due.

### Transport, Lifecycle, DataBus, MCDataBus

`Transport` is the far end as the bus sees it: a record, and one operator per
method of the transport and per event; its field `kind` says whether it is a
`websocket` or a `worker`. `Lifecycle` holds one operator per function of
CrossTabDataBus (`Start`, `Stop`, `SuspendTransport`, `Reopen`,
`UpdateStatus`, `RunTransport`, `AllowDemand`, `DemandRecovery`, `CancelRecovery`, ...),
each mapping the state at its call to the state at its return. Since
updateStatus calls the application, which may call start() or stop() before
the function goes on, `Lifecycle` is parameterised by `React`; `DataBus`
instantiates it twice, once with a handler that reacts with a start or a stop,
and once, for the calls that handler makes, with nobody reacting.

`DataBus` has the actions: calls of the application, page events, reports of the
transport, timers, and the handlers of promises. A promise chain is a record
(`kind`: an opening or a stop, `at`: waiting, dialing, stopping, ok, failed;
`after`: the chain it waits for; `then`: handlers still to run). Handlers of
settled promises run in any order, but before the next macrotask (`Drained`
guards page events, timers and transport events). The lifecycle epoch is kept
as the opening that owns it (`bus.current`), and `bus.heard` says whether the
handlers the transport holds are those of the current epoch. ready() changes
nothing, so it is an operator: `ReadyReturns` and `ReadyAnswer` say, in any
state, at which of its returns it leaves and with what. The runtime is reduced
to what it does to the bus (`cluster`). A behaviour begins with one of `Setups`:
the transport, the limit on recoveries and the bound on calls.

### Link, Socket, Bridge

`Link` is the abstract specification of a transport, with the operators of
`Transport` as its steps and the last status reported as what a reader of it
sees (`told`, with the number of the start() whose handlers heard it).

`Socket` is WebSocketTransport. An attempt stands for a start() that opened a
socket: its promise (`gate` names the attempt whose resolve and reject functions
the transport holds), its timer, its closure variables `completed` and `failed`.
`Start`, `StartShared`, `StartThrows`, `Stop`, `Subscribe`, `Unsubscribe` are the
calls; `OnOpen`, `OnClose`, `OnError`, `TimeOut`, `OnMessage`, `BlobConverted`
the callbacks, each of any attempt, also of one that was given up. `served` is
what the server knows of a socket's subscriptions.

`Bridge` is CentrifugeWorkerTransport, the worker's message loop and
CentrifugeSession together, over any of the three backends. `tab` has the
fields of the transport (the token generation among them), `session` those of
each session, `sdk` the Centrifuge client as the session uses it, `inbox` and
`outbox` the messages under way, `calls` what the credential provider has not
settled. In a tab without workers the same functions are called at once, inside
the caller's task. A client that was stopped goes on: its publish promises settle
(`PublishSettles`), it asks for a token again (`OldClientAsks`), and the listeners
of its connection and of its Subscriptions fire (`OldClientTells`).

### Lists, Dedup, Delivery, MCDelivery

`Lists` is the filtering of a list, a recursive function so that proofs can say
what it leaves. `Dedup` is DedupManager as operators on a window: expiry (fixed
or adaptive), the cap, the sweep. `Delivery` follows a publication: `Publish` in a tab (owner
resolved through the cache, an own topic handed to the transport, another's
posted as a PUBLISH frame of one item or of a batch), `Receive` of PUBLISH
and EVENT frames, `Arrive` of what the server sends (duplicate gate, assignment
check, fan-out, dispatch to exact and pattern handlers), and around them
everything that moves: handlers come and go, routes, assignments and worker
records are rewritten, tabs are suspended, stop, crash and start again. The
channel is none, a BroadcastChannel, or the storage-event channel with its one
key (`Envelope`, `Written`, `Noticed`), its quota (`Quota`) and its deferred
close (`CloseChannel`). Ownership is left free on purpose: whatever `Cluster` does
is among what `Delivery` allows.

### Replay

ReplayManager over the IndexedDB adapter. `mgr` holds the manager's fields,
`store` the database, its transactions in order of creation and the adapter's
queue, `backoff` the operations that wait in withPersistenceRetry. A message is
the number of its publication, which is also its timestamp. Actions: `Record`,
`Clear` (per topic, all, and before a time), `Start`, `Stop`, `Hide`, `Show`,
`Subscribe`, `Sweep`; `Flush`, `BeginDrain`, `EndTransaction` (success or
abort) and `Retry`. `past` holds what the properties compare with: what was
kept and what was cleared since the buffers were reset, what the store
confirmed as gone and what a retry appended.

## 5. Runs

| run | instance | properties | what it shows |
|---|---|---|---|
| ClusterSafety | 2 tabs, 1 topic, 2 disturbances among page events, stop, stall, late subscribe, failing flush, lost connection | TypeOK, Accounted, OwnersAgree | Transports and published loads agree with assignments; a topic is taken only when it is free or released to the taker for the route it sees, a ROUTE_RELEASED is sent only after letting go, and a tab drops a route confirmed to it only when told that nobody wants it |
| ClusterLive | 2 tabs, 1 topic, 2 disturbances: pagehide, stop, crash, stall, unsubscribe, lost frames, failing flush | Settles | Once disturbances stop, a subscribed topic has exactly one holder, its confirmed owner, and an unwanted one none; records of departed tabs go away; roles agree with selectActiveWorkers |
| ClusterThree | 3 tabs settled, room for two active, 2 disturbances (pagehide, resume, crash, lost frames, visibility) | Settles | A handoff abandoned by both its ends is taken over by the single writer that recovers it, and roles settle |
| ClusterLostAck | 2 tabs, 3 disturbances | HandoffSettles (violated) | Finding 1 |
| StorageBatchSafety | 3 keys, 1 value, 3 attempts, 2 doublings, 2 microtasks | TypeOK, ArmedForQueue, InOrder, ReadsOwnWrites, Drains | The writer loses and strands nothing and implements WriteBuffer |
| PortReaperSafety | 2 ports, heartbeats of 1 tick and infinite, default 2, delay 1 | TypeOK, OnlySilentEnd, DeadIsReaped | Only silent sessions end, the ended ones are announced, the dead ones do end |
| DataBusSafety | 1 topic, 2 faults, handlers that start or stop; a WebSocket with unlimited recoveries and 5 calls, a Centrifuge worker with one attempt and 4 calls | TypeOK, CallsInOrder, GateHasKeeper, ReadyIsReal, InStep, StartsFresh, NobodyWaitsForever | Whatever supersedes what, the transport's lifecycle calls never overlap, ready() tells the truth, subscriptions end up as assigned, and nothing is left running or waiting |
| DataBusClosed | Centrifuge worker, 4 calls, 1 fault | ConnectingIsUnderway (violated) | Finding 2 |
| ReplaySafety | 2 topics of 1 message, 2 messages, 3 moves, 1 aborted transaction, 2 attempts, retention none or 1 | TypeOK, LiveTail, ClearedForGood, JobsAreCurrent, Hydrates | Whatever overlaps a load, the newest live messages end the history, cleared ones stay out, one hydration at a time, every running bus hydrates |
| SocketSafety | 3 attempts, 1 topic, 3 calls besides start(), 4 events besides handshakes, with and without a time-out | TypeOK, ServedExactly, GivenUpIsSilent, ImplementsLink, StartIsAnswered | What the server serves is what was asked for, a socket given up is silent, the transport implements `Link`, and with a time-out every start() is answered |
| BridgeSafety | 2 sessions of 2 credential requests, 1 topic, 3 calls, 2 events, each backend with each provider | TypeOK, CredentialsArrive, HandedOnOnce, SubscriptionsAgree, ImplementsLink | Every request for a credential gets its own answer, nothing crosses from one session to the handlers of another, subscriptions agree, and the transport implements `Link` |
| DeliverySafety | 2 tabs, 1 topic and the pattern, the setups of MCDelivery | TypeOK, GoesToOwnerOnce, OncePerAcceptance, WindowIsKept, Reaches | Each publication goes to one transport, no handler is called twice for one acceptance, duplicates are told for as long as promised, and what the server has reaches every handler |

No run checks for deadlock: every bound on calls and disturbances makes a model
end, as the system itself does when nobody calls it.

### Bounds, and why they are enough

- *Cluster.* `MaxChurn` bounds disturbances, never the protocol's own steps:
  heartbeats, frames, nudges and flushes go on without limit. Two disturbances
  cover every pair (a crash during a handoff, a resume after a lost
  acknowledgement needs three and has its own run). `MaxGen = 4` wraps
  generations; no instance keeps a frame alive over four handoffs.
  `Events` splits the disturbances over the runs to keep each below four
  minutes (ClusterSafety: 348 000 states). The flush within reconcile is not
  counted: with "flushfail" among the `Events` it fails or succeeds at will until
  the disturbances are spent (`FlushResults`). "resume" and "flushfail" are in
  separate liveness runs: see observation 14. A crash is in the liveness runs
  only: for the invariants it is a stall whose tab takes no further step. Two
  tabs are enough for ownership conflicts, which are pairwise; the
  single-writer rule of handoff recovery needs a third (ClusterThree).
- *StorageBatch.* Three keys make a first, a failing and a waiting one; two
  outstanding microtasks are one more than the gate allows.
- *PortReaper.* Two ports with the two extreme heartbeats, and the default
  between them, give every change of cadence. `MaxSilence` saturates at the
  first value above every time-out. `Reconnects = FALSE`: see observation 2.
- *DataBus.* A setup's `moves` bounds calls, page events and topic changes
  together, `MaxFaults` failures. Five moves reach a stop behind a suspended
  opening with a start queued behind it; four spend the worker's single
  attempt with an operation parked behind it. A step begins at most
  `Reserve` chains (a function and the status handlers it calls) and is not taken
  with fewer left, calls leave `Spare` more; with `MaxChains = 9` at least `Reserve`
  are idle in every reachable state, so that no step but a call is ever disabled by
  the bound.
- *Replay.* Two topics, so that a clear may be of one of them or of all; three
  moves are a clear and a suspension around a subscription; one aborted
  transaction with two attempts is a retry, and with it the abandonment of one.
- *Socket.* Three attempts: one given up, one that replaced it and was given up
  too, and one in use. `Reopens = TRUE` adds the socket object that opens again,
  which the code handles.
- *Bridge.* A session that is stopped or failed and the one after it, with the
  same request numbers; two requests are a dial and a refresh.
- *Delivery.* Two tabs: a publisher and an owner, and each change of owner
  between them. A window of one id forgets by count with two messages and by
  time with one. The storage-event channel has setups of its own: two
  publications with equal payload, and one around a change of ownership, a quota
  or a channel that closes.

### Fairness, and why the code justifies it

All of it is scheduling by the browser, never a choice of the application:

- *Cluster*: microtasks and retry timers run (`Flush`); a running tab's
  heartbeat timer fires again and again; a frame or nudge posted to a running
  tab is handled; clocks advance for records of departed tabs and for routes. It
  is written as `[]<>(nothing due) \/ []<><<A>>_vars`, which is weak fairness of
  `A` when the guard `Ready` is left out: a task that waits for a microtask
  is not withdrawn by it. Nothing obliges a tab to start, resume, subscribe or
  to be disturbed; stalls are disturbances.
- *StorageBatch*: weak fairness of the microtask and of the retry timer.
- *PortReaper*: time passes (strong fairness of `Tick`: stalling and waking
  cannot stop the clock), messages arrive, timers run.
- *DataBus*, *Replay*: weak fairness of `System`: promise handlers, timers, the
  end of a handshake or a transaction. `SystemReady` spells out
  `ENABLED System`, which TLC evaluates slowly. One fairness for all of them is
  enough because without new calls none goes on for ever; that also makes it a
  weak assumption. A handshake ends since the socket has a connect time-out.
- *Socket*: weak fairness of `TimeOut`, the timer, and of nothing else: the
  network owes no answer. It is what `DataBus` assumes of a handshake, and
  `StartIsAnswered` derives it where a time-out is configured.
- *Delivery*: weak fairness of `Arrive` and `Receive`: what is queued for a tab is
  handled.
- *Bridge*: none; its properties are about what may not happen.

## 6. Proofs

`ClusterProofs`: for any finite sets of tabs and topics, any `MaxActiveWorkers`,
`MaxChurn`, `MaxGen` and `Events` (the named assumptions of `Cluster`),

    IInv == TypeOK /\ QuietWhenClosed /\ Coherent /\ LoadAccurate
    THEOREM Invariance == Spec => []IInv

and from it `TypeCorrect`, `AccountsAgree` (with its halves `TransportCoherent`
and `LoadsAccurate`) and `ClosedIsQuiet`. None of the four is inductive alone:
`LoadAccurate` needs that a tab that does not run holds nothing (`Coherent`),
both need that no frame reaches such a tab (`QuietWhenClosed`: `Deliver` would
assign a topic to a tab whose record is gone), and each needs the types. A task
goes through up to a dozen operators, so the proof has one lemma per operator:
storage operators are `Quiet` (they leave the tab's own sets alone), the others
map a `Good` task (assignments agree with the transport) to a `Good` one and say
what happens to the load; `Commit` turns a good task into a good state. The step
theorem then has one case per action.

Its second half is about handoffs, under the same assumptions:

    HInv == IInv /\ OwnRoutes
    THEOREM WritesStayOwn == Spec => []HInv
    THEOREM HandoffIsStrict == Spec => OwnersAgree

`OwnersAgree` is about steps, because the state alone does not say who may take
a topic: records are read late, and a flush may land on top of a newer record.
What makes every step right is that a tab never queues a route that is
confirmed to another tab (`OwnRoutes`), so that a flush, whenever it comes,
cannot make another tab a confirmed owner behind its back. The proof follows a
task from its start to its commit: `Sound(k, w, F, S)` says that so far task `k`
of tab `w` changed the routes of, or took, only topics of `F`, and that only
topics of `S` are confirmed to `w` without `w` holding them. There is one lemma
per operator of `Cluster`, and one per action. Exclusive holding is not claimed:
see observation 13.

`StorageBatchProofs`: for any keys, values and limits,

    IInv == TypeOK /\ NothingStranded /\ IdleIsClean
    THEOREM Invariance == Spec => []IInv
    THEOREM OrderKept == Spec => InOrder
    THEOREM Refinement == Spec => ReadsOwnWrites

with the corollaries `TypeCorrect` and `AlwaysArmed`. The strengthening in
`TypeOK` is that a key is queued once: what a pass leaves is a suffix of the
queue, and only without repetitions is the set of keys of that suffix disjoint
from the keys already applied. The refinement maps `durable` to the backing
store and `view` to what getItem returns; initial states map to initial states
and each action to `Write`, `Sync`, `Clear` or a stutter.

`SocketProofs`: for any topics and any number of sockets, calls and events, with
a time-out or without, and sockets that open again or do not,

    IInv == /\ TypeOK /\ Numbered /\ ActiveIsMine /\ GateIsActive /\ EndIsTold
            /\ CompletedIsOk /\ ServedExactly /\ GivenUpIsSilent
    THEOREM Invariance == Spec => []IInv
    THEOREM SocketIsLink == Spec => ImplementsLink

with the corollaries `TypeCorrect`, `ServesWhatIsAsked` and `SilentWhenGivenUp`.
The strengthening says how the fields of the transport hang together: sockets
are made in order (`Numbered`), an active socket is one whose handlers are in
use (`ActiveIsMine`), a pending promise belongs to it (`GateIsActive`), what
ended without stop() was reported (`EndIsTold`), and a completed handshake
resolved its promise (`CompletedIsOk`). `GivenUpIsSilent` needs them because a
timer is cleared through the field that holds the last one armed: it must not
happen that another is armed. The proof follows the kinds of step there are: a
new attempt, the end of the connection (`Down`), its opening (`Up`), a change of
the topics (`Asked`), an event of a socket nothing depends on (`Aside`), and
steps that leave the sockets alone. Lemmas say which kind each handler is,
branch by branch; each kind keeps `IInv`, and maps to a step of `Link` or to
none under the mapping `Linked`.

`PortReaperProofs`: for any ports and any heartbeats whose time-out leaves room
for the delay of a message (`DelayAssumption`), finite or infinite,

    Inv == Types /\ CadenceFollowsPorts /\ \A p \in Ports : PortOK(p)
    THEOREM TypeCorrect == Spec => []TypeOK
    THEOREM SilentEnd == Spec => []OnlySilentEnd

`PortOK` strengthens `OnlySilentEnd` port by port: the messages under way are in
the order they were sent (`Orderly`), a port is tracked from its connect event
on, with its own time-out from its INIT on (`Tracked`), and the worker heard of a
prompt tab no longer ago than the age of its oldest message under way, plus one
heartbeat (`HeardOf`). The latter stays below the time-out by `DelayAssumption`:
the slack that a multiplier above one leaves is what a message may take.

`DeliveryProofs`: for any finite sets of tabs and topics, any owners, channel and
bounds,

    Inv == Fixtures /\ WellFormed(Here) /\ Accounted(Here, Len(made), {}) /\ Called(Here)
    THEOREM PublishedOnce == Spec => []GoesToOwnerOnce
    THEOREM CalledOnce == Spec => []OncePerAcceptance

    WInv == Inv /\ Memory /\ Clocks
    THEOREM TypeCorrect == Spec => []TypeOK
    THEOREM WindowKept == Spec => WindowIsKept

Functions of the bus map a state record to another, and a publication is in the
hands of a function until it is posted, given to a transport or lost.
`Accounted(s, n, held)` says of such a record that each of the first `n`
publications is in exactly one place, those of `held` in the hands of the
function; `Called` bounds the calls of a handler, those on their way included, by
the acceptances. Both are proved function by function, from the resolving of the
owner to the dispatch of an event, and for every frame that may be under way at
the time: a frame that is taken, noticed on the storage-event channel, kept from
a tab that does not listen, or silenced with its sender.

`WindowIsKept` is about the step that takes a message from the wire, but what it
says of the log is not in the state of the window alone. `Memory` ties the two:
`Remembers(d, l, time, shortest)` says that what is in window `d` was accepted
(`Backed`), and that what log `l` accepted within the shortest TTL, with fewer than
`MaxEntries` ids after it, is in the window with no more behind it than in the log
(`Recent`); without that count a cap that cuts from the front could not be shown to
spare it. Expiry keeps it because the adaptive TTL never leaves its bounds
(`OutlivesBounds`), a new id because the cap cuts the oldest (`CutType`), time because
ages only grow. `Moves` then says that no step but `Arrive` takes a message from the
wire of a tab that goes on running. TLC checked `WInv` on the instance of
DeliverySafety, with caps 1 and 2, before it was proved. What filtering leaves of a
list (`KeptType`, `KeptPlace`) is proved by an induction over a set of numbers
(`Induct`, from the well-foundedness of `<`), in place of the library's induction
theorems, which take an operator; `Kept` replaced SelectSeq in the model for it.

`BridgeProofs`: for any topics, providers and bounds, with a SharedWorker, a
dedicated worker or no worker,

    Inv == SetupOK /\ Good(Here, events) /\ moves \in Nat /\ events \in 0..MaxEvents
    Good(s, n) == Sound(s) /\ Answered(s) /\ Rest(s, n) /\ Backed(s)
    THEOREM TypeCorrect == Spec => []TypeOK
    THEOREM CredentialsAlwaysArrive == Spec => []CredentialsArrive
    THEOREM HandedOnOnceOnly == Spec => []HandedOnOnce
    THEOREM SubscriptionsAlwaysAgree == Spec => []SubscriptionsAgree
    THEOREM BridgeIsLink == Spec => ImplementsLink

`Sound` says that the fields of the transport, of each session and of its client
belong together, and of each message and call that it is for the session it is
sent to: a token is the one of its own request, a client waits for the request
that is pending, a client runs only in the current session. `Answered` says that
every request a client waits for is underway: as a message to the tab, as a call
of the provider, or as a message back (`Underway`). `Rest` has the other messages:
the last one about a topic tells the session what the bus asked for (`Informed`),
INIT comes first and once (`Begun`), the calls of the current backend have its
token generation (`Timely`), and a publication is in one message or was handed on
once (`Single`). `Backed` relates the transport's backend to the session behind it. All of it
together is needed: a token that arrives is used only if the generation of the
call is the current one, and the topics of a session survive its connection only
because INIT precedes every subscription. Most functions of a session are `Calm`
(they say things, ask and are answered, and leave the rest as it is), which is
proved once to keep `Rest`; the others have lemmas of their own, and each action is
a case of the step theorem.

The refinement needs the order of what a session says as well: of the current
session, no status follows its "disconnected", on its way or told (`Ordered`), since
a client that is off for good, or a worker that is gone (`Over`), says nothing more.
Without it a late "connected" would be a step the link does not have. A lemma for
each function says that it is `Mute`, or at most `Reported` what the link allows.
Every action has an `Outcome`: a report, a start that succeeds or fails, a failure of
the worker, a stop, or a change of the topics; and each of these is a step of `Link`
or none under the mapping `Linked`.

`DataBusProofs`: for any topics, transports, limits, reactions and bounds,

    Inv == Core(Here) /\ Bound(Here)
    Core(s) == Base(s) /\ Runs(s) /\ LostIsTold(s) /\ Kept(s)
    THEOREM Invariance == Spec => []Inv
    THEOREM Types == Spec => []TypeOK
    THEOREM Order == Spec => []CallsInOrder
    THEOREM Gatekeeping == Spec => []GateHasKeeper
    THEOREM Readiness == Spec => []ReadyIsReal
    THEOREM FreshStarts == Spec => StartsFresh

A function of the bus calls the application's status handlers in the middle, and
they may start or stop the bus: so the invariant is stated of the state records
the functions of `Lifecycle` map to each other. `Core` holds at every such call;
`Bound` (a suspended bus holds its stop, the runtime pauses only while the bus is
suspended) only when a step is over, since suspendTransport notifies before it
installs the stop. The parts of `Base`: chains in flight form one queue in which
each waits for the one before it (`Queued`, by a ranking of the chains), so at most one
calls the transport; nothing refers to a chain that is gone (`Named`); the start
promise, the pending stop, the current opening and performStop belong together
(`StopsAreStops`, `CurrentIsOpen`, `OpeningIsCurrent`, `Torn`); and a transport
that was stopped is down until an opening begins (`Dark`). `Runs` says that an
opening that waits for nothing may dial, and that a bus that dials or is ready hears
its transport; `LostIsTold` that an active bus without either has an error and a stop;
`Kept` is `GateHasKeeper` in the middle of a function. None of the properties is inductive
by itself: who may open the gate depends on which opening is current, that on
which stop it waits for, and that on the order of the chains. There is one lemma per
function, first for the functions as a status handler calls them (`Plain!...`),
then for those that call handlers, and one per action. For `StartsFresh`
each function is shown to start no opening (`NoneDials`), which leaves `BeginOpen`, and there the
current opening that waits for nothing is `Able` to dial by the invariant.
The first attempt at the page events failed: pause() (`cluster.ts:492`) marks the
runtime paused before it hands topics off, and a status handler called from the
hand-off may start or stop the bus; `PageHide` had paused it afterwards, and
now follows the code.

`ReplayProofs`: for any topics, limits (at least one message of a topic is kept,
`MaxPerTopic`, and one attempt made), retentions and bounds,

    IInv == Good(Here, log, past) /\ phase \in {"stopped", "running", "suspended"}
    Good(s, l, p) == Typed(s, l, p) /\ Busy(s) /\ Cleared(s, l, p) /\ Tailed(s, p)
    THEOREM Invariance == Spec => []IInv
    THEOREM Types == Spec => []TypeOK
    THEOREM LiveMessagesEndTheHistory == Spec => []LiveTail
    THEOREM ClearsAreForGood == Spec => []ClearedForGood
    THEOREM JobsAreKnown == Spec => []JobsAreCurrent

The four layers are stated of a state `s` of manager, store and backoff, a log `l`
and what is past, `p`, since the functions of `Replay` map such states to each
other; each layer is kept under those before it. `Typed` adds to the types that a
history holds messages of its own topic, that an operation carries only the fields
of its kind, and that only appends share a transaction, which is what `drain`
coalesces. `Busy` says where a hydration is carried on: one place in the queue, in
the transactions or in a backoff if the manager knows of one, none if it does not
(`OnePlace`); counting alone would not say what is left when an operation moves
from one to the other. `Cleared` follows the messages of a clear: they are not
waiting to be appended, they are remembered by topic or by time for as long as a
load may bring them back (`Remembered`), and behind a clear in the queue no append
has them unless it was tried again (`InOrder`, over the whole queue and all
transactions, since coalescing and aborts take operations out of the middle). When
the clear commits, that order is what keeps them out of the store for good.
`Tailed` is `LiveTail` with the fact that kept messages ascend, without which the
merge of a load with the live messages could reorder them. Between the end of a
transaction and its caller the manager's hydration is in no place at all: `Settling`
is that state, and the lemmas about `Succeeded` and `Failed` start from it.

Only model-checked:

- all liveness (`Settles`, `Drains`, `DeadIsReaped`, `NobodyWaitsForever`,
  `Hydrates`, `Reaches`, and `StartIsAnswered`), which TLAPS cannot prove under
  fairness;
- `InStep` of DataBus, which relates its subscriptions to those of the transport
  after everything in flight has ended.

## 7. Findings

1. **A lost handoff acknowledgement is not always recovered**
   (ClusterLostAck, `src/src/core/cluster.ts:1399`). An unconfirmed handoff is
   re-elected only while its previous owner is not live. If the
   ROUTE_RELEASED is lost and the previous owner comes back from the
   back/forward cache under the same id before the handoff has aged, nobody
   re-elects it and nobody holds the topic. `src/README.md:23` promises a
   bounded recovery.
2. **A terminally closed Centrifuge client is never replaced by start()**
   (DataBusClosed, `src/src/centrifuge.ts:144`). The backend outlives the
   client, and the transport's start() returns at once; the bus is ready,
   `connecting`, over a closed connection. `src/docs/architecture.md:638` says
   an explicit start() returns it to `connected`.

## 8. Observations without a run

Met while modelling; each was seen in a variant of a model or read in the code,
and none is claimed by a run.

1. Over a WebSocket, a topic released while the socket is down is subscribed
   again by the next onopen (`websocket.ts:208`, `data-bus.ts:1751`), against
   `docs/architecture.md:506`. Over a WebSocket `InStep` therefore asks that
   every assigned topic is served, and only over the worker, whose backend
   forgets its topics, that no other is.
2. With `Reconnects = TRUE` in PortReaper, `DeadIsReaped` is violated: tabs that
   keep connecting and leaving change the cadence, each change restarts the
   interval (`port-reaper.ts:170`), and no reap pass ever runs.
3. A retried load, a hydration run again after a suspension, or one behind a
   retention clean-up merges durable history with live messages that are
   already in it (`replay-manager.ts:480`), so a ring may hold a message twice.
4. A retried clear may delete messages recorded after it; and a clearReplay()
   followed at once by stop() and start() lets the new load read the history
   before the clear lands (the caller's promise is rejected as cancelled).
5. With more than one attempt configured (the default is one), an append that
   waits in its backoff is applied behind a clear that succeeded, and brings
   cleared messages back (`replay-manager.ts:618`), against
   `docs/capabilities.md:55`. `ClearedForGood` excepts exactly these messages.
6. The cooldown of a cancelled recovery outlives it, so a bus may report
   `recovering` with nothing scheduled (`data-bus.ts:1571`, `docs/api.md:232`).
7. A bus started in a hidden page stays suspended through visibilitychange
   (`cluster.ts:329`, `docs/api.md:222`); ready() of a superseded opening
   resolves although the transport was stopped (`data-bus.ts:789`,
   `docs/api.md:69`).
8. A subscription the server ends is forgotten by the session
   (`centrifuge-session.ts:239`) and not reported to the tab, which goes on
   counting it; `SubscriptionsAgree` excepts such topics.
9. A status handler that called transport.start() from within the time-out or
   onclose of a socket would have its new promise rejected by the failure of
   the old attempt (`websocket.ts:192`). The bus never calls it from there, so
   the model leaves such calls out.
10. EVENT frames are not checked for duplicates. When the server understands
    patterns, a tab that owns `chat.*` and another that owns `chat.room.1` both
    fan out the same publication, and a third tab's handler runs twice, though
    `docs/architecture.md:389` says that each message is dispatched exactly
    once. `OncePerAcceptance` therefore counts acceptances.
11. A message is remembered as seen before it is checked for its assignment, so
    one that was discarded as not assigned is a duplicate when it comes again;
    and getDedupStats() begins a new adaptive window as a side effect.
12. A handler subscribed with replay whose hydration a pagehide abandons gets
    the live buffers of that moment, and never the history loaded after
    pageshow (`replay-manager.ts:185`).
13. That only one tab holds a topic is not an invariant. With three disturbances
    a release in flight can meet a re-election for the length of one flush: x
    hands a topic to y, y's record looks expired to x when it resumes, x elects
    itself, and y reads the release before x's microtask has written the route.
    The handoff was strict as each of them saw it, which is what `OwnersAgree`
    says; `Settles` says that one holder remains.

14. A tab that is stopped, while the flush of its teardown fails, and then starts
    again under the same id without its subscriptions, leaves its old subscriber
    records in storage for as long as it runs: the queued removals were discarded
    (`cluster.ts:546`), and nobody cleans the subscriber records of a tab that is
    alive. With "resume" and "flushfail" together TLC finds `RecordsCleaned` violated
    so; with a third disturbance `Converges` too, since a tab that owns such a topic
    goes on holding it after its last subscriber has left.
    The comment at `cluster.ts:550` leaves such stale metadata to "the normal TTL
    recovery path", which does not reach it.

## 9. What is not modelled

- *Cluster, Routing*: selectRebalanceTarget, which is exported for applications and
  which the runtime does not call (`cluster.ts:163`), the throughput samples and the weighting of loads by
  them, snapshots for diagnostics, and tab ids that are duplicated with the tab.
  A failing flush fails on its first key; the writer's giving up after five
  failures is in StorageBatch only.
- *DataBus*: health summaries, error listeners and traces; binary frames. A page
  between pagehide and pageshow counts as hidden: that a start() made inside the
  pagehide handler may still read "visible" (`cluster.ts:329`) is left out.
- *Replay*: delivery to a handler, the age and combined pruning strategies,
  adapters without batches or clears, statistics. The optional sweep interval is
  taken as configured. Opening and losing the database connection appear only as
  a failed transaction.
- *Socket*: the encodings of messages, and injected sockets that behave unlike a
  browser's, but for opening again.
- *Bridge*: payloads and metadata; the reaping of a port, which PortReaper has. A
  credential provider that throws does nothing else first: one that stops or
  replaces the transport and then throws (`centrifuge.ts:312`) is left out.
- *Delivery*: replay and traces on the way, and what a transport does with a
  publication before it sends it, which is a choice.
- *PortReaper.dispose*: the worker never calls it.
- *Environment*: the tab identity, the probe of the storage, and the wrappers of
  browser functions.
- *Trace, React and Vue bindings, hashing, validation, metadata, errors*:
  observation and pure conversions.
