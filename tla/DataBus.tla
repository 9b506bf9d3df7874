------------------------------ MODULE DataBus ------------------------------
(***************************************************************************)
(* The lifecycle of one CrossTabDataBus (src/src/core/data-bus.ts): start, *)
(* stop, page suspension, transport recovery, and the transport operations *)
(* that wait for any of them.                                              *)
(*                                                                         *)
(* A promise chain of the bus is a member of Chains: an opening            *)
(* (openTransport, possibly behind a stop) or a stop of the transport.     *)
(* Handlers of settled promises are steps of their own and run in any      *)
(* order, but before the next event of the page, a timer or the transport  *)
(* (Drained); everything a handler does synchronously is one step, and     *)
(* calls of the application come at any time.  The lifecycle epoch is only    *)
(* ever compared with the current one, so it is kept as the opening that   *)
(* owns it (bus.current), and bus.heard says whether the handlers the      *)
(* transport holds were given to it by that opening.                       *)
(*                                                                         *)
(* The cluster runtime is reduced to what it does to the bus: it assigns   *)
(* and releases topics while it runs, pauses on pagehide and resumes on    *)
(* pageshow.  Its own behaviour is module Cluster.  Messages, replay,      *)
(* duplicates, traces and statistics are left out.                         *)
(***************************************************************************)
EXTENDS Integers, FiniteSets

CONSTANTS Topics,
          Setups,        \* a transport, see Transport; recovery.maxAttempts, 0 for
                         \* the default of no limit; and the bound on calls, page
                         \* events and topic changes
          Reactions,     \* what a status handler of the application may do
          MaxChains,     \* bound on promise chains in flight
          MaxFaults      \* bound on failures of the connection

ASSUME BusAssumption == /\ Reactions \subseteq {"ignore", "start", "stop"}
                        /\ MaxChains \in Nat /\ MaxFaults \in Nat
                        /\ Setups \subseteq [kind : {"websocket", "worker"}, limit : Nat,
                                                moves : Nat]

\* Nobody reacts: the status handler of a start() that a status handler called.
Ignored(r, s) == s

Plain == INSTANCE Lifecycle WITH React <- Ignored

\* What the application's status handler does when it is told a status.
Handler(r, s) ==
  CASE r = "stop" -> Plain!Stop(s)
    [] r = "start" -> Plain!Start(s, "ignore")
    [] OTHER -> s

INSTANCE Lifecycle WITH React <- Handler

VARIABLES bus,       \* the fields of CrossTabDataBus
          chain,     \* its promise chains
          ops,       \* transport operations that wait
          link,      \* the transport
          cluster,   \* the runtime: running, listening, paused, assigned
          page,      \* "visible", "hidden", or "gone" after pagehide
          moves,     \* calls, page events and topic changes that are left
          faults

vars == <<bus, chain, ops, link, cluster, page, moves, faults>>

\* The state a handler works on; Become puts it back.
Here == [bus |-> bus, chain |-> chain, ops |-> ops, link |-> link,
         cluster |-> cluster, page |-> page]

Become(s) ==
  LET gone == Garbage(s)
  IN /\ chain' = [c \in Chains |-> IF c \in gone THEN NoChain ELSE s.chain[c]]
     /\ bus' = [s.bus EXCEPT !.current = IF @ \in gone THEN None ELSE @]
     /\ ops' = s.ops
     /\ link' = s.link
     /\ cluster' = s.cluster

----------------------------------------------------------------------------
Init ==
  \E setup \in Setups :
    /\ bus = [limit |-> setup.limit, started |-> FALSE, stopping |-> FALSE, suspended |-> FALSE,
              status |-> "disconnected", ready |-> FALSE, connected |-> FALSE, config |-> FALSE,
              current |-> None, heard |-> FALSE, startPromise |-> None, pendingStop |-> None,
              queued |-> FALSE, down |-> [at |-> "none", on |-> None],
              gate |-> FALSE, demand |-> FALSE, timer |-> FALSE, cooled |-> TRUE,
              attempt |-> 0, exhausted |-> FALSE, lastError |-> FALSE, topics |-> {}]
    /\ chain = [c \in Chains |-> NoChain]
    /\ ops = {}
    /\ link = Unplugged(setup.kind)
    /\ cluster = [running |-> FALSE, listening |-> FALSE, paused |-> FALSE, assigned |-> {}]
    /\ page \in {"visible", "hidden"}
    /\ moves = setup.moves /\ faults = 0

----------------------------------------------------------------------------
(* Calls of the application and events of the page.                        *)

Costs(r) == IF r = "ignore" THEN 0 ELSE 1

\* No step begins more chains than Reserve, and none is taken with fewer left;
\* a call leaves Spare more to the steps that follow it.
Reserve == 4
Spare == 2
HasRoom(n) == Cardinality(Idle(Here)) >= n

\* One bounded step, in which the status handler reacts with r.
Move(s, r) == /\ moves >= 1 + Costs(r)
              /\ HasRoom(Reserve + Spare)
              /\ moves' = moves - 1 - Costs(r)
              /\ UNCHANGED faults
              /\ Become(s)

Step(s, r) == /\ moves >= Costs(r)
              /\ HasRoom(Reserve)
              /\ moves' = moves - Costs(r)
              /\ UNCHANGED <<page, faults>>
              /\ Become(s)

\* start(config), also what ensureStarted calls.
StartCall(r) == /\ Move(Start(Here, r), r)
                /\ UNCHANGED page

StopCall == /\ Move(Stop(Here), "ignore")
            /\ UNCHANGED page

\* The runtime dispatches SUBSCRIBE, UNSUBSCRIBE or PUBLISH.
Assign(t, r) ==
  /\ cluster.running
  /\ Move(SubscribeTransport([Here EXCEPT !.cluster.assigned = @ \cup {t}], {t},
                             r), r)
  /\ UNCHANGED page

Unassign(t, r) ==
  /\ cluster.running /\ t \in cluster.assigned
  /\ Move(UnsubscribeTransport([Here EXCEPT !.cluster.assigned = @ \ {t}], {t},
                               r), r)
  /\ UNCHANGED page

Publish(t, r) ==
  /\ cluster.running /\ t \in cluster.assigned
  /\ Move(RunTransport(Here, "publish", {t}, r), r)
  /\ UNCHANGED page

\* No handler of a settled promise is left: an event may be dispatched.
Drained ==
  /\ \A c \in Chains : /\ chain[c].at = "waiting" => ~Done(Here, chain[c].after)
                       /\ chain[c].at = "dialing" => link.dial = "pending"
                       /\ chain[c].at \in {"ok", "failed"} => chain[c].then = {}
  /\ \A o \in ops : o.on = Gate \/ (o.on \in Chains /\ ~Done(Here, o.on))
  /\ bus.down.at \in {"opening", "waiting"} => ~Done(Here, bus.down.on)
  /\ bus.queued => bus.down.at # "none"

\* pagehide: the runtime pauses, hands some topics off, and suspends the bus,
\* unless a reaction to the hand-off stopped it.
PageHide(handed, r) ==
  LET paused == [Here EXCEPT !.cluster.running = FALSE, !.cluster.paused = TRUE,
                             !.page = "gone"]
      released == UnsubscribeTransport(paused, handed, r)
  IN /\ Drained /\ page # "gone"
     /\ page' = "gone"
     /\ IF cluster.running
        THEN Move(SuspendTransport([released EXCEPT !.cluster.assigned = {}], r), r)
        ELSE Move([Here EXCEPT !.cluster.paused = cluster.listening], "ignore")

\* pageshow: the bus resumes, then the runtime, unless a reaction stopped it.
PageShow(r) ==
  LET resumed == Reopen([Here EXCEPT !.cluster.paused = FALSE, !.page = "visible"], FALSE,
                        r)
  IN /\ Drained /\ page = "gone"
     /\ page' = "visible"
     /\ IF cluster.paused
        THEN Move([resumed EXCEPT !.cluster.running = @ \/ resumed.cluster.listening], r)
        ELSE Move(Here, "ignore")

\* visibilitychange without pagehide: the bus does not listen to it.
VisibilityChange ==
  /\ Drained /\ page # "gone"
  /\ page' = IF page = "visible" THEN "hidden" ELSE "visible"
  /\ Move(Here, "ignore")

----------------------------------------------------------------------------
(* The transport and the clock.                                            *)

\* A status the transport reports reaches the bus from the current epoch;
\* an error of a starting transport is not passed on to the application.
Report(s, status, r) ==
  IF ~s.bus.heard THEN s
  ELSE IF status = "error" /\ \E c \in Chains : s.chain[c].at = "dialing"
       THEN UpdateStatus(s, status, "ignore")
  ELSE UpdateStatus(s, status, r)

Fault(s, r) == /\ faults < MaxFaults
               /\ faults' = faults + 1
               /\ moves >= Costs(r)
               /\ HasRoom(Reserve)
               /\ moves' = moves - Costs(r)
               /\ UNCHANGED page
               /\ Become(s)

Opens(r) == /\ Drained /\ CanOpen(link)
            /\ Step(Report([Here EXCEPT !.link = Opened(@)], "connected", r), r)

Closes(r) == /\ Drained /\ CanClose(link)
             /\ Fault(Report([Here EXCEPT !.link = Closed(@)], "disconnected", r), r)

Breaks(r) == /\ Drained /\ CanBreak(link)
             /\ Fault(Report([Here EXCEPT !.link = Broken(@)], "error", r), r)

Redials(r) == /\ Drained /\ CanRedial(link)
              /\ Fault(Report([Here EXCEPT !.link = Redialed(@)], "connecting", r), r)

\* recovery.cooldownMs since the last recovery was scheduled.
Elapse == /\ Drained /\ ~bus.cooled
          /\ bus' = [bus EXCEPT !.cooled = TRUE]
          /\ UNCHANGED <<chain, ops, link, cluster, page, moves, faults>>

\* The recovery timer, armed when the cooldown began.
Recover(r) ==
  LET fired == [Here EXCEPT !.bus.timer = FALSE]
      opened == Reopen([fired EXCEPT !.bus.demand = FALSE], TRUE, r)
      due == ~bus.stopping /\ bus.started /\ ~bus.suspended /\ bus.status = "error"
  IN /\ Drained /\ bus.timer /\ bus.cooled
     /\ IF due THEN Step(Attach(opened, "recovery"), r)
        ELSE Step(ReleaseGate(fired), "ignore")

----------------------------------------------------------------------------
(* Promise handlers.                                                       *)

Settle(s, c, result) == [s EXCEPT !.chain[c].at = result]

\* Mutant: an opening does not check that it is still the current one.
AlwaysCurrent(c) == TRUE

\* The lifecycle epoch is the one the opening captured.
Current(c) == bus.current = c
Superseded(c) == ~Current(c) \/ bus.stopping \/ bus.suspended

\* Mutant: a stop that is over still counts as pending.
KeepStop(c) == bus.pendingStop

\* The stop an opening waited for is over, and a later one must stop again.
Spent(c) == IF bus.pendingStop = chain[c].after THEN None ELSE bus.pendingStop

\* openTransport past `before`: a superseded opening is abandoned.
BeginOpen(c, l) ==
  LET s == [Here EXCEPT !.chain[c].after = None]
      owned == [s EXCEPT !.chain[c].at = "dialing", !.bus.connected = FALSE,
                         !.bus.pendingStop = Spent(c),
                         !.bus.heard = ~link.live, !.link = l]
  IN /\ chain[c].kind = "open" /\ chain[c].at = "waiting" /\ Done(Here, chain[c].after)
     /\ IF Superseded(c)
        THEN /\ l = link
             /\ Step(Settle([s EXCEPT !.bus.ready = @ /\ chain[c].initial], c, "ok"), "ignore")
        ELSE /\ l \in Started(link)
             /\ IF l.live THEN Step(owned, "ignore")
                ELSE Fault(IF link.kind = "websocket"
                           THEN UpdateStatus(owned, "error", "ignore") ELSE owned, "ignore")

\* openTransport's catch: the transport is stopped, and after a first start
\* the runtime too.
CatchOpen(c, r) ==
  LET s == [Here EXCEPT !.bus.ready = FALSE, !.bus.startPromise = None, !.bus.lastError = TRUE]
      s1 == IF bus.pendingStop = None THEN NewStop(s, None) ELSE s
      s2 == IF chain[c].initial
            THEN ClusterStop([s1 EXCEPT !.bus.started = FALSE]) ELSE s1
  IN UpdateStatus(Settle(s2, c, "failed"), "error", r)

\* The transport's start() settled.
FinishOpen(c, r) ==
  /\ chain[c].at = "dialing" /\ link.dial # "pending"
  /\ IF ~Current(c)
     THEN Step(Settle(Here, c, link.dial), "ignore")
     ELSE IF link.dial = "failed" \/ bus.status = "error"
     THEN Step(CatchOpen(c, r), r)
     ELSE Step(Settle(ReleaseGate([Here EXCEPT !.bus.ready = TRUE]), c, "ok"), "ignore")

\* A chained stop calls transport.stop(), which may take a while.
BeginStop(c) ==
  /\ chain[c].kind = "stop" /\ chain[c].at = "waiting" /\ Done(Here, chain[c].after)
  /\ Step([Here EXCEPT !.chain[c].after = None, !.chain[c].at = "stopping",
                       !.link = Stopped(@)], "ignore")

FinishStop(c) ==
  /\ chain[c].at = "stopping"
  /\ Step(Settle(Here, c, "ok"), "ignore")

\* Mutant: an older opening clears the promise of a newer one.
WatchAny(s, c) == [s EXCEPT !.bus.startPromise = None]

\* reopenTransport's and start()'s own handlers of the opening.
Watch(s, c) ==
  LET cleared == [s EXCEPT !.bus.startPromise = IF @ = c THEN None ELSE @]
  IN IF s.chain[c].at = "ok" /\ s.bus.current = c /\ s.chain[c].trace
     THEN [cleared EXCEPT !.bus.attempt = 0, !.bus.exhausted = FALSE] ELSE cleared

Continue(c, handler, r) ==
  LET s == [Here EXCEPT !.chain[c].then = @ \ {handler}]
  IN /\ chain[c].at \in {"ok", "failed"} /\ handler \in chain[c].then
     /\ Step(CASE handler = "watch" -> Watch(s, c)
               [] handler # "watch" /\ chain[c].at = "ok" -> ReleaseGate(s)
               [] handler = "recovery" /\ chain[c].at = "failed" -> AllowDemand(s, TRUE, r)
               [] handler = "demand" /\ chain[c].at = "failed" -> AllowDemand(s, FALSE, r), r)

\* An operation resumes: behind the gate it is issued again, behind an
\* opening it is executed.
Resume(o, r) ==
  LET s == [Here EXCEPT !.ops = @ \ {o}]
      drop == bus.stopping \/ bus.suspended \/ ~Wanted(Here, o)
  IN /\ o \in ops
     /\ \/ /\ o.on = Released
           /\ Step(IF drop THEN s
                   ELSE RunTransport(s, o.act, {o.topic}, r), r)
        \/ /\ o.on \in Chains /\ Done(Here, o.on)
           /\ Step(IF drop \/ ~bus.started \/ chain[o.on].at = "failed" THEN s
                   ELSE Execute(s, o.act, {o.topic}), "ignore")

\* performStop: the opening, then the pending stop or one of its own.
TearDown ==
  /\ bus.down.at = "opening" /\ Done(Here, bus.down.on)
  /\ Step(IF bus.pendingStop # None
          THEN [Here EXCEPT !.bus.down = [at |-> "waiting", on |-> bus.pendingStop]]
          ELSE [Here EXCEPT !.bus.down = [at |-> "stopping", on |-> None],
                            !.link = Stopped(@)], "ignore")

\* Mutant: `stopping` is never lowered.
ResetStillStopping(s) ==
  [s EXCEPT !.bus.started = FALSE, !.bus.startPromise = None, !.bus.pendingStop = None,
            !.bus.down = [at |-> "none", on |-> None]]

\* performStop's finally.
Reset(s) ==
  [s EXCEPT !.bus = [@ EXCEPT
     !.started = FALSE, !.stopping = FALSE, !.suspended = FALSE, !.ready = FALSE,
     !.startPromise = None, !.pendingStop = None, !.config = FALSE, !.attempt = 0,
     !.exhausted = FALSE, !.topics = {}, !.down = [at |-> "none", on |-> None]]]

TornDown(r) ==
  /\ bus.down.at = "stopping" \/ (bus.down.at = "waiting" /\ Done(Here, bus.down.on))
  /\ Step(UpdateStatus(Reset(Here), "disconnected", r), r)

\* The start queued behind a stop.
QueuedStart(r) ==
  /\ bus.queued /\ bus.down.at = "none"
  /\ Step(Start([Here EXCEPT !.bus.queued = FALSE], r), r)

----------------------------------------------------------------------------
\* The early returns of ready(), in order.  A bus that is not started starts with
\* its initial configuration, or rejects.
ReadyReturns ==
  << <<bus.queued, "queued">>, <<bus.stopping, "stopping">>, <<bus.suspended, "suspended">>,
     <<~bus.started, "starts">>, <<bus.startPromise # None, "opening">>,
     <<bus.ready, "ready">>, <<bus.lastError, "failed">>, <<TRUE, "lost">> >>

\* What ready() answers.
ReadyAnswer ==
  ReadyReturns[CHOOSE i \in 1..8 : ReadyReturns[i][1] /\ \A j \in 1..(i - 1) : ~ReadyReturns[j][1]][2]

Waiters == [act : {"subscribe", "unsubscribe", "publish"}, topic : Topics,
            on : Chains \cup {Gate, Released}]

Handlers == {"watch", "recovery", "demand"}

\* A handler of a settled promise runs, or transport.stop() returns.
Promises ==
  \/ TearDown
  \/ \E c \in Chains : BeginStop(c) \/ FinishStop(c)
  \/ \E c \in Chains : \E l \in Started(link) \cup {link} : BeginOpen(c, l)
  \/ \E r \in Reactions :
       \/ TornDown(r) \/ QueuedStart(r)
       \/ \E o \in ops : Resume(o, r)
       \/ \E c \in Chains : FinishOpen(c, r) \/ \E h \in Handlers : Continue(c, h, r)

\* What happens by itself: handlers, timers, and the end of a handshake.
System == \/ Promises \/ Elapse
          \/ \E r \in Reactions : Recover(r) \/ Opens(r)

Next ==
  \/ System
  \/ StopCall \/ VisibilityChange
  \/ \E r \in Reactions :
       \/ StartCall(r) \/ PageShow(r)
       \/ Closes(r) \/ Breaks(r) \/ Redials(r)
       \/ \E t \in Topics : Assign(t, r) \/ Unassign(t, r) \/ Publish(t, r)
       \/ \E handed \in SUBSET cluster.assigned : PageHide(handed, r)

Spec == Init /\ [][Next]_vars

\* Something of that can happen: ENABLED System, spelled out.
SystemReady == \/ ~Drained
               \/ bus.down.at = "stopping" \/ \E c \in Chains : chain[c].at = "stopping"
               \/ ~bus.cooled \/ bus.timer \/ CanOpen(link)

\* WF_vars(System).  The microtask queue is drained, the timers fire,
\* transport.stop() returns, and a handshake ends: the socket gives up after
\* connectTimeoutMs, and the connection fails at most MaxFaults times.  One
\* weak fairness for all of them is enough, since without new calls none can
\* go on for ever.
Fairness == []<>~SystemReady \/ []<><<System>>_vars

FairSpec == Spec /\ Fairness

----------------------------------------------------------------------------
(* Properties.                                                             *)

ChainRecords ==
  [kind : {"none", "open", "stop"},
   at : {"idle", "waiting", "dialing", "stopping", "ok", "failed"},
   after : Chains \cup {None}, initial : BOOLEAN, trace : BOOLEAN, then : SUBSET Handlers]

\* Every field keeps its type, and no chain waits for itself.
TypeOK ==
  /\ bus.status \in Statuses /\ bus.topics \subseteq Topics
  /\ {bus.current, bus.startPromise, bus.pendingStop, bus.down.on} \subseteq Chains \cup {None}
  /\ bus.attempt \in 0..(bus.limit + 1)
  /\ bus.down.at \in {"none", "opening", "waiting", "stopping"}
  /\ chain \in [Chains -> ChainRecords] /\ \A c \in Chains : chain[c].after # c
  /\ ops \subseteq Waiters /\ link \in Links(Topics)
  /\ cluster.assigned \subseteq Topics

\* Calls of transport.start() and transport.stop() that have not returned.
Calls == {c \in Chains : chain[c].at \in {"dialing", "stopping"}}

\* transport.start() and transport.stop() are not called at the same time.
OneLifecycleCall ==
  IF bus.down.at = "stopping" THEN Calls = {} ELSE Cardinality(Calls) <= 1

InFlight == {c \in Chains : chain[c].at \in {"waiting", "dialing", "stopping"}}

\* Once nothing is in flight, a bus that is stopped or suspended has no live
\* connection left behind by an opening that lost a race.
StoppedIsDown ==
  (~bus.started \/ bus.suspended) /\ InFlight = {} /\ bus.down.at = "none" => ~link.live

\* A suspended bus holds the stop of its transport as its start promise, so
\* that whoever starts it next waits for the stop.
SuspendedIsGated ==
  bus.suspended /\ ~bus.stopping => /\ bus.startPromise # None
                                    /\ bus.startPromise = bus.pendingStop

\* One call of the transport at a time, each chained behind the one before it,
\* whatever superseded it meanwhile: they never overlap, whoever comes next can
\* find the last one, and the last one wins.
CallsInOrder == OneLifecycleCall /\ SuspendedIsGated /\ StoppedIsDown

\* A closed recovery gate always has somebody who will open it: the timer,
\* a failed attempt that lets the next operation retry, or an opening that
\* releases it when it settles.
GateHasKeeper ==
  bus.gate => \/ bus.timer \/ bus.demand
              \/ \E c \in Chains : /\ chain[c].kind = "open"
                                   /\ c = bus.current /\ c \in InFlight
              \/ \E c \in Chains : {"recovery", "demand"} \cap chain[c].then # {}

\* ready() hands out the promise of an opening, neither that of a stop nor one
\* that resolved over a transport that is not ready, and it never comes to its
\* last return, which is "unreachable by construction" (data-bus.ts:941).
ReadyIsAnswered ==
  /\ ReadyAnswer # "lost"
  /\ ReadyAnswer = "opening" => /\ chain[bus.startPromise].kind = "open"
                               /\ (chain[bus.startPromise].at = "ok" => bus.ready)

\* A ready bus hears its transport: the handlers the transport holds were
\* given to it in the current epoch.  A worker whose client disconnected for
\* good keeps the old ones.
ReadyIsHeard ==
  bus.ready /\ ~bus.stopping
    => bus.heard \/ (link.kind = "worker" /\ link.phase = "closed")

\* What ready() and the status say is about the connection there is.
ReadyIsReal == ReadyIsAnswered /\ ReadyIsHeard

\* Nothing is left to run for the bus.
Quiet == InFlight = {} /\ ops = {} /\ bus.down.at = "none" /\ ~bus.gate
         /\ \A c \in Chains : chain[c].then = {}

\* When a connected bus has nothing left to do, the server sends it exactly
\* the topics its tab is responsible for, whatever was assigned and released
\* while the connection came and went (docs/architecture.md:506: no transport
\* is left "holding a topic that none of the four sets above owns").  A
\* WebSocketTransport also keeps topics released while its socket was down.
InStep ==
  bus.ready /\ bus.status = "connected" /\ Quiet
    => /\ bus.topics = cluster.assigned /\ cluster.assigned \subseteq Served(link)
       /\ link.kind = "worker" => Served(link) = cluster.assigned

\* transport.start() is only called on a transport that is down, or whose
\* client disconnected for good, so that no connection is taken for the new one.
StartsFresh ==
  [][\A c \in Chains : chain[c].at = "waiting" /\ chain'[c].at = "dialing"
                         => ~link.live \/ link.phase = "closed"]_vars

\* An explicit stop() always comes to an end, whatever it interrupted.
StopEnds == bus.stopping ~> ~bus.stopping

\* An operation that waits for the recovery gate or an opening is eventually
\* executed or dropped: it is not forgotten when the gate opens, when the
\* attempts are spent, or when the recovery is abandoned.
OperationsLeave == ops # {} ~> ops = {}

\* Nobody who waits for the bus waits for ever.
NobodyWaitsForever == StopEnds /\ OperationsLeave

----------------------------------------------------------------------------
(* What the documentation says of the transport.                           *)

\* docs/architecture.md:638: an operation or a start() after a clean close
\* leads the bus back to a connection; it never rests in "connecting" over a
\* closed one.  Not so with a Centrifuge client that disconnected for good.
ConnectingIsUnderway ==
  bus.status = "connecting" /\ bus.ready /\ Quiet => link.phase # "closed"

=============================================================================
