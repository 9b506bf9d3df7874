----------------------------- MODULE Lifecycle -----------------------------
(***************************************************************************)
(* What the functions of CrossTabDataBus (src/src/core/data-bus.ts) that   *)
(* start, stop, suspend and recover the transport do to the state of the   *)
(* bus, each from its call to its return.  A state s records the fields of *)
(* the bus, its promise chains, the operations that wait, the transport,   *)
(* the cluster runtime and the page; module DataBus says when each         *)
(* function runs.                                                          *)
(*                                                                         *)
(* updateStatus notifies the application in the middle of most of them,    *)
(* and the application may call start() or stop() before the notifying     *)
(* function continues: React(r, s) is what it leaves of s when it reacts   *)
(* with r.  What a function does past such a call is an operator of its    *)
(* own (told: the state it returned in).                                   *)
(***************************************************************************)
EXTENDS Integers, FiniteSets, Transport

CONSTANTS Topics, MaxChains,   \* as in DataBus
          React(_, _)

Chains == 1..MaxChains
None == 0
Gate == -1               \* waiting for recoveryGate
Released == -2           \* its gate opened, its handler has not run
Statuses == {"connecting", "connected", "disconnected", "error"}

NoChain == [kind |-> "none", at |-> "idle", after |-> None, initial |-> FALSE,
            trace |-> FALSE, then |-> {}]

Done(s, c) == IF c = None THEN TRUE ELSE s.chain[c].at \in {"ok", "failed"}

\* A settled promise nothing refers to any more.
Garbage(s) ==
  {c \in Chains : /\ s.chain[c].at \in {"ok", "failed"}
                  /\ s.chain[c].then = {}
                  /\ c \notin {s.bus.startPromise, s.bus.pendingStop, s.bus.down.on}
                  /\ \A d \in Chains : s.chain[d].after # c
                  /\ \A o \in s.ops : o.on # c}

Idle(s) == {c \in Chains : s.chain[c] = NoChain}
Fresh(s) == CHOOSE c \in Idle(s) : TRUE

----------------------------------------------------------------------------
(* The recovery gate.                                                      *)

\* Mutant: waiters are not told that the gate opened.
ReleaseGateSilently(s) == [s EXCEPT !.bus.gate = FALSE, !.bus.demand = FALSE]

\* releaseRecoveryGate.
ReleaseGate(s) ==
  [s EXCEPT !.bus.gate = FALSE, !.bus.demand = FALSE,
            !.ops = {[o EXCEPT !.on = IF @ = Gate THEN Released ELSE @] : o \in @}]

\* Mutant: the timer is cancelled and the gate stays closed.
CancelTimerOnly(s) == [s EXCEPT !.bus.timer = FALSE]

\* cancelScheduledRecovery(true): an invalidated operation is dropped at once
\* instead of when its own microtask finds the token changed.
CancelRecovery(s) ==
  [s EXCEPT !.bus.timer = FALSE, !.bus.gate = FALSE, !.bus.demand = FALSE,
            !.ops = {o \in @ : o.on \notin {Gate, Released}}]

\* resetFailureState; an explicit start over a failed transport keeps the gate.
ResetFailure(s, keepGate) ==
  LET s1 == [s EXCEPT !.bus.timer = FALSE, !.bus.demand = FALSE,
                      !.bus.attempt = 0, !.bus.exhausted = FALSE, !.bus.cooled = TRUE,
                      !.bus.lastError = FALSE]
  IN IF keepGate THEN s1 ELSE ReleaseGate(s1)

----------------------------------------------------------------------------
(* Statuses, openings and operations.                                      *)

\* updateStatus up to its status-specific branches.
SetStatus(s, status) ==
  [s EXCEPT !.bus.status = status,
            !.bus.connected = @ \/ status = "connected",
            !.bus.topics = IF status \in {"disconnected", "error"} THEN {} ELSE @]

\* Mutant: an opening in flight is not noticed.
NoOpening(s) == FALSE

\* An opening in flight that is not a stop gate.
Opening(s) == s.bus.startPromise # None /\ s.bus.startPromise # s.bus.pendingStop

\* The lifecycle epoch moves on: earlier openings and handlers are void.
NewEpoch(s, owner) == [s EXCEPT !.bus.current = owner, !.bus.heard = FALSE]

NewOpening(s, after, initial, trace) ==
  [NewEpoch(s, Fresh(s)) EXCEPT
     !.chain[Fresh(s)] = [kind |-> "open", at |-> "waiting", after |-> after,
                          initial |-> initial, trace |-> trace, then |-> {}],
     !.bus.startPromise = Fresh(s),
     !.bus.started = TRUE, !.bus.suspended = FALSE, !.bus.ready = FALSE]

\* Handlers of an opening: watch (startPromise is cleared), recovery, demand.
Attach(s, handler) == [s EXCEPT !.chain[s.bus.startPromise].then = @ \cup {handler}]

\* What the next lifecycle call on the transport waits for.
Latest(s) == IF s.bus.startPromise # None THEN s.bus.startPromise ELSE s.bus.pendingStop

\* The reaction may have begun something else than the opening c.
Reopened(told, c) ==
  IF told.bus.current # c \/ told.bus.stopping \/ told.bus.suspended
  THEN told ELSE Attach(told, "watch")

\* reopenTransport.
Reopen(s, byTimer, r) ==
  IF s.bus.stopping \/ ~s.bus.config \/ Opening(s) THEN s
  ELSE LET opened == NewOpening(s, Latest(s), FALSE, byTimer \/ s.bus.attempt > 0)
       IN Reopened(React(r, SetStatus(opened, "connecting")), Fresh(s))

\* startDemandRecovery.
DemandRecovery(s, r) ==
  IF ~s.bus.demand \/ s.bus.status # "error" \/ s.bus.suspended \/ s.bus.stopping THEN s
  ELSE Attach(Reopen([s EXCEPT !.bus.demand = FALSE], FALSE, r), "demand")

\* The operation itself.
Execute(s, act, topics) ==
  CASE act = "subscribe" -> [s EXCEPT !.link = Subscribed(@, topics)]
    [] act = "unsubscribe" -> [s EXCEPT !.link = Unsubscribed(@, topics)]
    [] act = "publish" -> s

Wait(s, act, topics, on) ==
  [s EXCEPT !.ops = @ \cup {[act |-> act, topic |-> t, on |-> on] : t \in topics}]

\* Mutant: a waiting operation is executed whatever happened meanwhile.
AlwaysWanted(s, o) == TRUE

\* stillWanted, read again where a waiting operation resumes.
Wanted(s, o) ==
  CASE o.act = "subscribe" -> o.topic \in s.bus.topics
    [] o.act = "unsubscribe" -> o.topic \notin s.bus.topics
    [] o.act = "publish" -> TRUE

\* droppedAfterConnect.
Dropped(s) == s.bus.connected /\ s.bus.status = "disconnected"

\* runTransport past the recovery it may have started, and past the opening.
Park(told, act, topics) ==
  IF told.bus.gate THEN Wait(told, act, topics, Gate) ELSE told
AwaitOpening(told, act, topics) ==
  IF told.bus.startPromise = None \/ told.bus.stopping
  THEN told ELSE Wait(told, act, topics, told.bus.startPromise)

EnsureOpening(s, r) ==
  IF s.bus.startPromise = None /\ s.bus.started /\ ~s.bus.stopping /\ s.bus.config
  THEN Reopen(s, FALSE, r) ELSE s

\* runTransport, for the operations a loop of the bus issues in one task.
RunTransport(s, act, topics, r) ==
  IF s.bus.suspended THEN s
  ELSE IF s.bus.gate /\ ~s.bus.stopping THEN Park(DemandRecovery(s, r), act, topics)
  ELSE IF s.bus.ready /\ s.bus.status # "error" /\ ~Dropped(s) /\ ~s.bus.stopping
       THEN Execute(s, act, topics)
  ELSE AwaitOpening(EnsureOpening(s, r), act, topics)

\* subscribeTransport and unsubscribeTransport.
SubscribeTransport(s, topics, r) ==
  LET new == topics \ s.bus.topics
  IN IF new = {} THEN s
     ELSE RunTransport([s EXCEPT !.bus.topics = @ \cup new], "subscribe", new, r)

UnsubscribeTransport(s, topics, r) ==
  LET old == topics \cap s.bus.topics
  IN IF old = {} THEN s
     ELSE RunTransport([s EXCEPT !.bus.topics = @ \ old], "unsubscribe", old, r)

\* allowDemandRecovery.
AllowDemand(s, kick, r) ==
  LET s1 == [s EXCEPT !.bus.demand = TRUE]
  IN IF s.bus.gate /\ s.bus.started /\ ~s.bus.stopping /\ ~s.bus.suspended
        /\ s.bus.status = "error"
     THEN IF kick /\ \E o \in s.ops : o.on \in {Gate, Released}
          THEN DemandRecovery(s1, r) ELSE s1
     ELSE ReleaseGate(s)

\* Mutant: attempts are counted without end.
CountAttempt(limit, n) == n + 1

\* Attempts are counted up to one past the limit, and not at all without one.
NextAttempt(limit, n) == IF n > limit THEN n ELSE IF limit = 0 THEN 1 ELSE n + 1
Exhausts(limit, n) == limit # 0 /\ n > limit

\* updateStatus("error"): one recovery per cooldown, and no notification
\* once the attempts are spent.
Failed(s, r) ==
  LET n == NextAttempt(s.bus.limit, s.bus.attempt)
  IN IF ~s.bus.started \/ s.bus.stopping THEN React(r, ReleaseGate(s))
     ELSE IF ~s.bus.cooled THEN React(r, s)
     ELSE IF Exhausts(s.bus.limit, n)
          THEN ReleaseGate([s EXCEPT !.bus.cooled = FALSE, !.bus.attempt = n,
                                     !.bus.exhausted = TRUE])
     ELSE React(r, [s EXCEPT !.bus.cooled = FALSE, !.bus.attempt = n, !.bus.gate = TRUE,
                          !.bus.demand = FALSE, !.bus.timer = TRUE])

\* updateStatus("connected"): a connection that came back serves the topics
\* assigned meanwhile.
Reconnected(s, r) ==
  SubscribeTransport(IF s.bus.ready THEN ReleaseGate(s) ELSE s, s.cluster.assigned, r)

\* updateStatus.
UpdateStatus(s, status, r) ==
  LET s1 == SetStatus(s, status)
  IN CASE status = "error" -> Failed(s1, r)
       [] status = "connected" /\ s.bus.status # "connected" -> React(r, Reconnected(s1, r))
       [] OTHER -> React(r, s1)

----------------------------------------------------------------------------
(* Suspension, start and stop.                                             *)

\* Mutant: the stop does not wait for the opening in flight.
NewStopAtOnce(s, after) ==
  [s EXCEPT !.chain[Fresh(s)] = [NoChain EXCEPT !.kind = "stop", !.at = "waiting"],
            !.bus.pendingStop = Fresh(s)]

\* A stop of the transport behind what is in flight.
NewStop(s, after) ==
  [s EXCEPT !.chain[Fresh(s)] = [NoChain EXCEPT !.kind = "stop", !.at = "waiting", !.after = after],
            !.bus.pendingStop = Fresh(s)]

\* Mutant: the stop is not installed as the start promise.
Ungated(s) == s

Gated(s) == [s EXCEPT !.bus.startPromise = s.bus.pendingStop]

\* A reaction that starts or stops the bus owns the transport from then on; a
\* stop that already covers the hide is reused.
StopSuspended(told) ==
  IF told.bus.stopping \/ ~told.bus.suspended THEN told
  ELSE IF told.bus.pendingStop # None /\ ~Opening(told) THEN Gated(told)
  ELSE Gated(NewStop(told, Latest(told)))

\* suspendTransport.
SuspendTransport(s, r) ==
  LET hidden == [CancelRecovery(NewEpoch(s, None)) EXCEPT
                   !.bus.suspended = TRUE, !.bus.ready = FALSE, !.bus.topics = {}]
  IN IF s.bus.stopping THEN s
     ELSE StopSuspended(UpdateStatus(hidden, "disconnected", r))

\* cluster.start(): a runtime started in a hidden page suspends at once; a page
\* that is gone counts as hidden.
ClusterStart(s, r) ==
  IF s.cluster.running THEN s
  ELSE IF s.page = "visible"
       THEN [s EXCEPT !.cluster.listening = TRUE, !.cluster.paused = FALSE,
                      !.cluster.running = TRUE]
  ELSE SuspendTransport([s EXCEPT !.cluster.listening = TRUE, !.cluster.paused = TRUE], r)

\* cluster.stop(), called while the bus is stopping.
ClusterStop(s) ==
  [s EXCEPT !.cluster = [running |-> FALSE, listening |-> FALSE, paused |-> FALSE,
                         assigned |-> {}]]

\* start() past the status "connecting", and past cluster.start().
Join(told, c, r) ==
  IF told.bus.current # c \/ told.bus.stopping THEN told ELSE ClusterStart(told, r)
Joined(told, c) ==
  IF told.bus.current # c \/ told.bus.stopping THEN told ELSE Attach(told, "watch")

\* start() of a bus that is not started.
FirstStart(s, r) ==
  LET opened == NewOpening([ResetFailure(s, FALSE) EXCEPT !.bus.config = TRUE],
                           s.bus.pendingStop, TRUE, FALSE)
  IN Joined(Join(UpdateStatus(opened, "connecting", r), Fresh(s), r), Fresh(s))

\* A suspended bus resumes its runtime too.
Resumed(told, r) ==
  IF told.bus.stopping \/ told.bus.suspended THEN told ELSE ClusterStart(told, r)

\* start() of a started bus: nothing while the transport is up.
Restart(s, r) ==
  LET reset == [ResetFailure(s, TRUE) EXCEPT !.bus.config = TRUE]
  IN IF s.bus.ready /\ s.bus.status \notin {"error", "disconnected"} THEN s
     ELSE IF s.bus.suspended THEN Resumed(Reopen(reset, FALSE, r), r)
     ELSE Reopen(reset, FALSE, r)

\* start(): queued behind a stop, and shared while an opening is in flight.
Start(s, r) ==
  IF s.bus.queued \/ s.bus.stopping THEN [s EXCEPT !.bus.queued = TRUE]
  ELSE IF Opening(s) THEN s
  ELSE IF s.bus.started THEN Restart(s, r)
  ELSE FirstStart(s, r)

\* stop(): it cancels a queued start, is shared while it runs, and begins
\* by voiding whatever is in flight (beginStop).
Stop(s) ==
  LET s1 == [s EXCEPT !.bus.queued = FALSE]
      begun == ClusterStop(CancelRecovery([NewEpoch(s1, None) EXCEPT !.bus.stopping = TRUE]))
  IN IF s.bus.stopping \/ (~s.bus.started /\ s.bus.startPromise = None
                             /\ s.bus.pendingStop = None /\ ~s.bus.ready)
     THEN s1
     ELSE [begun EXCEPT !.bus.down = [at |-> "opening", on |-> s.bus.startPromise]]
=============================================================================
