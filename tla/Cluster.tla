------------------------------ MODULE Cluster ------------------------------
(***************************************************************************)
(* WorkerClusterRuntime (src/src/core/cluster.ts): one runtime per tab,    *)
(* coordinating topic ownership through shared localStorage records and    *)
(* BroadcastChannel frames.                                                *)
(*                                                                         *)
(* Every handler of the code is one task.  A task reads storage through    *)
(* the tab's BatchingStorageWriter, computes, sends frames and queues      *)
(* writes; the queued writes reach localStorage in the microtask that      *)
(* follows (Flush), so tasks of other tabs may run in between, on the old  *)
(* records.  flushStorage() inside a handler writes at once.               *)
(*                                                                         *)
(* Abstractions.  Clocks are replaced by the two verdicts the code draws   *)
(* from them: a worker record is stale (older than workerTtlMs) or not, a  *)
(* route is aged or not; the environment sets these.  Worker ids are       *)
(* naturals ordered as the code orders id strings.  Frames between two     *)
(* tabs stay in order per topic, and a frame equal to the last one still   *)
(* queued is not queued twice; REGISTRY frames are a set of nudged tabs.   *)
(* A failing flush fails on its first key, applies nothing and is retried; *)
(* the writer gives up only after five failures, which StorageBatch models *)
(* and no instance here reaches.  churn bounds the number of disturbances  *)
(* by MaxChurn, and Events names the kinds of disturbance an instance      *)
(* exercises.  Generations count modulo MaxGen.                            *)
(***************************************************************************)
EXTENDS Naturals, Sequences, FiniteSets, Routing

CONSTANTS Workers,           \* runtime ids
          Topics,            \* topics (one key each)
          MaxActiveWorkers,  \* option maxActiveWorkers
          MaxChurn,          \* bound on the number of disturbances
          MaxGen,            \* route generations wrap after MaxGen
          Events             \* the kinds of disturbance allowed

EventKinds == {"pagehide", "resume", "crash", "stop", "subscribe",
               "unsubscribe", "stall", "lose", "flushfail", "visibility",
               "status"}

ASSUME WorkersAssumption == Workers \subseteq Nat \ {0} /\ IsFiniteSet(Workers)
ASSUME TopicsAssumption == IsFiniteSet(Topics)
ASSUME MaxActiveAssumption == MaxActiveWorkers \in Nat \ {0}
ASSUME ChurnAssumption == MaxChurn \in Nat
ASSUME MaxGenAssumption == MaxGen \in Nat \ {0}
ASSUME EventsAssumption == Events \subseteq EventKinds

NoWorker == 0

WorkerRecord == [load : Nat, visible : BOOLEAN, healthy : BOOLEAN,
                 registeredAt : Nat, role : {"active", "standby"},
                 stale : BOOLEAN]

NoRecord == [load |-> 0, visible |-> FALSE, healthy |-> FALSE,
             registeredAt |-> 0, role |-> "none", stale |-> FALSE]

Route == [owner : Workers, gen : Nat, from : Workers \cup {NoWorker},
          confirmed : BOOLEAN, aged : BOOLEAN]

\* A missing route counts as generation 0, as the code's ?? 0 does.
NoRoute == [owner |-> NoWorker, gen |-> 0, from |-> NoWorker,
            confirmed |-> FALSE, aged |-> FALSE]

Frame == [kind : {"SUBSCRIBE", "UNSUBSCRIBE", "ROUTE_RELEASED"}, gen : Nat]

VARIABLES
  storage,     \* localStorage: worker, route and subscriber records
  pending,     \* per tab: writes its BatchingStorageWriter has queued
  retrying,    \* tabs whose last flush failed and wait for the retry timer
  phase,       \* stopped | started | suspended | crashed
  subscribed,  \* subscribedTopics
  assigned,    \* assignedTopics
  held,        \* topics whose last onControl call was SUBSCRIBE
  me,          \* currentRecord
  chan,        \* frames in flight, per sender, receiver and topic
  nudged,      \* tabs with a REGISTRY frame in flight
  now,         \* logical clock of registrations
  churn        \* disturbances so far

vars == <<storage, pending, retrying, phase, subscribed, assigned, held, me,
          chan, nudged, now, churn>>

Pairs == Topics \X Workers

NoWrites == [worker |-> [x \in {} |-> NoRecord],
             route |-> [t \in {} |-> NoRoute],
             sub |-> [p \in {} |-> FALSE]]

\* getItem: the queued value first, then localStorage.
Over(queued, base) ==
  [x \in DOMAIN base |-> IF x \in DOMAIN queued THEN queued[x] ELSE base[x]]

Started(w) == phase[w] = "started"

\* A task may start once the previous task's microtask has flushed; while a
\* failed flush waits for its retry timer, tasks go on.
Ready(w) == pending[w] = NoWrites \/ w \in retrying

Disturb(kind) == kind \in Events /\ churn < MaxChurn /\ churn' = churn + 1

----------------------------------------------------------------------------
(* A task: the tab's view of storage, the keys it has written, its local   *)
(* state, at most one outgoing frame per topic, and whether REGISTRY is    *)
(* sent.                                                                   *)

NoFrame == [to |-> NoWorker, kind |-> "SUBSCRIBE", gen |-> 0]

Begin(w) ==
  [disk |-> storage,
   worker |-> Over(pending[w].worker, storage.worker),
   route |-> Over(pending[w].route, storage.route),
   sub |-> Over(pending[w].sub, storage.sub),
   dw |-> DOMAIN pending[w].worker,
   dr |-> DOMAIN pending[w].route,
   ds |-> DOMAIN pending[w].sub,
   asg |-> assigned[w], hld |-> held[w], rec |-> me[w],
   out |-> [t \in Topics |-> NoFrame],
   notify |-> FALSE]

PutWorkers(k, f) ==
  [k EXCEPT !.worker = Over(f, @), !.dw = @ \cup DOMAIN f]
PutRoutes(k, f) ==
  [k EXCEPT !.route = Over(f, @), !.dr = @ \cup DOMAIN f]
PutSubs(k, f) ==
  [k EXCEPT !.sub = Over(f, @), !.ds = @ \cup DOMAIN f]
DropRoutes(k, gone) == PutRoutes(k, [t \in gone |-> NoRoute])
Notified(k) == [k EXCEPT !.notify = TRUE]

\* flushStorage(): the queued keys reach localStorage now, or none of them.
Flushed(k, ok) ==
  IF ok THEN [k EXCEPT !.disk = [worker |-> k.worker, route |-> k.route, sub |-> k.sub],
                       !.dw = {}, !.dr = {}, !.ds = {}]
  ELSE k

\* writeRecord: stamp the heartbeat and queue the worker record.
WriteRecord(k, w) == PutWorkers(k, [x \in {w} |-> k.rec])

\* updateLoad: publish the number of assigned topics when it changed.
UpdateLoad(k, w, running) ==
  LET load == Cardinality(k.asg)
      k1 == [k EXCEPT !.rec.load = load]
  IN IF load = k.rec.load THEN k
     ELSE IF running THEN Notified(WriteRecord(k1, w)) ELSE k1

\* Mutant: expired records are never deleted.
Unpruned(k, w) == k

\* readWorkers: expired records of others are deleted as they are read.
Pruned(k, w) ==
  PutWorkers(k, [x \in {y \in Workers \ {w} : k.worker[y].stale} |-> NoRecord])

\* The ids readWorkers returns after Pruned; a running tab always counts itself.
LiveIds(k, w, running) ==
  {x \in Workers : k.worker[x] # NoRecord} \cup (IF running THEN {w} ELSE {})

LiveRecords(k, ids) ==
  [x \in ids |-> IF k.worker[x] # NoRecord THEN k.worker[x] ELSE k.rec]

\* readSubscriberIds, once the dead records are gone.
Subscribers(k, t) == {x \in Workers : k.sub[<<t, x>>]}

\* isSubscriberRecordLive: the records of dead tabs are deleted as they are read.
CleanSubscribers(k, topics, ids) ==
  PutSubs(k, [p \in {q \in topics \X (Workers \ ids) : k.sub[q]} |-> FALSE])

\* cleanupOrphanedRoutes: aged routes nobody subscribes to.
CleanRoutes(k) ==
  DropRoutes(k, {t \in Topics : k.route[t].aged /\ Subscribers(k, t) = {}})

\* Mutant: an active tab never steps back.
StickyRole(k, w, recs) ==
  [k EXCEPT !.rec.role = IF w \in SelectActiveWorkers(recs, MaxActiveWorkers)
                         THEN "active" ELSE @]

\* refreshRole.
RefreshRole(k, w, recs) ==
  [k EXCEPT !.rec.role = IF w \in SelectActiveWorkers(recs, MaxActiveWorkers)
                         THEN "active" ELSE "standby"]

\* confirmRoute: the owner stamps its unconfirmed routes.
Confirm(k, w, topics) ==
  PutRoutes(k, [t \in {u \in topics : k.route[u].owner = w /\ ~k.route[u].confirmed}
                  |-> [k.route[t] EXCEPT !.confirmed = TRUE]])

\* SUBSCRIBE accepted: assignment, confirmation, onControl.
Take(k, w, topics) ==
  [Confirm(k, w, topics) EXCEPT !.asg = @ \cup topics, !.hld = @ \cup topics]

\* Mutant: the release is never dispatched to the transport.
LeaveSilently(k, topics) == [k EXCEPT !.asg = @ \ topics]

\* UNSUBSCRIBE accepted: assignment and onControl.
Leave(k, topics) == [k EXCEPT !.asg = @ \ topics, !.hld = @ \ topics]

\* sendControl and sendRouteReleased to other tabs.
Send(k, frames) == [k EXCEPT !.out = Over(frames, @)]

Control(kind, to) == [to |-> to, kind |-> kind, gen |-> 0]

\* ROUTE_RELEASED to the owner of route r.
Released(r) == [to |-> r.owner, kind |-> "ROUTE_RELEASED", gen |-> r.gen]

----------------------------------------------------------------------------
(* Committing a task: queued writes, local state, and the frames, which a  *)
(* tab receives while its channel is open.  The channel of the sender is   *)
(* open in every task of a started tab, and in the tasks that start or     *)
(* pause it.                                                               *)

Links == {l \in Workers \X Workers \X Topics : l[1] # l[2]}

Queued(k) == [worker |-> [x \in k.dw |-> k.worker[x]],
              route |-> [t \in k.dr |-> k.route[t]],
              sub |-> [p \in k.ds |-> k.sub[p]]]

\* A frame equal to the last one still queued changes nothing when handled.
Queue(frames, f) ==
  IF frames # <<>> /\ frames[Len(frames)] = f THEN frames ELSE Append(frames, f)

\* postMessage: the frames w sends, on links whose earlier frames are given.
Posted(k, w, links) ==
  [l \in Links |->
     LET f == k.out[l[3]]
     IN IF l[1] = w /\ f.to = l[2] /\ Started(l[2])
        THEN Queue(links[l], [kind |-> f.kind, gen |-> f.gen])
        ELSE links[l]]

Commit(w, k, links, nudges) ==
  /\ storage' = k.disk
  /\ pending' = [pending EXCEPT ![w] = Queued(k)]
  /\ retrying' = IF Queued(k) = pending[w] THEN retrying ELSE retrying \ {w}
  /\ assigned' = [assigned EXCEPT ![w] = k.asg]
  /\ held' = [held EXCEPT ![w] = k.hld]
  /\ me' = [me EXCEPT ![w] = k.rec]
  /\ chan' = Posted(k, w, links)
  /\ nudged' = nudges \cup (IF k.notify THEN {x \in Workers \ {w} : Started(x)} ELSE {})

\* The links once w no longer listens, and once w has read a frame.
Closed(w) == [l \in Links |-> IF l[2] = w THEN <<>> ELSE chan[l]]
Received(link) == [chan EXCEPT ![link] = Tail(@)]

----------------------------------------------------------------------------
(* Elections.  A plan names the owner chosen for every topic.              *)

Plans == [Topics -> Workers]

\* Orphaned topics are placed by the loads of one snapshot.
Snapshot(recs, active, topics, plan) ==
  \A t \in topics : IsLeastLoaded([x \in active |-> recs[x].load], active, plan[t])

\* Recovered and handed-off topics count the topics placed before them, in
\* the insertion order of the Set or Map iterated.
Projected(recs, active, topics, plan) ==
  \E order \in [topics -> 1..Cardinality(topics)] :
    /\ \A t, u \in topics : order[t] = order[u] => t = u
    /\ \A t \in topics :
         IsLeastLoaded(
           [x \in active |-> recs[x].load
              + Cardinality({u \in topics : order[u] < order[t] /\ plan[u] = x})],
           active, plan[t])

\* The generation of the route that replaces r.  The code only compares
\* generations for equality, and wrapping keeps the state space finite.
NextGen(r) == (r.gen % MaxGen) + 1

\* Mutant: the arguments of buildRouteRecord swapped.
SwappedRoute(owner, from, gen) ==
  [owner |-> from, gen |-> gen, from |-> owner, confirmed |-> FALSE, aged |-> FALSE]

\* buildRouteRecord: an unconfirmed route.
NewRoute(owner, from, gen) ==
  [owner |-> owner, gen |-> gen, from |-> from, confirmed |-> FALSE, aged |-> FALSE]

\* writeRoute, then SUBSCRIBE to the planned owners; a self SUBSCRIBE confirms.
Elect(k, w, topics, plan) ==
  LET routed == PutRoutes(k, [t \in topics |-> NewRoute(plan[t], NoWorker, NextGen(k.route[t]))])
      asked == Send(routed, [t \in {u \in topics : plan[u] # w} |-> Control("SUBSCRIBE", plan[t])])
      taken == Take(asked, w, {t \in topics : plan[t] = w})
  IN IF topics = {} THEN k ELSE Notified(taken)

----------------------------------------------------------------------------
(* reconcile, stage by stage.                                              *)

\* reconcileWorkers, ids being the live tabs.
ReconcileWorkers(k, w, ids) ==
  LET cleaned == CleanRoutes(CleanSubscribers(Pruned(k, w), Topics, ids))
      k1 == RefreshRole(cleaned, w, LiveRecords(cleaned, ids))
  IN IF k1.rec.role = k.rec.role THEN k1 ELSE WriteRecord(k1, w)

\* Mutant: no repair of stranded routes.
NoRepair(k, w, ok) == k

\* reconcileStrandedSelfRoutes: confirmed routes of w that w does not hold
\* are reclaimed when w subscribes, else removed and flushed at once; ok tells
\* whether storage takes the writes.
ReconcileStranded(k, w, ok) ==
  LET stranded == {t \in Topics \ k.asg : k.route[t].owner = w /\ k.route[t].confirmed}
      reclaimed == UpdateLoad(Take(k, w, stranded \cap subscribed[w]), w, TRUE)
      gone == stranded \ subscribed[w]
  IN IF gone = {} THEN reclaimed ELSE Notified(Flushed(DropRoutes(reclaimed, gone), ok))

\* Subscribed topics without a live owner.
Orphaned(k, w, ids) == {t \in subscribed[w] : k.route[t].owner \notin ids}

Unconfirmed(k, w, ids) ==
  {t \in subscribed[w] : k.route[t].owner \in ids /\ ~k.route[t].confirmed}

\* Mutant: a handoff is taken for an election.
HandoffToo(k, w, ids) == Unconfirmed(k, w, ids)

\* Elections, not handoffs, whose SUBSCRIBE is repeated.
Unasked(k, w, ids) == {t \in Unconfirmed(k, w, ids) : k.route[t].from = NoWorker}

\* Mutant: an abandoned handoff is waited for.
NeverAbandoned(k, w, ids) == {}

\* Handoffs whose previous owner is gone and whose new owner never confirmed.
Abandoned(k, w, ids) ==
  {t \in Unconfirmed(k, w, ids) : /\ k.route[t].from # NoWorker
                                  /\ k.route[t].from \notin ids
                                  /\ k.route[t].aged}

\* Mutant: only the elected owner ever recovers a handoff.
RecoversOwn(k, w, t, owner) == owner = w

\* The single-writer rule: w rewrites an abandoned handoff to itself, or to
\* an elected owner that does not subscribe and so never would.
Recovers(k, w, t, owner) == owner = w \/ owner \notin Subscribers(k, t)

\* reconcileSubscriptions.
ReconcileSubscriptions(k, w, ids, plan) ==
  LET written == PutSubs(k, [p \in subscribed[w] \X {w} |-> TRUE])
      orphaned == Orphaned(written, w, ids)
      unasked == Unasked(written, w, ids)
      recovered == {t \in Abandoned(written, w, ids) : Recovers(written, w, t, plan[t])}
      own == {t \in unasked : written.route[t].owner = w}
      asked == Send(written, [t \in unasked \ own |->
                                Control("SUBSCRIBE", written.route[t].owner)])
  IN UpdateLoad(Elect(Take(asked, w, own), w, orphaned \cup recovered, plan), w, TRUE)

\* Mutant: a topic routed elsewhere is kept.
KeepDrift(k, w) == k

\* reconcileAssignedTopics: let go of topics routed elsewhere, and release
\* those handed off by w.
ReconcileAssigned(k, w) ==
  LET lost == {t \in k.asg : k.route[t].owner # w}
      freed == {t \in lost : k.route[t].from = w}
  IN UpdateLoad(Leave(Send(k, [t \in freed |-> Released(k.route[t])]), lost), w, TRUE)

\* The result of reconcile for the owners in plan, when they are the ones the
\* elections choose.
Reconciled(k, w, plan, ok) ==
  LET ids == LiveIds(Pruned(k, w), w, TRUE)
      k1 == ReconcileStranded(ReconcileWorkers(k, w, ids), w, ok)
  IN ReconcileAssigned(ReconcileSubscriptions(k1, w, ids, plan), w)

Elected(k, w, plan, ok) ==
  LET ids == LiveIds(Pruned(k, w), w, TRUE)
      recs == LiveRecords(Pruned(k, w), ids)
      active == SelectActiveWorkers(recs, MaxActiveWorkers)
      k1 == ReconcileStranded(ReconcileWorkers(k, w, ids), w, ok)
      orphaned == Orphaned(k1, w, ids)
      abandoned == Abandoned(k1, w, ids)
  IN /\ Snapshot(recs, active, orphaned, plan)
     /\ Projected(recs, active, abandoned, plan)
     /\ \A t \in Topics \ (orphaned \cup abandoned) : plan[t] = w

\* How a flush within reconcile may end: until the disturbances are spent it
\* may fail, without being one of them.
FlushResults == IF "flushfail" \in Events /\ churn < MaxChurn THEN BOOLEAN ELSE {TRUE}

\* A task that ends with reconcile.
Reconcile(w, k, nudges) ==
  \E plan \in Plans, ok \in FlushResults :
    /\ Elected(k, w, plan, ok)
    /\ Commit(w, Reconciled(k, w, plan, ok), chan, nudges)

----------------------------------------------------------------------------
(* The lifecycle of a tab.                                                 *)

\* activate: register, announce, write the subscriptions, reconcile.
Activate(w) ==
  LET k == [Begin(w) EXCEPT !.rec.registeredAt = now]
      seen == Pruned(k, w)
      ids == LiveIds(seen, w, TRUE)
      roled == WriteRecord(RefreshRole(seen, w, LiveRecords(seen, ids)), w)
      announced == PutSubs(Notified(roled), [p \in subscribed[w] \X {w} |-> TRUE])
  IN /\ Reconcile(w, announced, nudged)
     /\ phase' = [phase EXCEPT ![w] = "started"]
     /\ now' = now + 1
     /\ UNCHANGED subscribed

\* start; a tab that starts hidden waits for pageshow.
Start(w) ==
  /\ phase[w] = "stopped" /\ Ready(w)
  /\ IF me[w].registeredAt = 0 THEN UNCHANGED churn ELSE Disturb("resume")
  /\ \/ me[w].visible /\ Activate(w)
     \/ /\ ~me[w].visible
        /\ phase' = [phase EXCEPT ![w] = "suspended"]
        /\ UNCHANGED <<storage, pending, retrying, subscribed, assigned, held, me,
                       chan, nudged, now>>

\* handlePageShow.
Resume(w) ==
  /\ phase[w] = "suspended" /\ Ready(w)
  /\ Disturb("resume")
  /\ Activate(w)

\* releaseSubscription for the topics of a pausing tab: no message is sent.
ReleaseAll(k, w) ==
  LET dropped == PutSubs(k, [p \in subscribed[w] \X {w} |-> FALSE])
      routed == {t \in subscribed[w] : k.route[t] # NoRoute}
      seen == IF routed = {} THEN dropped ELSE Pruned(dropped, w)
      cleaned == CleanSubscribers(seen, routed, LiveIds(seen, w, FALSE))
  IN DropRoutes(cleaned, {t \in routed : Subscribers(cleaned, t) = {}})

\* handoffAssignedTopics: the topics w owns go to the remaining tabs.
Handoff(k, w, plan) ==
  LET seen == IF k.asg = {} THEN k ELSE Pruned(k, w)
      mine == {t \in k.asg : k.route[t].owner = w}
      cleaned == CleanSubscribers(seen, mine, LiveIds(seen, w, FALSE) \ {w})
      moved == {t \in mine : Subscribers(cleaned, t) # {}}
      routes == [t \in moved |-> NewRoute(plan[t], w, NextGen(k.route[t]))]
  IN Send(PutRoutes(DropRoutes(cleaned, mine \ moved), routes),
          [t \in moved |-> Released(routes[t])])

HandoffElected(k, w, plan) ==
  LET ids == LiveIds(Pruned(k, w), w, FALSE) \ {w}
      recs == LiveRecords(Pruned(k, w), ids)
      moved == {t \in k.asg : k.route[t].owner = w /\ Subscribers(k, t) \cap ids # {}}
  IN /\ Projected(recs, SelectActiveWorkers(recs, MaxActiveWorkers), moved, plan)
     /\ \A t \in Topics \ moved : plan[t] = w

\* Mutant: teardown forgets to clear the assignments.
NotCleared(k) == k

\* assignedTopics.clear() and onSuspend.
Cleared(k) == [k EXCEPT !.asg = {}, !.hld = {}]

\* discardPending: what the last flush could not write is dropped.
Discarded(k) == [k EXCEPT !.dw = {}, !.dr = {}, !.ds = {}]

\* pause: ok tells whether storage takes the writes.
Pause(w, ok) ==
  \E plan \in Plans :
    LET released == ReleaseAll(Begin(w), w)
        handed == Cleared(Handoff(released, w, plan))
        removed == PutWorkers(handed, [x \in {w} |-> NoRecord])
    IN /\ HandoffElected(released, w, plan)
       /\ Commit(w, Discarded(Notified(Flushed(removed, ok))), Closed(w), nudged \ {w})

PageHide(w, ok) ==
  /\ Started(w) /\ Ready(w)
  /\ Disturb(IF ok THEN "pagehide" ELSE "flushfail")
  /\ Pause(w, ok)
  /\ phase' = [phase EXCEPT ![w] = "suspended"]
  /\ UNCHANGED <<subscribed, now>>

Stop(w, ok) ==
  /\ phase[w] \in {"started", "suspended"} /\ Ready(w)
  /\ "stop" \in Events /\ Disturb(IF ok THEN "stop" ELSE "flushfail")
  /\ \/ Started(w) /\ Pause(w, ok)
     \/ ~Started(w) /\ Commit(w, Flushed(Begin(w), ok), chan, nudged)
  /\ phase' = [phase EXCEPT ![w] = "stopped"]
  /\ subscribed' = [subscribed EXCEPT ![w] = {}]
  /\ UNCHANGED now

\* The process ends: nothing is written, the records stay behind.
Crash(w) ==
  /\ Started(w) /\ Disturb("crash")
  /\ phase' = [phase EXCEPT ![w] = "crashed"]
  /\ pending' = [pending EXCEPT ![w] = NoWrites]
  /\ retrying' = retrying \ {w}
  /\ assigned' = [assigned EXCEPT ![w] = {}]
  /\ held' = [held EXCEPT ![w] = {}]
  /\ chan' = Closed(w)
  /\ nudged' = nudged \ {w}
  /\ UNCHANGED <<storage, subscribed, me, now>>

----------------------------------------------------------------------------
(* Calls of the application.                                               *)

\* subscribe: a running tab elects an owner when the topic has none.
Subscribe(w, t) ==
  LET k == Pruned(PutSubs(Begin(w), [p \in {<<t, w>>} |-> TRUE]), w)
      ids == LiveIds(k, w, TRUE)
      recs == LiveRecords(k, ids)
      orphaned == {t} \ {u \in Topics : k.route[u].owner \in ids}
  IN /\ phase[w] # "crashed" /\ Ready(w) /\ t \notin subscribed[w]
     /\ Disturb("subscribe")
     /\ subscribed' = [subscribed EXCEPT ![w] = @ \cup {t}]
     /\ \/ /\ Started(w)
           /\ \E plan \in Plans :
                /\ Snapshot(recs, SelectActiveWorkers(recs, MaxActiveWorkers), orphaned, plan)
                /\ \A u \in Topics \ orphaned : plan[u] = w
                /\ Commit(w, UpdateLoad(Elect(k, w, orphaned, plan), w, TRUE), chan, nudged)
        \/ /\ ~Started(w)
           /\ UNCHANGED <<storage, pending, retrying, assigned, held, me, chan, nudged>>
     /\ UNCHANGED <<phase, now>>

\* unsubscribe; the channel of a tab that is not running is closed.
Unsubscribe(w, t) ==
  LET dropped == PutSubs(Begin(w), [p \in {<<t, w>>} |-> FALSE])
      owner == dropped.route[t].owner
      seen == Pruned(dropped, w)
      cleaned == CleanSubscribers(seen, {t}, LiveIds(seen, w, Started(w)))
      gone == DropRoutes(cleaned, {t})
      done == IF dropped.route[t] = NoRoute THEN dropped
              ELSE IF Subscribers(cleaned, t) # {} THEN cleaned
              ELSE IF owner = w THEN UpdateLoad(Leave(gone, {t}), w, Started(w))
              ELSE IF Started(w) THEN Send(gone, [u \in {t} |-> Control("UNSUBSCRIBE", owner)])
              ELSE gone
  IN /\ phase[w] # "crashed" /\ Ready(w) /\ t \in subscribed[w]
     /\ Disturb("unsubscribe")
     /\ subscribed' = [subscribed EXCEPT ![w] = @ \ {t}]
     /\ Commit(w, done, chan, nudged)
     /\ UNCHANGED <<phase, now>>

\* setStatus: the transport becomes healthy or fails.
SetStatus(w) ==
  LET k == [Begin(w) EXCEPT !.rec.healthy = ~@]
  IN /\ phase[w] # "crashed" /\ Ready(w) /\ Disturb("status")
     /\ Commit(w, IF Started(w) THEN Notified(WriteRecord(k, w)) ELSE k, chan, nudged)
     /\ UNCHANGED <<phase, subscribed, now>>

----------------------------------------------------------------------------
(* Handlers of a running tab.                                              *)

\* handleVisibilityChange; a tab that is not running only remembers the new
\* state, and one that is stopped reads it when it starts.
VisibilityChange(w) ==
  LET k == [Begin(w) EXCEPT !.rec.visible = ~@]
  IN /\ phase[w] # "crashed" /\ Ready(w) /\ Disturb("visibility")
     /\ \/ Started(w) /\ Reconcile(w, Notified(WriteRecord(k, w)), nudged)
        \/ ~Started(w) /\ Commit(w, k, chan, nudged)
     /\ UNCHANGED <<phase, subscribed, now>>

Heartbeat(w) ==
  /\ Started(w) /\ Ready(w)
  /\ Reconcile(w, WriteRecord(Begin(w), w), nudged)
  /\ UNCHANGED <<phase, subscribed, now, churn>>

Registry(w) ==
  /\ w \in nudged /\ Ready(w)
  /\ Reconcile(w, Begin(w), nudged \ {w})
  /\ UNCHANGED <<phase, subscribed, now, churn>>

\* SUBSCRIBE is dropped when the route names another owner, or is a handoff
\* to w that the previous owner has not released.
AcceptsSubscribe(r, w) ==
  r = NoRoute \/ (r.owner = w /\ (r.from = NoWorker \/ r.confirmed))

OnSubscribe(k, w, t) ==
  IF AcceptsSubscribe(k.route[t], w) THEN UpdateLoad(Take(k, w, {t}), w, TRUE) ELSE k

\* releaseHandoffOnUnsubscribe and the plain UNSUBSCRIBE.
OnUnsubscribe(k, w, t) ==
  LET freed == {u \in {t} : k.route[u].from = w}
  IN UpdateLoad(Send(Leave(k, {t}), [u \in freed |-> Released(k.route[u])]), w, TRUE)

\* isStaleRouteRelease, negated.
AcceptsRelease(r, w, from, gen) == r.owner = w /\ r.from = from /\ r.gen = gen

OnRouteReleased(k, w, from, t, gen) ==
  IF AcceptsRelease(k.route[t], w, from, gen)
  THEN UpdateLoad(Take(k, w, {t}), w, TRUE) ELSE k

\* handleMessage, for the first frame from x about t.
Deliver(x, w, t) ==
  LET link == <<x, w, t>>
      f == Head(chan[link])
      k == Begin(w)
  IN /\ x # w /\ chan[link] # <<>> /\ Ready(w)
     /\ Commit(w, CASE f.kind = "SUBSCRIBE" -> OnSubscribe(k, w, t)
                    [] f.kind = "UNSUBSCRIBE" -> OnUnsubscribe(k, w, t)
                    [] f.kind = "ROUTE_RELEASED" -> OnRouteReleased(k, w, x, t, f.gen),
               Received(link), nudged)
     /\ UNCHANGED <<phase, subscribed, now, churn>>

----------------------------------------------------------------------------
(* Storage and time.                                                       *)

\* BatchingStorageWriter.flush, in the microtask or on the retry timer.
Flush(w) ==
  /\ pending[w] # NoWrites
  /\ storage' = [worker |-> Over(pending[w].worker, storage.worker),
                 route |-> Over(pending[w].route, storage.route),
                 sub |-> Over(pending[w].sub, storage.sub)]
  /\ pending' = [pending EXCEPT ![w] = NoWrites]
  /\ retrying' = retrying \ {w}
  /\ UNCHANGED <<phase, subscribed, assigned, held, me, chan, nudged, now, churn>>

\* The first key fails: everything stays queued and the retry timer is armed.
FlushFails(w) ==
  /\ pending[w] # NoWrites /\ Disturb("flushfail")
  /\ retrying' = retrying \cup {w}
  /\ UNCHANGED <<storage, pending, phase, subscribed, assigned, held, me, chan,
                 nudged, now>>

\* A record outlives workerTtlMs without a heartbeat; a running tab only
\* misses its heartbeats when the browser throttles its timers.
Expire(w) ==
  /\ storage.worker[w] # NoRecord /\ ~storage.worker[w].stale
  /\ IF Started(w) THEN Disturb("stall") ELSE UNCHANGED churn
  /\ storage' = [storage EXCEPT !.worker[w].stale = TRUE]
  /\ UNCHANGED <<pending, retrying, phase, subscribed, assigned, held, me, chan,
                 nudged, now>>

\* A route outlives workerTtlMs.
AgeRoute(t) ==
  /\ storage.route[t] # NoRoute /\ ~storage.route[t].aged
  /\ storage' = [storage EXCEPT !.route[t].aged = TRUE]
  /\ UNCHANGED <<pending, retrying, phase, subscribed, assigned, held, me, chan,
                 nudged, now, churn>>

\* The frames of a tab that has gone may never arrive.
Lose(l) ==
  /\ chan[l] # <<>> /\ ~Started(l[1]) /\ Disturb("lose")
  /\ chan' = [chan EXCEPT ![l] = <<>>]
  /\ UNCHANGED <<storage, pending, retrying, phase, subscribed, assigned, held, me,
                 nudged, now>>

----------------------------------------------------------------------------
Init ==
  /\ storage = [worker |-> [x \in Workers |-> NoRecord],
                route |-> [t \in Topics |-> NoRoute],
                sub |-> [p \in Pairs |-> FALSE]]
  /\ pending = [w \in Workers |-> NoWrites]
  /\ retrying = {}
  /\ phase = [w \in Workers |-> "stopped"]
  /\ subscribed \in [Workers -> SUBSET Topics]
  /\ assigned = [w \in Workers |-> {}]
  /\ held = [w \in Workers |-> {}]
  /\ me = [w \in Workers |-> [load |-> 0, visible |-> TRUE, healthy |-> TRUE,
                              registeredAt |-> 0, role |-> "standby", stale |-> FALSE]]
  /\ chan = [l \in Links |-> <<>>]
  /\ nudged = {}
  /\ now = 1
  /\ churn = 0

Next ==
  \/ \E w \in Workers :
       \/ Start(w) \/ Resume(w) \/ Crash(w)
       \/ \E ok \in BOOLEAN : PageHide(w, ok) \/ Stop(w, ok)
       \/ \E t \in Topics : Subscribe(w, t) \/ Unsubscribe(w, t)
       \/ SetStatus(w) \/ VisibilityChange(w)
       \/ Heartbeat(w) \/ Registry(w)
       \/ \E x \in Workers, t \in Topics : Deliver(x, w, t)
       \/ Flush(w) \/ FlushFails(w) \/ Expire(w)
  \/ \E t \in Topics : AgeRoute(t)
  \/ \E l \in Links : Lose(l)

(* What the browser keeps doing: microtasks and retry timers run, every    *)
(* task queued on the event loop (a heartbeat tick, a frame) is run though  *)
(* others run before it, and clocks advance.  A guard need not mention     *)
(* Ready, which each flush makes true again.                               *)
Fairness ==
  /\ \A w \in Workers :
       /\ []<>(pending[w] = NoWrites) \/ []<><<Flush(w)>>_vars
       /\ []<>~Started(w) \/ []<><<Heartbeat(w)>>_vars
       /\ []<>(w \notin nudged) \/ []<><<Registry(w)>>_vars
       /\ WF_vars(~Started(w) /\ Expire(w))
  /\ \A l \in Links :
       []<>(chan[l] = <<>>) \/ []<><<Deliver(l[1], l[2], l[3])>>_vars
  /\ \A t \in Topics : WF_vars(AgeRoute(t))

Spec == Init /\ [][Next]_vars

FairSpec == Spec /\ Fairness

----------------------------------------------------------------------------
(* Properties.                                                             *)

\* A partial function, as the write queue holds them.
Partial(f, keys, values) ==
  /\ DOMAIN f \subseteq keys
  /\ \A x \in DOMAIN f : f[x] \in values

WorkerEntry == WorkerRecord \cup {NoRecord}
RouteEntry == Route \cup {NoRoute}

PendingOK(q) ==
  /\ q = [worker |-> q.worker, route |-> q.route, sub |-> q.sub]
  /\ Partial(q.worker, Workers, WorkerEntry)
  /\ Partial(q.route, Topics, RouteEntry)
  /\ Partial(q.sub, Pairs, BOOLEAN)

StorageType == [worker : [Workers -> WorkerEntry],
                route : [Topics -> RouteEntry],
                sub : [Pairs -> BOOLEAN]]

(* The type invariant: in particular no handler ever stores a record that  *)
(* names no tab, or a malformed one (writeRecord, writeRoute).             *)
TypeOK ==
  /\ storage \in StorageType
  /\ DOMAIN pending = Workers /\ \A w \in Workers : PendingOK(pending[w])
  /\ retrying \subseteq Workers
  /\ phase \in [Workers -> {"stopped", "started", "suspended", "crashed"}]
  /\ subscribed \in [Workers -> SUBSET Topics]
  /\ assigned \in [Workers -> SUBSET Topics]
  /\ held \in [Workers -> SUBSET Topics]
  /\ me \in [Workers -> WorkerRecord]
  /\ chan \in [Links -> Seq(Frame)]
  /\ nudged \subseteq Workers
  /\ now \in Nat
  /\ churn \in Nat

\* A tab hears frames and nudges only while it runs (handleMessage is detached).
QuietWhenClosed ==
  /\ \A l \in Links : chan[l] # <<>> => Started(l[2])
  /\ \A w \in nudged : Started(w)

(* The transport of a tab holds exactly the topics the tab counts as       *)
(* assigned, through every frame, reconcile, handoff and pause, and a tab  *)
(* that does not run holds none (onControl and assignedTopics agree).      *)
Coherent ==
  \A w \in Workers : /\ assigned[w] = held[w]
                     /\ ~Started(w) => assigned[w] = {}

(* The load a running tab publishes, on which every election depends, is   *)
(* the number of topics it holds at the end of every task (updateLoad).    *)
LoadAccurate ==
  \A w \in Workers : Started(w) => me[w].load = Cardinality(assigned[w])

(* What a tab counts, what its transport holds and what it tells the       *)
(* others agree.                                                           *)
Accounted == Coherent /\ LoadAccurate

\* The route of t and the record of x, as tab w reads them.
SeenRoute(w, t) == Over(pending[w].route, storage.route)[t]
SeenWorker(w, x) == Over(pending[w].worker, storage.worker)[x]

\* What w may take without a word from another tab: a topic without a route or
\* with one that outlived workerTtlMs, one whose owner is gone, and its own,
\* unless it is a handoff that the previous owner has not released.
Departed(w, x) == SeenWorker(w, x) = NoRecord \/ SeenWorker(w, x).stale
Free(w, t) ==
  LET r == SeenRoute(w, t)
  IN \/ r = NoRoute \/ r.aged
     \/ r.owner # w /\ Departed(w, r.owner)
     \/ r.owner = w /\ (r.from = NoWorker \/ r.confirmed)

\* The step in which w reads the first frame x sent about t, one of that kind.
Reads(w, kind, x, t) ==
  /\ <<x, w, t>> \in Links /\ chan[<<x, w, t>>] # <<>>
  /\ Head(chan[<<x, w, t>>]).kind = kind
  /\ chan'[<<x, w, t>>] = Tail(chan[<<x, w, t>>])

\* A tab begins to hold what is free, or what is handed to it by the release
\* of the very handoff its route names.
TakesWhatIsFree ==
  \A w \in Workers : \A t \in assigned'[w] \ assigned[w] :
    LET r == SeenRoute(w, t)
    IN \/ Free(w, t)
       \/ /\ r.owner = w /\ Reads(w, "ROUTE_RELEASED", r.from, t)
          /\ Head(chan[<<r.from, w, t>>]).gen = r.gen

\* A tab that posts a ROUTE_RELEASED has let go of the topic by then.
LetsGoFirst ==
  \A l \in Links :
    Len(chan'[l]) > Len(chan[l]) /\ chan'[l][Len(chan'[l])].kind = "ROUTE_RELEASED"
    => l[3] \notin assigned'[l[1]]

\* A running tab sees a route confirmed to itself, and does not hold the topic.
Stranded(w, t) ==
  LET r == SeenRoute(w, t)
  IN Started(w) /\ r.owner = w /\ r.confirmed /\ t \notin assigned[w]

\* Only the UNSUBSCRIBE of another tab leaves a route stranded: neither a
\* failed teardown does (reconcileStrandedSelfRoutes repairs it before the tab
\* runs again) nor a write of another tab, at whatever time it is flushed.
HoldsItsOwn ==
  \A w \in Workers, t \in Topics :
    Stranded(w, t)' =>
      \/ Stranded(w, t)
      \/ \E x \in Workers : Reads(w, "UNSUBSCRIBE", x, t)

(* Strict handoff (docs/architecture.md:615-616, 627): however tasks and    *)
(* flushes of the tabs interleave, a topic is taken only when it is free    *)
(* or released, released only when it was let go of, and a confirmed owner  *)
(* keeps it until it is told that nobody wants it.                          *)
OwnersAgree == [][TakesWhatIsFree /\ LetsGoFirst /\ HoldsItsOwn]_vars

Holders(t) == {w \in Workers : t \in assigned[w]}
Interested(t) == {w \in Workers : Started(w) /\ t \in subscribed[w]}

(* Every topic ends with exactly one holder, the confirmed owner of its    *)
(* route, when a running tab subscribes to it, and with none otherwise.    *)
Converges ==
  <>[](\A t \in Topics :
         IF Interested(t) = {} THEN Holders(t) = {}
         ELSE \E w \in Workers : /\ Holders(t) = {w}
                                 /\ storage.route[t].owner = w
                                 /\ storage.route[t].confirmed)

(* While some tab runs, the records that tabs left behind are cleaned up:  *)
(* no worker or subscriber record of a dead tab and no route nobody uses   *)
(* stays for good.                                                         *)
RecordsCleaned ==
  <>[]((\E w \in Workers : Started(w)) =>
         /\ \A w \in Workers : storage.worker[w] # NoRecord <=> Started(w)
         /\ \A p \in Pairs : storage.sub[p] <=> p[2] \in Interested(p[1])
         /\ \A t \in Topics : storage.route[t] # NoRoute <=> Interested(t) # {})

(* All tabs come to agree on who is active: the role every running tab     *)
(* publishes is the one SelectActiveWorkers computes from the records.     *)
RolesSettle ==
  <>[](\A w \in Workers : Started(w) =>
         LET live == {x \in Workers : Started(x)}
         IN storage.worker[w].role =
              IF w \in SelectActiveWorkers([x \in live |-> me[x]], MaxActiveWorkers)
              THEN "active" ELSE "standby")

(* Once the disturbances are over, the tabs settle: on owners, on what is  *)
(* left in storage, and on roles.                                          *)
Settles == Converges /\ RecordsCleaned /\ RolesSettle

(* README.md:23: a lost handoff ACK recovers through a TTL-gated           *)
(* re-election, so no route stays an unconfirmed handoff for good.         *)
HandoffSettles ==
  \A t \in Topics :
    /\ storage.route[t].from # NoWorker /\ ~storage.route[t].confirmed
    /\ Interested(t) # {}
    ~> \/ storage.route[t].from = NoWorker \/ storage.route[t].confirmed
       \/ Interested(t) = {}
============================================================================
