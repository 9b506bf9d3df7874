--------------------------- MODULE ClusterProofs ---------------------------
(***************************************************************************)
(* Proofs about Cluster, for any finite sets of tabs and topics and any    *)
(* number of disturbances: its type invariant, that the transport of every *)
(* tab holds exactly the assigned topics, that published loads are         *)
(* accurate, and in the second half that handoffs are strict (OwnersAgree).*)
(*                                                                         *)
(* A task is a record that passes through a chain of operators.  There is  *)
(* one lemma per operator, saying that it maps a well-formed task to a     *)
(* well-formed task; the theorems then follow action by action.            *)
(***************************************************************************)
EXTENDS Cluster, FiniteSetTheorems, TLAPS

Outgoing == [to : Workers \cup {NoWorker},
             kind : {"SUBSCRIBE", "UNSUBSCRIBE", "ROUTE_RELEASED"}, gen : Nat]

Task == [disk : StorageType,
         worker : [Workers -> WorkerEntry], route : [Topics -> RouteEntry],
         sub : [Pairs -> BOOLEAN],
         dw : SUBSET Workers, dr : SUBSET Topics, ds : SUBSET Pairs,
         asg : SUBSET Topics, hld : SUBSET Topics, rec : WorkerRecord,
         out : [Topics -> Outgoing], notify : BOOLEAN]

\* k1 differs from k in storage and frames only.
Quiet(k1, k) ==
  /\ k1 \in Task
  /\ k1.asg = k.asg /\ k1.hld = k.hld /\ k1.rec = k.rec

\* A task between two stages: assignments and transport agree.
Good == {k \in Task : k.asg = k.hld}

\* Queued values over stored ones stay well formed.
LEMMA OverType ==
  ASSUME NEW S, NEW T, NEW q, NEW base \in [S -> T], Partial(q, S, T)
  PROVE  Over(q, base) \in [S -> T]
BY DEF Over, Partial

----------------------------------------------------------------------------
(* Operators that leave the tab's own state alone.                         *)

\* Queueing worker records leaves the tab's own state alone.
LEMMA PutWorkersQuiet ==
  ASSUME NEW k \in Task, NEW f, Partial(f, Workers, WorkerEntry)
  PROVE  Quiet(PutWorkers(k, f), k)
<1>1. Over(f, k.worker) \in [Workers -> WorkerEntry]
  BY OverType DEF Task
<1>2. k.dw \cup DOMAIN f \in SUBSET Workers
  BY DEF Task, Partial
<1> QED BY <1>1, <1>2 DEF PutWorkers, Quiet, Task

\* Queueing routes does.
LEMMA PutRoutesQuiet ==
  ASSUME NEW k \in Task, NEW f, Partial(f, Topics, RouteEntry)
  PROVE  Quiet(PutRoutes(k, f), k)
<1>1. Over(f, k.route) \in [Topics -> RouteEntry]
  BY OverType DEF Task
<1>2. k.dr \cup DOMAIN f \in SUBSET Topics
  BY DEF Task, Partial
<1> QED BY <1>1, <1>2 DEF PutRoutes, Quiet, Task

\* Queueing subscriber records does.
LEMMA PutSubsQuiet ==
  ASSUME NEW k \in Task, NEW f, Partial(f, Pairs, BOOLEAN)
  PROVE  Quiet(PutSubs(k, f), k)
<1>1. Over(f, k.sub) \in [Pairs -> BOOLEAN]
  BY OverType DEF Task
<1>2. k.ds \cup DOMAIN f \in SUBSET Pairs
  BY DEF Task, Partial
<1> QED BY <1>1, <1>2 DEF PutSubs, Quiet, Task

\* Queueing removals of routes does.
LEMMA DropRoutesQuiet ==
  ASSUME NEW k \in Task, NEW gone \in SUBSET Topics
  PROVE  Quiet(DropRoutes(k, gone), k)
<1>1. Partial([t \in gone |-> NoRoute], Topics, RouteEntry)
  BY DEF Partial, RouteEntry
<1> QED BY <1>1, PutRoutesQuiet DEF DropRoutes

\* notifyRegistry does.
LEMMA NotifiedQuiet == ASSUME NEW k \in Task PROVE Quiet(Notified(k), k)
BY DEF Notified, Quiet, Task

\* discardPending does.
LEMMA DiscardedQuiet == ASSUME NEW k \in Task PROVE Quiet(Discarded(k), k)
BY DEF Discarded, Quiet, Task

\* flushStorage does, whether it succeeds or not.
LEMMA FlushedQuiet ==
  ASSUME NEW k \in Task, NEW ok \in BOOLEAN
  PROVE  Quiet(Flushed(k, ok), k)
BY DEF Flushed, Quiet, Task, StorageType

\* writeRecord does.
LEMMA WriteRecordQuiet ==
  ASSUME NEW k \in Task, NEW w \in Workers
  PROVE  Quiet(WriteRecord(k, w), k)
<1>1. Partial([x \in {w} |-> k.rec], Workers, WorkerEntry)
  BY DEF Partial, WorkerEntry, Task
<1> QED BY <1>1, PutWorkersQuiet DEF WriteRecord

\* readWorkers does, though it deletes expired records.
LEMMA PrunedQuiet ==
  ASSUME NEW k \in Task, NEW w \in Workers
  PROVE  Quiet(Pruned(k, w), k)
<1>1. Partial([x \in {y \in Workers \ {w} : k.worker[y].stale} |-> NoRecord],
              Workers, WorkerEntry)
  BY DEF Partial, WorkerEntry
<1> QED BY <1>1, PutWorkersQuiet DEF Pruned

\* readSubscriberIds does, though it deletes dead records.
LEMMA CleanSubscribersQuiet ==
  ASSUME NEW k \in Task, NEW topics \in SUBSET Topics, NEW ids
  PROVE  Quiet(CleanSubscribers(k, topics, ids), k)
<1>1. Partial([p \in {q \in topics \X (Workers \ ids) : k.sub[q]} |-> FALSE], Pairs, BOOLEAN)
  BY DEF Partial, Pairs
<1> QED BY <1>1, PutSubsQuiet DEF CleanSubscribers

\* A tab's own subscriber records are written and removed.
LEMMA SetSubsQuiet ==
  ASSUME NEW k \in Task, NEW pairs \in SUBSET Pairs, NEW live \in BOOLEAN
  PROVE  Quiet(PutSubs(k, [p \in pairs |-> live]), k)
<1>1. Partial([p \in pairs |-> live], Pairs, BOOLEAN)
  BY DEF Partial
<1> QED BY <1>1, PutSubsQuiet

\* cleanupOrphanedRoutes does.
LEMMA CleanRoutesQuiet == ASSUME NEW k \in Task PROVE Quiet(CleanRoutes(k), k)
BY DropRoutesQuiet DEF CleanRoutes

\* confirmRoute does.
LEMMA ConfirmQuiet ==
  ASSUME NEW k \in Task, NEW w \in Workers, NEW topics \in SUBSET Topics
  PROVE  Quiet(Confirm(k, w, topics), k)
<1> DEFINE fresh == {u \in topics : k.route[u].owner = w /\ ~k.route[u].confirmed}
           f == [t \in fresh |-> [k.route[t] EXCEPT !.confirmed = TRUE]]
<1>1. ASSUME NEW t \in fresh PROVE [k.route[t] EXCEPT !.confirmed = TRUE] \in RouteEntry
  <2>1. k.route[t] \in RouteEntry /\ k.route[t].owner = w
    BY DEF Task
  <2>2. k.route[t] \in Route
    BY <2>1, WorkersAssumption DEF RouteEntry, NoRoute, NoWorker
  <2> QED BY <2>2 DEF Route, RouteEntry
<1>2. Partial(f, Topics, RouteEntry)
  BY <1>1 DEF Partial
<1> QED BY <1>2, PutRoutesQuiet DEF Confirm

\* Sending frames does.
LEMMA SendQuiet ==
  ASSUME NEW k \in Task, NEW f, Partial(f, Topics, Outgoing)
  PROVE  Quiet(Send(k, f), k)
<1>1. Over(f, k.out) \in [Topics -> Outgoing]
  BY OverType DEF Task
<1> QED BY <1>1 DEF Send, Quiet, Task

----------------------------------------------------------------------------
(* Operators that change it.                                               *)

\* A load is a natural number, as there are finitely many topics.
LEMMA LoadType == ASSUME NEW topics \in SUBSET Topics PROVE Cardinality(topics) \in Nat
BY TopicsAssumption, FS_Subset, FS_CardinalityType

\* updateLoad keeps the assignments and makes the load accurate.
LEMMA UpdateLoadGood ==
  ASSUME NEW k \in Good, NEW w \in Workers, NEW running \in BOOLEAN
  PROVE  /\ UpdateLoad(k, w, running) \in Good
         /\ UpdateLoad(k, w, running).asg = k.asg
         /\ UpdateLoad(k, w, running).rec.load = Cardinality(k.asg)
<1> DEFINE load == Cardinality(k.asg)
           k1 == [k EXCEPT !.rec.load = load]
<1>1. k \in Task /\ load \in Nat
  BY LoadType DEF Good, Task
<1>2. k1 \in Task /\ k1.asg = k.asg /\ k1.hld = k.hld /\ k1.rec.load = load
  BY <1>1 DEF Task, WorkerRecord
<1>3. Quiet(WriteRecord(k1, w), k1)
  BY <1>2, WriteRecordQuiet
<1>4. Quiet(Notified(WriteRecord(k1, w)), WriteRecord(k1, w))
  BY <1>3, NotifiedQuiet DEF Quiet
<1> QED BY <1>1, <1>2, <1>3, <1>4 DEF UpdateLoad, Quiet, Good

\* The same for a running tab.
LEMMA LoadedGood ==
  ASSUME NEW k \in Good, NEW w \in Workers
  PROVE  /\ UpdateLoad(k, w, TRUE) \in Good
         /\ UpdateLoad(k, w, TRUE).asg = k.asg
         /\ UpdateLoad(k, w, TRUE).rec.load = Cardinality(UpdateLoad(k, w, TRUE).asg)
<1>1. /\ UpdateLoad(k, w, TRUE) \in Good
      /\ UpdateLoad(k, w, TRUE).asg = k.asg
      /\ UpdateLoad(k, w, TRUE).rec.load = Cardinality(k.asg)
  BY UpdateLoadGood
<1> QED BY <1>1

\* refreshRole changes the role and nothing else of the record.
LEMMA RefreshRoleGood ==
  ASSUME NEW k \in Good, NEW w \in Workers, NEW recs
  PROVE  /\ RefreshRole(k, w, recs) \in Good
         /\ RefreshRole(k, w, recs).asg = k.asg
BY DEF RefreshRole, Good, Task, WorkerRecord

\* An accepted SUBSCRIBE assigns and dispatches the same topics.
LEMMA TakeGood ==
  ASSUME NEW k \in Good, NEW w \in Workers, NEW topics \in SUBSET Topics
  PROVE  /\ Take(k, w, topics) \in Good
         /\ Take(k, w, topics).asg = k.asg \cup topics
<1>1. Quiet(Confirm(k, w, topics), k)
  BY ConfirmQuiet DEF Good
<1> QED BY <1>1 DEF Take, Good, Quiet, Task

\* An accepted UNSUBSCRIBE drops and dispatches the same topics.
LEMMA LeaveGood ==
  ASSUME NEW k \in Good, NEW topics \in SUBSET Topics
  PROVE  Leave(k, topics) \in Good
BY DEF Leave, Good, Task

\* buildRouteRecord returns a well-formed route.
LEMMA NewRouteType ==
  ASSUME NEW owner \in Workers, NEW from \in Workers \cup {NoWorker}, NEW r \in RouteEntry
  PROVE  NewRoute(owner, from, NextGen(r)) \in RouteEntry
<1>1. r.gen \in Nat
  BY DEF RouteEntry, Route, NoRoute
<1>2. NextGen(r) \in Nat
  BY <1>1, MaxGenAssumption DEF NextGen
<1> QED BY <1>2 DEF NewRoute, RouteEntry, Route

\* An election assigns what it dispatches.
LEMMA ElectGood ==
  ASSUME NEW k \in Good, NEW w \in Workers, NEW topics \in SUBSET Topics, NEW plan \in Plans
  PROVE  Elect(k, w, topics, plan) \in Good
<1> DEFINE routes == [t \in topics |-> NewRoute(plan[t], NoWorker, NextGen(k.route[t]))]
           routed == PutRoutes(k, routes)
           frames == [t \in {u \in topics : plan[u] # w} |-> Control("SUBSCRIBE", plan[t])]
           asked == Send(routed, frames)
           taken == Take(asked, w, {t \in topics : plan[t] = w})
<1>1. Partial(routes, Topics, RouteEntry)
  <2>1. ASSUME NEW t \in topics PROVE NewRoute(plan[t], NoWorker, NextGen(k.route[t])) \in RouteEntry
    <3>1. plan[t] \in Workers /\ k.route[t] \in RouteEntry
      BY DEF Plans, Good, Task
    <3> QED BY <3>1, NewRouteType
  <2> QED BY <2>1 DEF Partial
<1>2. Quiet(routed, k)
  BY <1>1, PutRoutesQuiet DEF Good
<1>3. Partial(frames, Topics, Outgoing)
  BY DEF Partial, Outgoing, Control, Plans
<1>4. Quiet(asked, routed)
  BY <1>2, <1>3, SendQuiet DEF Quiet
<1>5. asked \in Good
  BY <1>2, <1>4 DEF Quiet, Good
<1>6. taken \in Good
  BY <1>5, TakeGood
<1>7. Notified(taken) \in Good
  BY <1>6, NotifiedQuiet DEF Good, Quiet
<1> QED BY <1>7 DEF Elect

----------------------------------------------------------------------------
(* The stages of reconcile.                                                *)

\* The first stage of reconcile keeps transport and assignments equal.
LEMMA ReconcileWorkersGood ==
  ASSUME NEW k \in Good, NEW w \in Workers, NEW ids
  PROVE  ReconcileWorkers(k, w, ids) \in Good
<1> DEFINE cleaned == CleanRoutes(CleanSubscribers(Pruned(k, w), Topics, ids))
           k1 == RefreshRole(cleaned, w, LiveRecords(cleaned, ids))
<1>1. Quiet(Pruned(k, w), k)
  BY PrunedQuiet DEF Good
<1>2. Quiet(CleanSubscribers(Pruned(k, w), Topics, ids), Pruned(k, w))
  BY <1>1, CleanSubscribersQuiet DEF Quiet
<1>3. Quiet(cleaned, CleanSubscribers(Pruned(k, w), Topics, ids))
  BY <1>2, CleanRoutesQuiet DEF Quiet
<1>4. k1 \in Good
  <2>1. cleaned \in Good
    BY <1>1, <1>2, <1>3 DEF Quiet, Good
  <2> QED BY <2>1, RefreshRoleGood
<1>5. WriteRecord(k1, w) \in Good
  BY <1>4, WriteRecordQuiet DEF Good, Quiet
<1> QED BY <1>4, <1>5 DEF ReconcileWorkers

\* So does the repair of stranded routes.
LEMMA ReconcileStrandedGood ==
  ASSUME NEW k \in Good, NEW w \in Workers, NEW ok \in BOOLEAN, TypeOK
  PROVE  ReconcileStranded(k, w, ok) \in Good
<1> DEFINE stranded == {t \in Topics \ k.asg : k.route[t].owner = w /\ k.route[t].confirmed}
           taken == Take(k, w, stranded \cap subscribed[w])
           reclaimed == UpdateLoad(taken, w, TRUE)
           gone == stranded \ subscribed[w]
           dropped == DropRoutes(reclaimed, gone)
<1>1. taken \in Good
  BY TakeGood
<1>2. reclaimed \in Good
  BY <1>1, UpdateLoadGood
<1>3. Quiet(dropped, reclaimed)
  BY <1>2, DropRoutesQuiet DEF Good
<1>4. Quiet(Flushed(dropped, ok), dropped)
  BY <1>3, FlushedQuiet DEF Quiet
<1>5. Quiet(Notified(Flushed(dropped, ok)), Flushed(dropped, ok))
  BY <1>4, NotifiedQuiet DEF Quiet
<1>6. Notified(Flushed(dropped, ok)) \in Good
  BY <1>2, <1>3, <1>4, <1>5 DEF Quiet, Good
<1> QED BY <1>2, <1>6 DEF ReconcileStranded

\* So does the stage over the subscriptions.
LEMMA ReconcileSubscriptionsGood ==
  ASSUME NEW k \in Good, NEW w \in Workers, NEW ids, ids \subseteq Workers, NEW plan \in Plans, TypeOK
  PROVE  ReconcileSubscriptions(k, w, ids, plan) \in Good
<1> DEFINE written == PutSubs(k, [p \in subscribed[w] \X {w} |-> TRUE])
           orphaned == Orphaned(written, w, ids)
           unasked == Unasked(written, w, ids)
           recovered == {t \in Abandoned(written, w, ids) : Recovers(written, w, t, plan[t])}
           own == {t \in unasked : written.route[t].owner = w}
           frames == [t \in unasked \ own |-> Control("SUBSCRIBE", written.route[t].owner)]
           asked == Send(written, frames)
           taken == Take(asked, w, own)
           elected == Elect(taken, w, orphaned \cup recovered, plan)
<1>1. subscribed[w] \in SUBSET Topics
  BY DEF TypeOK
<1>2. Quiet(written, k)
  BY <1>1, SetSubsQuiet DEF Good, Pairs
<1>3. /\ unasked \in SUBSET Topics /\ own \in SUBSET Topics
      /\ orphaned \cup recovered \in SUBSET Topics
  BY <1>1 DEF Orphaned, Unasked, Unconfirmed, Abandoned
<1>4. Partial(frames, Topics, Outgoing)
  <2>1. ASSUME NEW t \in unasked PROVE Control("SUBSCRIBE", written.route[t].owner) \in Outgoing
    BY DEF Unasked, Unconfirmed, Control, Outgoing
  <2> QED BY <2>1, <1>3 DEF Partial
<1>5. Quiet(asked, written)
  BY <1>2, <1>4, SendQuiet DEF Quiet
<1>6. asked \in Good
  BY <1>2, <1>5 DEF Good, Quiet
<1>7. taken \in Good
  BY <1>3, <1>6, TakeGood
<1>8. elected \in Good
  BY <1>3, <1>7, ElectGood
<1> QED BY <1>8, UpdateLoadGood DEF ReconcileSubscriptions

\* A ROUTE_RELEASED is a well-formed frame.
LEMMA ReleasedType ==
  ASSUME NEW r \in RouteEntry PROVE Released(r) \in Outgoing
BY DEF Released, Outgoing, RouteEntry, Route, NoRoute

\* The last stage too, and it leaves the load accurate.
LEMMA ReconcileAssignedGood ==
  ASSUME NEW k \in Good, NEW w \in Workers
  PROVE  /\ ReconcileAssigned(k, w) \in Good
         /\ ReconcileAssigned(k, w).rec.load = Cardinality(ReconcileAssigned(k, w).asg)
<1> DEFINE lost == {t \in k.asg : k.route[t].owner # w}
           freed == {t \in lost : k.route[t].from = w}
           frames == [t \in freed |-> Released(k.route[t])]
           sent == Send(k, frames)
           left == Leave(sent, lost)
<1>1. lost \in SUBSET Topics /\ freed \in SUBSET Topics
  BY DEF Good, Task
<1>2. Partial(frames, Topics, Outgoing)
  <2>1. ASSUME NEW t \in freed PROVE Released(k.route[t]) \in Outgoing
    BY <1>1, ReleasedType DEF Good, Task
  <2> QED BY <2>1, <1>1 DEF Partial
<1>3. sent \in Good
  BY <1>2, SendQuiet DEF Good, Quiet
<1>4. left \in Good
  BY <1>1, <1>3, LeaveGood
<1>5. ReconcileAssigned(k, w) = UpdateLoad(left, w, TRUE)
  BY DEF ReconcileAssigned
<1> HIDE DEF left
<1> QED BY <1>4, <1>5, LoadedGood

\* Hence reconcile as a whole.
LEMMA ReconciledGood ==
  ASSUME NEW k \in Good, NEW w \in Workers, NEW plan \in Plans, NEW ok \in BOOLEAN, TypeOK
  PROVE  /\ Reconciled(k, w, plan, ok) \in Good
         /\ Reconciled(k, w, plan, ok).rec.load = Cardinality(Reconciled(k, w, plan, ok).asg)
<1> DEFINE ids == LiveIds(Pruned(k, w), w, TRUE)
           k1 == ReconcileStranded(ReconcileWorkers(k, w, ids), w, ok)
<1>1. k1 \in Good
  BY ReconcileWorkersGood, ReconcileStrandedGood
<1>2. ids \subseteq Workers
  BY DEF LiveIds
<1>3. ReconcileSubscriptions(k1, w, ids, plan) \in Good
  BY <1>1, <1>2, ReconcileSubscriptionsGood
<1> QED BY <1>3, ReconcileAssignedGood DEF Reconciled

----------------------------------------------------------------------------
(* A task from its start to its commit.                                    *)

(* The inductive invariant.  QuietWhenClosed is needed because a frame or  *)
(* a nudge left for a tab that no longer runs would let it take a topic.   *)
IInv == TypeOK /\ QuietWhenClosed /\ Coherent /\ LoadAccurate

\* A task starts from a state in which transport and assignments agree.
LEMMA BeginGood ==
  ASSUME TypeOK, Coherent, NEW w \in Workers
  PROVE  /\ Begin(w) \in Good
         /\ Begin(w).asg = assigned[w]
         /\ Begin(w).rec = me[w]
<1> DEFINE q == pending[w]
<1>1. PendingOK(q)
  BY DEF TypeOK
<1>2. /\ Over(q.worker, storage.worker) \in [Workers -> WorkerEntry]
      /\ Over(q.route, storage.route) \in [Topics -> RouteEntry]
      /\ Over(q.sub, storage.sub) \in [Pairs -> BOOLEAN]
  BY <1>1, OverType DEF PendingOK, TypeOK, StorageType
<1>3. /\ DOMAIN q.worker \in SUBSET Workers
      /\ DOMAIN q.route \in SUBSET Topics
      /\ DOMAIN q.sub \in SUBSET Pairs
  BY <1>1 DEF PendingOK, Partial
<1>4. [t \in Topics |-> NoFrame] \in [Topics -> Outgoing]
  BY DEF NoFrame, Outgoing
<1>5. assigned[w] \in SUBSET Topics /\ held[w] = assigned[w] /\ me[w] \in WorkerRecord
      /\ storage \in StorageType
  BY DEF TypeOK, Coherent
<1> QED BY <1>2, <1>3, <1>4, <1>5 DEF Begin, Good, Task

\* Queueing a frame yields a sequence of frames.
LEMMA QueueType ==
  ASSUME NEW frames \in Seq(Frame), NEW f \in Frame
  PROVE  Queue(frames, f) \in Seq(Frame)
BY DEF Queue

\* Posting frames reaches only tabs that run.
LEMMA PostedType ==
  ASSUME NEW k \in Task, NEW w \in Workers, NEW links \in [Links -> Seq(Frame)]
  PROVE  /\ Posted(k, w, links) \in [Links -> Seq(Frame)]
         /\ \A l \in Links : Posted(k, w, links)[l] # links[l] => Started(l[2]) /\ l[2] # w
<1>1. ASSUME NEW l \in Links
      PROVE  [kind |-> k.out[l[3]].kind, gen |-> k.out[l[3]].gen] \in Frame
  <2>1. l[3] \in Topics
    BY DEF Links
  <2>2. k.out[l[3]] \in Outgoing
    BY <2>1 DEF Task
  <2> QED BY <2>2 DEF Outgoing, Frame
<1>2. ASSUME NEW l \in Links
      PROVE  Queue(links[l], [kind |-> k.out[l[3]].kind, gen |-> k.out[l[3]].gen]) \in Seq(Frame)
  BY <1>1, QueueType
<1>3. ASSUME NEW l \in Links PROVE l[1] # l[2]
  BY DEF Links
<1> QED BY <1>2, <1>3 DEF Posted

\* What a task leaves queued is well formed.
LEMMA QueuedType == ASSUME NEW k \in Task PROVE PendingOK(Queued(k))
<1>1. Partial([x \in k.dw |-> k.worker[x]], Workers, WorkerEntry)
  BY DEF Partial, Task
<1>2. Partial([t \in k.dr |-> k.route[t]], Topics, RouteEntry)
  BY DEF Partial, Task
<1>3. Partial([p \in k.ds |-> k.sub[p]], Pairs, BOOLEAN)
  BY DEF Partial, Task
<1> QED BY <1>1, <1>2, <1>3 DEF PendingOK, Queued

(* What a task must satisfy when it commits and leaves its tab in phase p: *)
(* it is good, its load is the published one when the tab runs on, it      *)
(* holds nothing when the tab does not, and no frame is left for a tab     *)
(* that does not run.                                                      *)
Committable(w, k, links, nudges, p) ==
  /\ k \in Good
  /\ links \in [Links -> Seq(Frame)] /\ nudges \in SUBSET Workers
  /\ p \in {"stopped", "started", "suspended", "crashed"}
  /\ p = "started" => k.rec.load = Cardinality(k.asg)
  /\ p # "started" => k.asg = {}
  /\ \A l \in Links : links[l] # <<>> => Started(l[2]) /\ (l[2] = w => p = "started")
  /\ \A x \in nudges : Started(x) /\ (x = w => p = "started")

\* The parts of the invariant that name no tab in particular.
OtherOK == subscribed \in [Workers -> SUBSET Topics] /\ now \in Nat /\ churn \in Nat

\* Committing a fit task preserves the inductive invariant.
LEMMA CommitInv ==
  ASSUME IInv, NEW w \in Workers, NEW k, NEW links, NEW nudges, NEW p,
         Committable(w, k, links, nudges, p), Commit(w, k, links, nudges),
         phase' = [phase EXCEPT ![w] = p], OtherOK'
  PROVE  IInv'
<1> USE DEF Committable, OtherOK
<1>1. k \in Task /\ k.asg = k.hld /\ k.asg \in SUBSET Topics /\ k.rec \in WorkerRecord
  BY DEF Good, Task
<1>2. /\ phase' \in [Workers -> {"stopped", "started", "suspended", "crashed"}]
      /\ \A x \in Workers : Started(x)' <=> IF x = w THEN p = "started" ELSE Started(x)
  BY DEF IInv, TypeOK, Started
<1>3. /\ assigned' = [assigned EXCEPT ![w] = k.asg]
      /\ held' = [held EXCEPT ![w] = k.asg]
      /\ me' = [me EXCEPT ![w] = k.rec]
      /\ chan' = Posted(k, w, links)
      /\ nudged' \subseteq nudges \cup {x \in Workers \ {w} : Started(x)}
  BY <1>1 DEF Commit
<1>4. TypeOK'
  <2>1. storage' \in StorageType
    BY <1>1 DEF Commit, Task
  <2>2. DOMAIN pending' = Workers /\ \A x \in Workers : PendingOK(pending'[x])
    BY <1>1, QueuedType DEF Commit, IInv, TypeOK
  <2>3. retrying' \subseteq Workers
    BY DEF Commit, IInv, TypeOK
  <2>4. /\ assigned' \in [Workers -> SUBSET Topics]
        /\ held' \in [Workers -> SUBSET Topics]
        /\ me' \in [Workers -> WorkerRecord]
    BY <1>1, <1>3 DEF IInv, TypeOK
  <2>5. chan' \in [Links -> Seq(Frame)]
    BY <1>1, <1>3, PostedType
  <2>6. nudged' \subseteq Workers
    BY <1>3
  <2>7. (\A x \in Workers : PendingOK(pending[x]))'
    BY <2>2 DEF PendingOK
  <2> QED BY <1>2, <2>1, <2>2, <2>3, <2>4, <2>5, <2>6, <2>7 DEF TypeOK, PendingOK
<1>5. QuietWhenClosed'
  <2>1. ASSUME NEW l \in Links, chan'[l] # <<>> PROVE Started(l[2])'
    <3>1. l[2] \in Workers
      BY DEF Links
    <3>2. links[l] # <<>> \/ (Started(l[2]) /\ l[2] # w)
      BY <1>1, <1>3, <2>1, PostedType
    <3> QED BY <1>2, <3>1, <3>2
  <2>2. ASSUME NEW x \in nudged' PROVE Started(x)'
    BY <1>2, <1>3
  <2> QED BY <2>1, <2>2 DEF QuietWhenClosed
<1>6. Coherent'
  BY <1>1, <1>2, <1>3 DEF IInv, Coherent, TypeOK
<1>7. LoadAccurate'
  BY <1>1, <1>2, <1>3 DEF IInv, LoadAccurate, TypeOK
<1> QED BY <1>4, <1>5, <1>6, <1>7 DEF IInv

\* The same for a handler that does not change the phase.
LEMMA HandlerInv ==
  ASSUME IInv, NEW w \in Workers, NEW k, NEW links, NEW nudges,
         Committable(w, k, links, nudges, phase[w]), Commit(w, k, links, nudges),
         UNCHANGED phase, OtherOK'
  PROVE  IInv'
<1>1. PICK p : p = phase[w]
  OBVIOUS
<1>2. phase' = [phase EXCEPT ![w] = p]
  BY <1>1 DEF IInv, TypeOK
<1> QED BY <1>1, <1>2, CommitInv

\* What the invariant says of links, nudges and the remaining variables.
LEMMA LinksNow ==
  ASSUME IInv
  PROVE  /\ chan \in [Links -> Seq(Frame)] /\ nudged \in SUBSET Workers
         /\ \A l \in Links : chan[l] # <<>> => Started(l[2])
         /\ \A x \in nudged : Started(x)
         /\ subscribed \in [Workers -> SUBSET Topics] /\ now \in Nat /\ churn \in Nat
BY DEF IInv, TypeOK, QuietWhenClosed

----------------------------------------------------------------------------
(* The actions.                                                            *)

\* A task ending with reconcile preserves the invariant.
LEMMA ReconcileInv ==
  ASSUME IInv, NEW w \in Workers, NEW k \in Good, NEW nudges \in SUBSET nudged,
         Reconcile(w, k, nudges), phase' = [phase EXCEPT ![w] = "started"], OtherOK'
  PROVE  IInv'
<1>1. PICK plan \in Plans, ok \in BOOLEAN : Commit(w, Reconciled(k, w, plan, ok), chan, nudges)
  BY DEF Reconcile, FlushResults
<1>2. /\ Reconciled(k, w, plan, ok) \in Good
      /\ Reconciled(k, w, plan, ok).rec.load = Cardinality(Reconciled(k, w, plan, ok).asg)
  BY ReconciledGood DEF IInv
<1>3. Committable(w, Reconciled(k, w, plan, ok), chan, nudges, "started")
  BY <1>2, LinksNow DEF Committable
<1> QED BY <1>1, <1>3, CommitInv

\* activate does.
LEMMA ActivateInv ==
  ASSUME IInv, NEW w \in Workers, Activate(w), churn' \in Nat
  PROVE  IInv'
<1> DEFINE k == [Begin(w) EXCEPT !.rec.registeredAt = now]
           seen == Pruned(k, w)
           roled == RefreshRole(seen, w, LiveRecords(seen, LiveIds(seen, w, TRUE)))
           written == WriteRecord(roled, w)
           announced == PutSubs(Notified(written), [p \in subscribed[w] \X {w} |-> TRUE])
<1>1. k \in Good
  <2>1. Begin(w) \in Good /\ now \in Nat
    BY BeginGood, LinksNow DEF IInv
  <2> QED BY <2>1 DEF Good, Task, WorkerRecord
<1>2. seen \in Good
  BY <1>1, PrunedQuiet DEF Good, Quiet
<1>3. roled \in Good
  BY <1>2, RefreshRoleGood
<1>4. written \in Good
  BY <1>3, WriteRecordQuiet DEF Good, Quiet
<1>5. Notified(written) \in Good
  BY <1>4, NotifiedQuiet DEF Good, Quiet
<1>6. announced \in Good
  <2> HIDE DEF written
  <2>1. subscribed[w] \X {w} \in SUBSET Pairs
    BY LinksNow DEF Pairs
  <2>2. Quiet(announced, Notified(written))
    BY <1>5, <2>1, SetSubsQuiet DEF Good
  <2> QED BY <1>5, <2>2 DEF Good, Quiet
<1>7. Reconcile(w, announced, nudged)
  BY DEF Activate
<1>8. phase' = [phase EXCEPT ![w] = "started"] /\ OtherOK'
  BY LinksNow DEF Activate, OtherOK
<1> QED BY <1>6, <1>7, <1>8, ReconcileInv

\* The count of disturbances stays a number.
LEMMA DisturbType ==
  ASSUME IInv, NEW kind, Disturb(kind) \/ UNCHANGED churn PROVE churn' \in Nat
BY LinksNow DEF Disturb

\* start does.
LEMMA StartInv == ASSUME IInv, NEW w \in Workers, Start(w) PROVE IInv'
<1>1. churn' \in Nat
  BY DisturbType DEF Start
<1>2. CASE Activate(w)
  BY <1>1, <1>2, ActivateInv
<1>3. CASE /\ phase' = [phase EXCEPT ![w] = "suspended"]
           /\ UNCHANGED <<storage, pending, retrying, subscribed, assigned, held, me,
                          chan, nudged, now>>
  <2>1. ~Started(w) /\ \A x \in Workers : Started(x)' <=> Started(x)
    BY <1>3 DEF Start, Started, IInv, TypeOK
  <2>2. TypeOK'
    BY <1>1, <1>3 DEF IInv, TypeOK, PendingOK
  <2>3. QuietWhenClosed' /\ Coherent' /\ LoadAccurate'
    BY <1>3, <2>1 DEF IInv, TypeOK, QuietWhenClosed, Coherent, LoadAccurate, Links
  <2> QED BY <2>2, <2>3 DEF IInv
<1> QED BY <1>2, <1>3 DEF Start

\* handlePageShow does.
LEMMA ResumeInv == ASSUME IInv, NEW w \in Workers, Resume(w) PROVE IInv'
BY ActivateInv, DisturbType DEF Resume

\* Releasing the subscriptions of a pausing tab keeps its assignments.
LEMMA ReleaseAllGood ==
  ASSUME NEW k \in Good, NEW w \in Workers, TypeOK
  PROVE  ReleaseAll(k, w) \in Good
<1> DEFINE dropped == PutSubs(k, [p \in subscribed[w] \X {w} |-> FALSE])
           routed == {t \in subscribed[w] : k.route[t] # NoRoute}
           seen == IF routed = {} THEN dropped ELSE Pruned(dropped, w)
           cleaned == CleanSubscribers(seen, routed, LiveIds(seen, w, FALSE))
           gone == {t \in routed : Subscribers(cleaned, t) = {}}
<1>1. subscribed[w] \in SUBSET Topics /\ routed \in SUBSET Topics /\ gone \in SUBSET Topics
  BY DEF TypeOK
<1>2. dropped \in Good
  BY <1>1, SetSubsQuiet DEF Good, Quiet, Pairs
<1>3. seen \in Good
  BY <1>2, PrunedQuiet DEF Good, Quiet
<1>4. cleaned \in Good
  <2> HIDE DEF seen, routed
  <2>1. Quiet(cleaned, seen)
    BY <1>1, <1>3, CleanSubscribersQuiet DEF Good
  <2> HIDE DEF cleaned
  <2> QED BY <1>3, <2>1 DEF Good, Quiet
<1>5. DropRoutes(cleaned, gone) \in Good
  <2> HIDE DEF cleaned, gone
  <2>1. Quiet(DropRoutes(cleaned, gone), cleaned)
    BY <1>1, <1>4, DropRoutesQuiet DEF Good
  <2> QED BY <1>4, <2>1 DEF Good, Quiet
<1> QED BY <1>5 DEF ReleaseAll

\* handoffAssignedTopics does too.
LEMMA HandoffGood ==
  ASSUME NEW k \in Good, NEW w \in Workers, NEW plan \in Plans
  PROVE  Handoff(k, w, plan) \in Good
<1> DEFINE seen == IF k.asg = {} THEN k ELSE Pruned(k, w)
           mine == {t \in k.asg : k.route[t].owner = w}
           cleaned == CleanSubscribers(seen, mine, LiveIds(seen, w, FALSE) \ {w})
           moved == {t \in mine : Subscribers(cleaned, t) # {}}
           routes == [t \in moved |-> NewRoute(plan[t], w, NextGen(k.route[t]))]
           dropped == DropRoutes(cleaned, mine \ moved)
           routed == PutRoutes(dropped, routes)
           frames == [t \in moved |-> Released(routes[t])]
<1>1. mine \in SUBSET Topics /\ moved \in SUBSET Topics /\ mine \ moved \in SUBSET Topics
  BY DEF Good, Task
<1>2. seen \in Good
  BY PrunedQuiet DEF Good, Quiet
<1>3. cleaned \in Good
  BY <1>1, <1>2, CleanSubscribersQuiet DEF Good, Quiet
<1>4. dropped \in Good
  BY <1>1, <1>3, DropRoutesQuiet DEF Good, Quiet
<1>5. ASSUME NEW t \in moved PROVE NewRoute(plan[t], w, NextGen(k.route[t])) \in RouteEntry
  <2>1. plan[t] \in Workers /\ k.route[t] \in RouteEntry
    BY <1>1 DEF Plans, Good, Task
  <2> QED BY <2>1, NewRouteType
<1>6. Partial(routes, Topics, RouteEntry)
  BY <1>1, <1>5 DEF Partial
<1>7. routed \in Good
  BY <1>4, <1>6, PutRoutesQuiet DEF Good, Quiet
<1>8. Partial(frames, Topics, Outgoing)
  BY <1>1, <1>5, ReleasedType DEF Partial
<1>9. Send(routed, frames) \in Good
  BY <1>7, <1>8, SendQuiet DEF Good, Quiet
<1> QED BY <1>9 DEF Handoff

\* pause leaves no assignment behind, whether its flush succeeds or not.
LEMMA PauseInv ==
  ASSUME IInv, NEW w \in Workers, NEW ok \in BOOLEAN, NEW p \in {"suspended", "stopped"},
         Pause(w, ok), phase' = [phase EXCEPT ![w] = p], OtherOK'
  PROVE  IInv'
<1> DEFINE released == ReleaseAll(Begin(w), w)
<1>1. PICK plan \in Plans :
        Commit(w, Discarded(Notified(Flushed(PutWorkers(Cleared(Handoff(released, w, plan)),
                                                        [x \in {w} |-> NoRecord]), ok))),
               Closed(w), nudged \ {w})
  BY DEF Pause
<1> DEFINE handed == Cleared(Handoff(released, w, plan))
           removed == PutWorkers(handed, [x \in {w} |-> NoRecord])
           flushed == Flushed(removed, ok)
           done == Discarded(Notified(flushed))
<1>2. released \in Good
  BY BeginGood, ReleaseAllGood DEF IInv
<1>3. Handoff(released, w, plan) \in Good
  BY <1>2, HandoffGood
<1>4. handed \in Good /\ handed.asg = {}
  BY <1>3 DEF Cleared, Good, Task
<1>5. Partial([x \in {w} |-> NoRecord], Workers, WorkerEntry)
  BY DEF Partial, WorkerEntry
<1>6. removed \in Good /\ removed.asg = {}
  BY <1>4, <1>5, PutWorkersQuiet DEF Good, Quiet
<1>7. flushed \in Good /\ flushed.asg = {}
  BY <1>6, FlushedQuiet DEF Good, Quiet
<1>8. Notified(flushed) \in Good /\ Notified(flushed).asg = {}
  BY <1>7, NotifiedQuiet DEF Good, Quiet
<1>9. done \in Good /\ done.asg = {}
  BY <1>8, DiscardedQuiet DEF Good, Quiet
<1>10. /\ Closed(w) \in [Links -> Seq(Frame)]
       /\ \A l \in Links : Closed(w)[l] # <<>> => Started(l[2]) /\ l[2] # w
  BY LinksNow DEF Closed
<1>11. Committable(w, done, Closed(w), nudged \ {w}, p)
  BY <1>9, <1>10, LinksNow DEF Committable
<1> QED BY <1>1, <1>11, CommitInv

\* handlePageHide preserves the invariant.
LEMMA PageHideInv ==
  ASSUME IInv, NEW w \in Workers, NEW ok \in BOOLEAN, PageHide(w, ok) PROVE IInv'
<1>1. OtherOK'
  BY LinksNow, DisturbType DEF PageHide, OtherOK
<1> QED BY <1>1, PauseInv DEF PageHide

\* stop does, from a running tab and from a hidden one.
LEMMA StopInv ==
  ASSUME IInv, NEW w \in Workers, NEW ok \in BOOLEAN, Stop(w, ok) PROVE IInv'
<1>1. subscribed' \in [Workers -> SUBSET Topics]
  BY LinksNow DEF Stop
<1>2. OtherOK'
  BY <1>1, LinksNow, DisturbType DEF Stop, OtherOK
<1>3. CASE Started(w) /\ Pause(w, ok)
  BY <1>2, <1>3, PauseInv DEF Stop
<1>4. CASE ~Started(w) /\ Commit(w, Flushed(Begin(w), ok), chan, nudged)
  <2>1. Begin(w) \in Good /\ Begin(w).asg = {}
    BY <1>4, BeginGood DEF IInv, Coherent
  <2>2. Flushed(Begin(w), ok) \in Good /\ Flushed(Begin(w), ok).asg = {}
    BY <2>1, FlushedQuiet DEF Good, Quiet
  <2>3. Committable(w, Flushed(Begin(w), ok), chan, nudged, "stopped")
    BY <1>4, <2>2, LinksNow DEF Committable
  <2> QED BY <1>2, <1>4, <2>3, CommitInv DEF Stop
<1> QED BY <1>3, <1>4 DEF Stop

\* The death of a tab does.
LEMMA CrashInv == ASSUME IInv, NEW w \in Workers, Crash(w) PROVE IInv'
<1>1. churn' \in Nat
  BY DisturbType DEF Crash
<1>2. \A x \in Workers : Started(x)' <=> Started(x) /\ x # w
  BY DEF Crash, Started, IInv, TypeOK
<1>3. /\ Closed(w) \in [Links -> Seq(Frame)]
      /\ \A l \in Links : Closed(w)[l] # <<>> => Started(l[2]) /\ l[2] # w
  BY LinksNow DEF Closed
<1>4. TypeOK'
  <2>1. PendingOK(NoWrites)
    BY DEF PendingOK, NoWrites, Partial
  <2>2. DOMAIN pending' = Workers /\ \A x \in Workers : PendingOK(pending'[x])
    BY <2>1 DEF Crash, IInv, TypeOK
  <2> QED BY <1>1, <1>3, <2>2 DEF Crash, IInv, TypeOK, PendingOK
<1>5. QuietWhenClosed'
  <2>1. chan' = Closed(w) /\ nudged' = nudged \ {w} /\ nudged \in SUBSET Workers
    BY LinksNow DEF Crash
  <2>2. ASSUME NEW l \in Links, chan'[l] # <<>> PROVE Started(l[2])'
    <3>1. l[2] \in Workers
      BY DEF Links
    <3>2. Started(l[2]) /\ l[2] # w
      BY <1>3, <2>1, <2>2
    <3> QED BY <1>2, <3>1, <3>2
  <2>3. ASSUME NEW x \in nudged' PROVE Started(x)'
    BY <1>2, <2>1, LinksNow
  <2> QED BY <2>2, <2>3 DEF QuietWhenClosed
<1>6. Coherent' /\ LoadAccurate'
  BY <1>2 DEF Crash, IInv, TypeOK, Coherent, LoadAccurate
<1> QED BY <1>4, <1>5, <1>6 DEF IInv

\* A task that leaves the assignments alone is fit to commit.
LEMMA SteadyCommittable ==
  ASSUME IInv, NEW w \in Workers, NEW k \in Good,
         k.asg = assigned[w], k.rec.load = me[w].load
  PROVE  Committable(w, k, chan, nudged, phase[w])
<1>1. /\ phase[w] = "started" <=> Started(w)
      /\ phase[w] \in {"stopped", "started", "suspended", "crashed"}
  BY DEF Started, IInv, TypeOK
<1> QED BY <1>1, LinksNow DEF Committable, IInv, Coherent, LoadAccurate

\* So is a task of a running tab that ends with updateLoad.
LEMMA LoadedCommittable ==
  ASSUME IInv, NEW w \in Workers, Started(w), NEW k \in Good,
         NEW links \in [Links -> Seq(Frame)],
         \A l \in Links : links[l] # <<>> => Started(l[2])
  PROVE  Committable(w, UpdateLoad(k, w, TRUE), links, nudged, phase[w])
<1> DEFINE loaded == UpdateLoad(k, w, TRUE)
<1>1. phase[w] = "started"
  BY DEF Started
<1>2. loaded \in Good /\ loaded.rec.load = Cardinality(loaded.asg)
  BY LoadedGood
<1>3. nudged \subseteq Workers /\ \A x \in nudged : Started(x)
  BY LinksNow
<1> HIDE DEF loaded
<1>4. Committable(w, loaded, links, nudged, phase[w])
  BY <1>1, <1>2, <1>3 DEF Committable
<1> QED BY <1>4 DEF loaded

\* subscribe and unsubscribe start by writing the tab's subscriber record.
LEMMA PutOneGood ==
  ASSUME IInv, NEW w \in Workers, NEW t \in Topics, NEW live \in BOOLEAN
  PROVE  /\ PutSubs(Begin(w), [p \in {<<t, w>>} |-> live]) \in Good
         /\ PutSubs(Begin(w), [p \in {<<t, w>>} |-> live]).asg = assigned[w]
         /\ PutSubs(Begin(w), [p \in {<<t, w>>} |-> live]).rec = me[w]
<1>1. {<<t, w>>} \in SUBSET Pairs
  BY DEF Pairs
<1>2. Begin(w) \in Good /\ Begin(w).asg = assigned[w] /\ Begin(w).rec = me[w]
  BY BeginGood DEF IInv
<1>3. Quiet(PutSubs(Begin(w), [p \in {<<t, w>>} |-> live]), Begin(w))
  BY <1>1, <1>2, SetSubsQuiet DEF Good
<1> QED BY <1>2, <1>3 DEF Good, Quiet

\* subscribe does.
LEMMA SubscribeInv ==
  ASSUME IInv, NEW w \in Workers, NEW t \in Topics, Subscribe(w, t) PROVE IInv'
<1> DEFINE put == PutSubs(Begin(w), [p \in {<<t, w>>} |-> TRUE])
           k == Pruned(put, w)
           ids == LiveIds(k, w, TRUE)
           orphaned == {t} \ {u \in Topics : k.route[u].owner \in ids}
<1>1. OtherOK'
  BY LinksNow, DisturbType DEF Subscribe, OtherOK
<1>2. CASE Started(w)
  <2>1. PICK plan \in Plans :
          Commit(w, UpdateLoad(Elect(k, w, orphaned, plan), w, TRUE), chan, nudged)
    BY <1>2 DEF Subscribe
  <2>2. put \in Good
    BY PutOneGood
  <2>3. k \in Good
    BY <2>2, PrunedQuiet DEF Good, Quiet
  <2>4. Elect(k, w, orphaned, plan) \in Good
    BY <2>3, ElectGood
  <2>5. Committable(w, UpdateLoad(Elect(k, w, orphaned, plan), w, TRUE), chan, nudged, phase[w])
    BY <1>2, <2>4, LoadedCommittable, LinksNow
  <2> QED BY <1>1, <2>1, <2>5, HandlerInv DEF Subscribe
<1>3. CASE ~Started(w)
  <2>1. UNCHANGED <<storage, pending, retrying, phase, assigned, held, me, chan, nudged>>
    BY <1>3 DEF Subscribe
  <2> QED BY <1>1, <2>1 DEF IInv, TypeOK, PendingOK, QuietWhenClosed, Coherent,
                            LoadAccurate, OtherOK, Started
<1> QED BY <1>2, <1>3

\* unsubscribe does, on each of its returns.
LEMMA UnsubscribeInv ==
  ASSUME IInv, NEW w \in Workers, NEW t \in Topics, Unsubscribe(w, t) PROVE IInv'
<1> DEFINE dropped == PutSubs(Begin(w), [p \in {<<t, w>>} |-> FALSE])
           owner == dropped.route[t].owner
           seen == Pruned(dropped, w)
           cleaned == CleanSubscribers(seen, {t}, LiveIds(seen, w, Started(w)))
           gone == DropRoutes(cleaned, {t})
           left == UpdateLoad(Leave(gone, {t}), w, Started(w))
           frames == [u \in {t} |-> Control("UNSUBSCRIBE", owner)]
           asked == Send(gone, frames)
           Fit(k) == k \in Good /\ k.asg = assigned[w] /\ k.rec = me[w]
<1>1. OtherOK'
  BY LinksNow, DisturbType DEF Unsubscribe, OtherOK
<1>2. Fit(dropped)
  BY PutOneGood
<1>3. Fit(seen)
  BY <1>2, PrunedQuiet DEF Good, Quiet
<1>4. Fit(cleaned)
  <2> HIDE DEF seen
  <2>1. Quiet(cleaned, seen)
    BY <1>3, CleanSubscribersQuiet DEF Good
  <2> QED BY <1>3, <2>1 DEF Good, Quiet
<1>5. Fit(gone)
  <2> HIDE DEF cleaned
  <2>1. Quiet(gone, cleaned)
    BY <1>4, DropRoutesQuiet DEF Good
  <2> QED BY <1>4, <2>1 DEF Good, Quiet
<1>6. ASSUME dropped.route[t] # NoRoute PROVE Fit(asked)
  <2> HIDE DEF gone
  <2>1. owner \in Workers
    BY <1>2, <1>6 DEF Good, Task, RouteEntry, Route
  <2>2. Partial(frames, Topics, Outgoing)
    BY <2>1 DEF Partial, Control, Outgoing
  <2>3. Quiet(asked, gone)
    BY <1>5, <2>2, SendQuiet DEF Good
  <2> QED BY <1>5, <2>3 DEF Good, Quiet
<1>7. Committable(w, left, chan, nudged, phase[w])
  <2> HIDE DEF gone
  <2>1. Leave(gone, {t}) \in Good /\ Leave(gone, {t}).asg = assigned[w] \ {t}
    <3>1. Leave(gone, {t}).asg = gone.asg \ {t}
      BY <1>5 DEF Leave, Good, Task
    <3> QED BY <1>5, <3>1, LeaveGood
  <2>2. /\ left \in Good /\ left.asg = assigned[w] \ {t}
        /\ left.rec.load = Cardinality(left.asg)
    <3> DEFINE after == Leave(gone, {t})
               runs == Started(w)
    <3>1. runs \in BOOLEAN
      BY DEF Started
    <3>2. left = UpdateLoad(after, w, runs)
      OBVIOUS
    <3>3. after \in Good /\ after.asg = assigned[w] \ {t}
      BY <2>1
    <3> HIDE DEF after, runs, left
    <3> QED BY <3>1, <3>2, <3>3, UpdateLoadGood
  <2>3. /\ phase[w] \in {"stopped", "started", "suspended", "crashed"}
        /\ phase[w] = "started" <=> Started(w)
        /\ ~Started(w) => assigned[w] = {}
    BY DEF Started, IInv, TypeOK, Coherent
  <2> HIDE DEF left
  <2> QED BY <2>2, <2>3, LinksNow DEF Committable
<1>8. ASSUME NEW k, Fit(k) PROVE Committable(w, k, chan, nudged, phase[w])
  BY <1>8, SteadyCommittable
<1>9. PICK done : /\ Commit(w, done, chan, nudged)
                  /\ \/ done = dropped
                     \/ done = cleaned
                     \/ done = left
                     \/ dropped.route[t] # NoRoute /\ done = asked
                     \/ done = gone
  BY DEF Unsubscribe
<1>10. Committable(w, done, chan, nudged, phase[w])
  <2> HIDE DEF dropped, cleaned, left, asked, gone, Fit
  <2> QED BY <1>2, <1>4, <1>5, <1>6, <1>7, <1>8, <1>9
<1> QED BY <1>1, <1>9, <1>10, HandlerInv DEF Unsubscribe

\* A tab's own record changes in a field other than the load.
LEMMA SetStatusInv == ASSUME IInv, NEW w \in Workers, SetStatus(w) PROVE IInv'
<1> DEFINE k == [Begin(w) EXCEPT !.rec.healthy = ~@]
           written == WriteRecord(k, w)
<1>1. OtherOK'
  BY LinksNow, DisturbType DEF SetStatus, OtherOK
<1>2. k \in Good /\ k.asg = assigned[w] /\ k.rec.load = me[w].load
  <2>1. Begin(w) \in Good /\ Begin(w).asg = assigned[w] /\ Begin(w).rec = me[w]
    BY BeginGood DEF IInv
  <2> QED BY <2>1 DEF Good, Task, WorkerRecord
<1> HIDE DEF k
<1>3. written \in Good /\ written.asg = assigned[w] /\ written.rec.load = me[w].load
  BY <1>2, WriteRecordQuiet DEF Good, Quiet
<1> HIDE DEF written
<1>4. /\ Notified(written) \in Good /\ Notified(written).asg = assigned[w]
      /\ Notified(written).rec.load = me[w].load
  BY <1>3, NotifiedQuiet DEF Good, Quiet
<1> DEFINE done == IF Started(w) THEN Notified(written) ELSE k
<1>5. Committable(w, done, chan, nudged, phase[w])
  BY <1>2, <1>4, SteadyCommittable
<1> QED BY <1>1, <1>5, HandlerInv DEF SetStatus, k, written

\* handleVisibilityChange does.
LEMMA VisibilityChangeInv ==
  ASSUME IInv, NEW w \in Workers, VisibilityChange(w) PROVE IInv'
<1> DEFINE k == [Begin(w) EXCEPT !.rec.visible = ~@]
           written == WriteRecord(k, w)
<1>1. OtherOK'
  BY LinksNow, DisturbType DEF VisibilityChange, OtherOK
<1>2. k \in Good /\ k.asg = assigned[w] /\ k.rec.load = me[w].load
  <2>1. Begin(w) \in Good /\ Begin(w).asg = assigned[w] /\ Begin(w).rec = me[w]
    BY BeginGood DEF IInv
  <2> QED BY <2>1 DEF Good, Task, WorkerRecord
<1>3. UNCHANGED phase
  BY DEF VisibilityChange
<1>4. CASE Started(w) /\ Reconcile(w, Notified(written), nudged)
  <2>1. Notified(written) \in Good
    <3> HIDE DEF k
    <3>1. written \in Good
      BY <1>2, WriteRecordQuiet DEF Good, Quiet
    <3> HIDE DEF written
    <3> QED BY <3>1, NotifiedQuiet DEF Good, Quiet
  <2>2. phase' = [phase EXCEPT ![w] = "started"]
    BY <1>3, <1>4 DEF Started, IInv, TypeOK
  <2> QED BY <1>1, <1>4, <2>1, <2>2, ReconcileInv
<1>5. CASE ~Started(w) /\ Commit(w, k, chan, nudged)
  <2>1. Committable(w, k, chan, nudged, phase[w])
    BY <1>2, SteadyCommittable
  <2> QED BY <1>1, <1>3, <1>5, <2>1, HandlerInv
<1> QED BY <1>4, <1>5 DEF VisibilityChange

\* The heartbeat does.
LEMMA HeartbeatInv == ASSUME IInv, NEW w \in Workers, Heartbeat(w) PROVE IInv'
<1>1. Begin(w) \in Good
  BY BeginGood DEF IInv
<1>2. WriteRecord(Begin(w), w) \in Good
  BY <1>1, WriteRecordQuiet DEF Good, Quiet
<1>3. phase' = [phase EXCEPT ![w] = "started"] /\ OtherOK'
  BY LinksNow DEF Heartbeat, Started, IInv, TypeOK, OtherOK
<1> QED BY <1>2, <1>3, ReconcileInv DEF Heartbeat

\* A REGISTRY frame does.
LEMMA RegistryInv == ASSUME IInv, NEW w \in Workers, Registry(w) PROVE IInv'
<1>1. Begin(w) \in Good
  BY BeginGood DEF IInv
<1>2. Started(w)
  BY LinksNow DEF Registry
<1>3. phase' = [phase EXCEPT ![w] = "started"] /\ OtherOK'
  BY <1>2, LinksNow DEF Registry, Started, IInv, TypeOK, OtherOK
<1>4. Reconcile(w, Begin(w), nudged \ {w}) /\ nudged \ {w} \in SUBSET nudged
  BY DEF Registry
<1> QED BY <1>1, <1>3, <1>4, ReconcileInv

\* Handling SUBSCRIBE keeps transport and assignments equal.
LEMMA OnSubscribeGood ==
  ASSUME NEW k \in Good, NEW w \in Workers, NEW t \in Topics
  PROVE  \/ OnSubscribe(k, w, t) = k
         \/ \E k1 \in Good : OnSubscribe(k, w, t) = UpdateLoad(k1, w, TRUE)
BY TakeGood DEF OnSubscribe

\* Handling ROUTE_RELEASED does.
LEMMA OnRouteReleasedGood ==
  ASSUME NEW k \in Good, NEW w \in Workers, NEW x \in Workers, NEW t \in Topics,
         NEW gen \in Nat
  PROVE  \/ OnRouteReleased(k, w, x, t, gen) = k
         \/ \E k1 \in Good : OnRouteReleased(k, w, x, t, gen) = UpdateLoad(k1, w, TRUE)
BY TakeGood DEF OnRouteReleased

\* Handling UNSUBSCRIBE does.
LEMMA OnUnsubscribeGood ==
  ASSUME NEW k \in Good, NEW w \in Workers, NEW t \in Topics
  PROVE  \E k1 \in Good : OnUnsubscribe(k, w, t) = UpdateLoad(k1, w, TRUE)
<1> DEFINE freed == {u \in {t} : k.route[u].from = w}
           frames == [u \in freed |-> Released(k.route[u])]
           left == Leave(k, {t})
           sent == Send(left, frames)
<1>1. Partial(frames, Topics, Outgoing)
  <2>1. k.route[t] \in RouteEntry
    BY DEF Good, Task
  <2>2. \A u \in freed : Released(k.route[u]) \in Outgoing
    BY <2>1, ReleasedType
  <2> QED BY <2>2 DEF Partial
<1>2. left \in Good
  BY LeaveGood
<1>3. sent \in Good
  <2> HIDE DEF left, frames
  <2>1. Quiet(sent, left)
    BY <1>1, <1>2, SendQuiet DEF Good
  <2> QED BY <1>2, <2>1 DEF Good, Quiet
<1> QED BY <1>3 DEF OnUnsubscribe

\* The delivery of a frame preserves the invariant.
LEMMA DeliverInv ==
  ASSUME IInv, NEW x \in Workers, NEW w \in Workers, NEW t \in Topics, Deliver(x, w, t)
  PROVE  IInv'
<1> DEFINE link == <<x, w, t>>
           f == Head(chan[link])
           k == Begin(w)
<1>1. link \in Links /\ chan[link] # <<>> /\ chan[link] \in Seq(Frame) /\ link[2] = w
  BY LinksNow DEF Deliver, Links
<1>2. Started(w)
  BY <1>1, LinksNow
<1>3. Tail(chan[link]) \in Seq(Frame)
  BY <1>1
<1>4. /\ Received(link) \in [Links -> Seq(Frame)]
      /\ \A l \in Links : Received(link)[l] # <<>> => Started(l[2])
  BY <1>1, <1>2, <1>3, LinksNow DEF Received
<1>5. f.kind \in {"SUBSCRIBE", "UNSUBSCRIBE", "ROUTE_RELEASED"} /\ f.gen \in Nat
  <2>1. f \in Frame
    BY <1>1
  <2> QED BY <2>1 DEF Frame
<1>6. k \in Good /\ k.asg = assigned[w] /\ k.rec = me[w]
  BY BeginGood DEF IInv
<1> DEFINE done == CASE f.kind = "SUBSCRIBE" -> OnSubscribe(k, w, t)
                     [] f.kind = "UNSUBSCRIBE" -> OnUnsubscribe(k, w, t)
                     [] f.kind = "ROUTE_RELEASED" -> OnRouteReleased(k, w, x, t, f.gen)
<1> HIDE DEF k
<1>7. done = k \/ \E k1 \in Good : done = UpdateLoad(k1, w, TRUE)
  <2>1. CASE f.kind = "SUBSCRIBE"
    BY <1>6, <2>1, OnSubscribeGood
  <2>2. CASE f.kind = "UNSUBSCRIBE"
    BY <1>6, <2>2, OnUnsubscribeGood
  <2>3. CASE f.kind = "ROUTE_RELEASED"
    <3>1. done = OnRouteReleased(k, w, x, t, f.gen)
      BY <2>3
    <3> HIDE DEF done
    <3>2. PICK gen \in Nat : gen = f.gen
      BY <1>5
    <3> HIDE DEF f
    <3>3. \/ OnRouteReleased(k, w, x, t, gen) = k
          \/ \E k1 \in Good : OnRouteReleased(k, w, x, t, gen) = UpdateLoad(k1, w, TRUE)
      BY <1>6, OnRouteReleasedGood
    <3> QED BY <3>1, <3>2, <3>3
  <2> QED BY <1>5, <2>1, <2>2, <2>3
<1>8. Committable(w, done, Received(link), nudged, phase[w])
  <2> HIDE DEF done
  <2>1. CASE done = k
    <3>1. phase[w] = "started"
      BY <1>2 DEF Started
    <3>2. k.rec.load = Cardinality(k.asg)
      BY <1>2, <1>6 DEF IInv, LoadAccurate
    <3> QED BY <1>2, <1>4, <1>6, <2>1, <3>1, <3>2, LinksNow DEF Committable
  <2>2. CASE \E k1 \in Good : done = UpdateLoad(k1, w, TRUE)
    BY <1>2, <1>4, <2>2, LoadedCommittable
  <2> QED BY <1>7, <2>1, <2>2
<1>9. Commit(w, done, Received(link), nudged) /\ UNCHANGED phase
  BY DEF Deliver, k
<1>10. OtherOK'
  BY LinksNow DEF Deliver, OtherOK
<1> QED BY <1>8, <1>9, <1>10, HandlerInv

\* Steps of storage, time and the network change one variable or two.
LEMMA FlushInv == ASSUME IInv, NEW w \in Workers, Flush(w) PROVE IInv'
<1>1. PendingOK(NoWrites)
  BY DEF PendingOK, NoWrites, Partial
<1>2. DOMAIN pending' = Workers /\ \A x \in Workers : PendingOK(pending'[x])
  BY <1>1 DEF Flush, IInv, TypeOK
<1>3. storage' \in StorageType
  BY OverType DEF Flush, IInv, TypeOK, PendingOK, StorageType
<1>4. TypeOK'
  BY <1>2, <1>3 DEF Flush, IInv, TypeOK, PendingOK
<1> QED BY <1>4 DEF Flush, IInv, QuietWhenClosed, Coherent, LoadAccurate, Started

\* A failed flush writes nothing.
LEMMA FlushFailsInv == ASSUME IInv, NEW w \in Workers, FlushFails(w) PROVE IInv'
<1>1. churn' \in Nat
  BY DisturbType DEF FlushFails
<1>2. TypeOK'
  BY <1>1 DEF FlushFails, IInv, TypeOK, PendingOK
<1> QED BY <1>2 DEF FlushFails, IInv, QuietWhenClosed, Coherent, LoadAccurate, Started

\* Only a verdict on a record changes.
LEMMA ExpireInv == ASSUME IInv, NEW w \in Workers, Expire(w) PROVE IInv'
<1>1. churn' \in Nat
  BY DisturbType DEF Expire
<1>2. storage.worker[w] \in WorkerRecord
  BY DEF Expire, IInv, TypeOK, StorageType, WorkerEntry
<1>3. storage' \in StorageType
  BY <1>2 DEF Expire, IInv, TypeOK, StorageType, WorkerEntry, WorkerRecord
<1>4. TypeOK'
  BY <1>1, <1>3 DEF Expire, IInv, TypeOK, PendingOK
<1> QED BY <1>4 DEF Expire, IInv, QuietWhenClosed, Coherent, LoadAccurate, Started

\* Only a verdict on a route changes.
LEMMA AgeRouteInv == ASSUME IInv, NEW t \in Topics, AgeRoute(t) PROVE IInv'
<1>1. storage.route[t] \in Route
  BY DEF AgeRoute, IInv, TypeOK, StorageType, RouteEntry
<1>2. storage' \in StorageType
  BY <1>1 DEF AgeRoute, IInv, TypeOK, StorageType, RouteEntry, Route
<1>3. TypeOK'
  BY <1>2 DEF AgeRoute, IInv, TypeOK, PendingOK
<1> QED BY <1>3 DEF AgeRoute, IInv, QuietWhenClosed, Coherent, LoadAccurate, Started

\* Losing frames empties a link.
LEMMA LoseInv == ASSUME IInv, NEW l \in Links, Lose(l) PROVE IInv'
<1>1. churn' \in Nat
  BY DisturbType DEF Lose
<1>2. chan' \in [Links -> Seq(Frame)] /\ \A m \in Links : chan'[m] # <<>> => chan[m] # <<>>
  BY LinksNow DEF Lose
<1>3. TypeOK'
  BY <1>1, <1>2 DEF Lose, IInv, TypeOK, PendingOK
<1>4. QuietWhenClosed'
  BY <1>2 DEF Lose, IInv, QuietWhenClosed, Started
<1> QED BY <1>3, <1>4 DEF Lose, IInv, Coherent, LoadAccurate, Started

\* The initial states satisfy the invariant.
LEMMA InitInv == ASSUME Init PROVE IInv
<1>1. PendingOK(NoWrites)
  BY DEF PendingOK, NoWrites, Partial
<1>2. TypeOK
  <2>1. storage \in StorageType
    BY DEF Init, StorageType, WorkerEntry, RouteEntry
  <2>2. DOMAIN pending = Workers /\ \A w \in Workers : PendingOK(pending[w])
    BY <1>1 DEF Init
  <2>3. me \in [Workers -> WorkerRecord]
    BY DEF Init, WorkerRecord
  <2>4. chan \in [Links -> Seq(Frame)]
    BY DEF Init
  <2> QED BY <2>1, <2>2, <2>3, <2>4 DEF Init, TypeOK
<1>3. QuietWhenClosed /\ Coherent
  BY DEF Init, QuietWhenClosed, Coherent
<1>4. LoadAccurate
  BY DEF Init, LoadAccurate, Started
<1> QED BY <1>2, <1>3, <1>4 DEF IInv

\* Every step preserves it.
LEMMA NextInv == ASSUME IInv, Next PROVE IInv'
<1> USE DEF Next
<1>1. ASSUME NEW w \in Workers, Start(w) \/ Resume(w) \/ Crash(w) PROVE IInv'
  BY <1>1, StartInv, ResumeInv, CrashInv
<1>2. ASSUME NEW w \in Workers, NEW ok \in BOOLEAN, PageHide(w, ok) \/ Stop(w, ok) PROVE IInv'
  BY <1>2, PageHideInv, StopInv
<1>3. ASSUME NEW w \in Workers, NEW t \in Topics, Subscribe(w, t) \/ Unsubscribe(w, t) PROVE IInv'
  BY <1>3, SubscribeInv, UnsubscribeInv
<1>4. ASSUME NEW w \in Workers, SetStatus(w) \/ VisibilityChange(w) PROVE IInv'
  BY <1>4, SetStatusInv, VisibilityChangeInv
<1>5. ASSUME NEW w \in Workers, Heartbeat(w) \/ Registry(w) PROVE IInv'
  BY <1>5, HeartbeatInv, RegistryInv
<1>6. ASSUME NEW w \in Workers, NEW x \in Workers, NEW t \in Topics, Deliver(x, w, t) PROVE IInv'
  BY <1>6, DeliverInv
<1>7. ASSUME NEW w \in Workers, Flush(w) \/ FlushFails(w) \/ Expire(w) PROVE IInv'
  BY <1>7, FlushInv, FlushFailsInv, ExpireInv
<1>8. ASSUME NEW t \in Topics, AgeRoute(t) PROVE IInv'
  BY <1>8, AgeRouteInv
<1>9. ASSUME NEW l \in Links, Lose(l) PROVE IInv'
  BY <1>9, LoseInv
<1> QED BY <1>1, <1>2, <1>3, <1>4, <1>5, <1>6, <1>7, <1>8, <1>9

\* A stuttering step keeps every part.
LEMMA StutterInv == ASSUME IInv, UNCHANGED vars PROVE IInv'
BY DEF vars, IInv, TypeOK, PendingOK, QuietWhenClosed, Coherent, LoadAccurate, Started

----------------------------------------------------------------------------
(* The inductive invariant holds in every behaviour, whatever the tabs,    *)
(* topics and disturbances, and however tasks and flushes interleave.      *)
THEOREM Invariance == Spec => []IInv
<1>1. Init => IInv
  BY InitInv
<1>2. IInv /\ [Next]_vars => IInv'
  BY NextInv, StutterInv
<1> QED BY <1>1, <1>2, PTL DEF Spec

(* Every record, route, frame and queued write any handler produces is     *)
(* well formed.                                                            *)
THEOREM TypeCorrect == Spec => []TypeOK
<1>1. IInv => TypeOK
  BY DEF IInv
<1> QED BY <1>1, Invariance, PTL

(* The transport of every tab holds exactly the topics the tab counts as   *)
(* assigned, and a tab that does not run holds none.                       *)
THEOREM TransportCoherent == Spec => []Coherent
<1>1. IInv => Coherent
  BY DEF IInv
<1> QED BY <1>1, Invariance, PTL

(* The load a running tab publishes is the number of topics it holds at    *)
(* the end of every task.                                                  *)
THEOREM LoadsAccurate == Spec => []LoadAccurate
<1>1. IInv => LoadAccurate
  BY DEF IInv
<1> QED BY <1>1, Invariance, PTL

(* What a tab counts as assigned, what its transport holds and the load it *)
(* publishes agree in every state.                                         *)
THEOREM AccountsAgree == Spec => []Accounted
<1>1. IInv => Accounted
  BY DEF IInv, Accounted
<1> QED BY <1>1, Invariance, PTL

(* No frame and no nudge waits for a tab that has left, so none can make   *)
(* it take a topic again.                                                  *)
THEOREM ClosedIsQuiet == Spec => []QuietWhenClosed
<1>1. IInv => QuietWhenClosed
  BY DEF IInv
<1> QED BY <1>1, Invariance, PTL

----------------------------------------------------------------------------
(* Strict handoff: a topic is taken only when it is free or released,      *)
(* released only when it was let go of, and a confirmed owner keeps it     *)
(* until it is told that nobody wants it.                                  *)
(*                                                                         *)
(* A task is followed from its start to its commit.  Sound(k, w, F, S)     *)
(* says what a task k of tab w has done so far: only topics of F had their *)
(* route changed or were taken, and only topics of S are confirmed to w    *)
(* without w holding them.  There is one lemma per operator, and then one  *)
(* per action.                                                             *)

\* A route that w may write: confirmed to nobody but w.
Own(r, w) == r.confirmed => r.owner = w

(* No tab queues a route that is confirmed to another tab: a flush, at     *)
(* whatever time it comes, cannot make another tab a confirmed owner.      *)
OwnRoutes ==
  \A w \in Workers : \A t \in DOMAIN pending[w].route : Own(pending[w].route[t], w)

\* The inductive invariant of strict handoff.
HInv == IInv /\ OwnRoutes

FreeTopics(w) == {t \in Topics : Free(w, t)}

\* The topics confirmed to w that the task does not hold.
Stray(k, w) == {t \in Topics \ k.asg : k.route[t].owner = w /\ k.route[t].confirmed}

\* Every route the task has written, queued or flushed, is w's to write.
WritesOwn(k, w) ==
  \A t \in Topics :
    /\ IF t \in k.dr THEN Own(k.route[t], w) ELSE k.route[t] = k.disk.route[t]
    /\ k.disk.route[t] = storage.route[t] \/ Own(k.disk.route[t], w)

\* Routes outside F are still those w saw, nothing outside F was taken, and
\* the records of tabs w sees alive are untouched.
Touches(k, w, F) ==
  /\ \A t \in Topics : k.route[t] = SeenRoute(w, t) \/ t \in F
  /\ k.asg \subseteq assigned[w] \cup F
  /\ \A x \in Workers \ {w} : k.worker[x] = SeenWorker(w, x) \/ Departed(w, x)

\* No ROUTE_RELEASED is sent yet.
Silent(k) == \A t \in Topics : k.out[t].kind # "ROUTE_RELEASED"

Sound(k, w, F, S) ==
  k \in Good /\ WritesOwn(k, w) /\ Touches(k, w, F) /\ Stray(k, w) \subseteq S /\ Silent(k)

----------------------------------------------------------------------------
(* Operators that leave routes, assignments and frames alone.              *)

Aside(k1, k, w) ==
  /\ k1 \in Good
  /\ k1.route = k.route /\ k1.dr = k.dr /\ k1.disk = k.disk
  /\ k1.asg = k.asg /\ k1.out = k.out
  /\ \A x \in Workers \ {w} : k1.worker[x] = k.worker[x] \/ Departed(w, x)

\* They keep a task sound.
LEMMA AsideSound ==
  ASSUME NEW w \in Workers, NEW k, NEW k1, NEW F, NEW S,
         Sound(k, w, F, S), Aside(k1, k, w)
  PROVE  Sound(k1, w, F, S)
<1>1. k1 \in Good /\ WritesOwn(k1, w)
  BY DEF Aside, Sound, WritesOwn
<1>2. Touches(k1, w, F)
  BY DEF Aside, Sound, Touches
<1>3. Stray(k1, w) \subseteq S /\ Silent(k1)
  BY DEF Aside, Sound, Stray, Silent
<1> QED BY <1>1, <1>2, <1>3 DEF Sound

\* Two of them in a row are another one.
LEMMA AsideTwice ==
  ASSUME NEW w \in Workers, NEW k, NEW k1, NEW k2, Aside(k1, k, w), Aside(k2, k1, w)
  PROVE  Aside(k2, k, w)
BY DEF Aside

\* Queued subscriber records.
LEMMA PutSubsAside ==
  ASSUME NEW w \in Workers, NEW k \in Good, NEW pairs \in SUBSET Pairs, NEW live \in BOOLEAN
  PROVE  Aside(PutSubs(k, [p \in pairs |-> live]), k, w)
<1>1. PutSubs(k, [p \in pairs |-> live]) \in Good
  BY SetSubsQuiet DEF Good, Quiet
<1> QED BY <1>1 DEF Aside, PutSubs, Good, Task

\* A queued record of w itself, or removals of departed tabs.
LEMMA PutWorkersAside ==
  ASSUME NEW w \in Workers, NEW k \in Good, NEW f, Partial(f, Workers, WorkerEntry),
         \A x \in DOMAIN f \ {w} : Departed(w, x)
  PROVE  Aside(PutWorkers(k, f), k, w)
<1>1. PutWorkers(k, f) \in Good
  BY PutWorkersQuiet DEF Good, Quiet
<1>2. \A x \in Workers \ {w} : Over(f, k.worker)[x] = k.worker[x] \/ Departed(w, x)
  BY DEF Over, Good, Task
<1> QED BY <1>1, <1>2 DEF Aside, PutWorkers, Good, Task

\* writeRecord.
LEMMA WriteRecordAside ==
  ASSUME NEW w \in Workers, NEW k \in Good
  PROVE  Aside(WriteRecord(k, w), k, w)
<1>1. Partial([x \in {w} |-> k.rec], Workers, WorkerEntry)
  BY DEF Partial, WorkerEntry, Good, Task
<1> QED BY <1>1, PutWorkersAside DEF WriteRecord

\* readWorkers: whoever it removes had departed.
LEMMA PrunedAside ==
  ASSUME NEW w \in Workers, NEW k, NEW F, NEW S, Sound(k, w, F, S)
  PROVE  Aside(Pruned(k, w), k, w)
<1> DEFINE f == [x \in {y \in Workers \ {w} : k.worker[y].stale} |-> NoRecord]
<1>1. k \in Good
  BY DEF Sound
<1>2. Partial(f, Workers, WorkerEntry)
  BY DEF Partial, WorkerEntry
<1>3. \A x \in DOMAIN f \ {w} : Departed(w, x)
  BY DEF Sound, Touches, Departed
<1> QED BY <1>1, <1>2, <1>3, PutWorkersAside DEF Pruned

\* readSubscriberIds.
LEMMA CleanSubscribersAside ==
  ASSUME NEW w \in Workers, NEW k \in Good, NEW topics \in SUBSET Topics, NEW ids
  PROVE  Aside(CleanSubscribers(k, topics, ids), k, w)
<1>1. CleanSubscribers(k, topics, ids) \in Good
  BY CleanSubscribersQuiet DEF Good, Quiet
<1> QED BY <1>1 DEF Aside, CleanSubscribers, PutSubs, Good, Task

\* notifyRegistry.
LEMMA NotifiedAside ==
  ASSUME NEW w \in Workers, NEW k \in Good PROVE Aside(Notified(k), k, w)
<1>1. Notified(k) \in Good
  BY NotifiedQuiet DEF Good, Quiet
<1> QED BY <1>1 DEF Aside, Notified, Good, Task

\* refreshRole.
LEMMA RefreshRoleAside ==
  ASSUME NEW w \in Workers, NEW k \in Good, NEW recs
  PROVE  Aside(RefreshRole(k, w, recs), k, w)
<1>1. RefreshRole(k, w, recs) \in Good
  BY RefreshRoleGood
<1> QED BY <1>1 DEF Aside, RefreshRole, Good, Task

\* updateLoad.
LEMMA UpdateLoadAside ==
  ASSUME NEW w \in Workers, NEW k \in Good, NEW running \in BOOLEAN
  PROVE  Aside(UpdateLoad(k, w, running), k, w)
<1> DEFINE k1 == [k EXCEPT !.rec.load = Cardinality(k.asg)]
<1>1. k1 \in Good
  BY LoadType DEF Good, Task, WorkerRecord
<1>2. Aside(k1, k, w)
  BY <1>1 DEF Aside, Good, Task
<1>3. Aside(k, k, w)
  BY DEF Aside
<1> HIDE DEF k1
<1>4. Aside(WriteRecord(k1, w), k1, w)
  BY <1>1, WriteRecordAside
<1>5. Aside(Notified(WriteRecord(k1, w)), WriteRecord(k1, w), w)
  BY <1>4, NotifiedAside DEF Aside
<1>6. Aside(Notified(WriteRecord(k1, w)), k, w)
  BY <1>2, <1>4, <1>5, AsideTwice
<1> QED BY <1>2, <1>3, <1>6 DEF UpdateLoad, k1

----------------------------------------------------------------------------
(* Operators that change routes, assignments or frames.                    *)

(* Queueing routes of F keeps a task sound, when none is confirmed to      *)
(* another tab; those confirmed to w and not held are counted.             *)
LEMMA PutRoutesSound ==
  ASSUME NEW w \in Workers, NEW k, NEW F, NEW S, NEW S1, Sound(k, w, F, S),
         NEW f, Partial(f, Topics, RouteEntry), DOMAIN f \subseteq F, S \subseteq S1,
         \A t \in DOMAIN f :
           /\ Own(f[t], w)
           /\ f[t].confirmed => t \in S1 \cup k.asg
  PROVE  Sound(PutRoutes(k, f), w, F, S1)
<1> DEFINE k1 == PutRoutes(k, f)
<1>1. k \in Good /\ k \in Task /\ WritesOwn(k, w) /\ Touches(k, w, F)
      /\ Stray(k, w) \subseteq S /\ Silent(k)
  BY DEF Sound, Good
<1>2. k1 \in Good
  BY <1>1, PutRoutesQuiet DEF Good, Quiet
<1>3. /\ k1.route = [t \in Topics |-> IF t \in DOMAIN f THEN f[t] ELSE k.route[t]]
      /\ k1.dr = k.dr \cup DOMAIN f
      /\ k1.disk = k.disk /\ k1.asg = k.asg /\ k1.out = k.out /\ k1.worker = k.worker
  BY <1>1 DEF PutRoutes, Over, Task
<1> HIDE DEF k1
<1>4. WritesOwn(k1, w)
  BY <1>1, <1>3 DEF WritesOwn
<1>5. Touches(k1, w, F)
  BY <1>1, <1>3 DEF Touches
<1>6. Stray(k1, w) \subseteq S1
  BY <1>1, <1>3 DEF Stray
<1>7. Silent(k1)
  BY <1>1, <1>3 DEF Silent
<1> QED BY <1>2, <1>4, <1>5, <1>6, <1>7 DEF Sound, k1

\* Removing routes of F does.
LEMMA DropRoutesSound ==
  ASSUME NEW w \in Workers, NEW k, NEW F, NEW S, Sound(k, w, F, S),
         NEW gone \in SUBSET Topics, gone \subseteq F
  PROVE  Sound(DropRoutes(k, gone), w, F, S)
<1> DEFINE f == [t \in gone |-> NoRoute]
<1>1. Partial(f, Topics, RouteEntry)
  BY DEF Partial, RouteEntry
<1>2. \A t \in DOMAIN f : Own(f[t], w) /\ ~f[t].confirmed
  BY DEF Own, NoRoute
<1> QED BY <1>1, <1>2, PutRoutesSound DEF DropRoutes

\* What w reads of a topic outside F is what it saw when the task began.
LEMMA AgedFree ==
  ASSUME NEW w \in Workers, NEW k, NEW F, NEW S, Sound(k, w, F, S), FreeTopics(w) \subseteq F,
         NEW t \in Topics,
         \/ k.route[t] = NoRoute
         \/ k.route[t].aged
         \/ k.route[t].owner = w /\ (k.route[t].from = NoWorker \/ k.route[t].confirmed)
  PROVE  t \in F
BY DEF Sound, Touches, FreeTopics, Free

\* cleanupOrphanedRoutes.
LEMMA CleanRoutesSound ==
  ASSUME NEW w \in Workers, NEW k, NEW F, NEW S, Sound(k, w, F, S), FreeTopics(w) \subseteq F
  PROVE  Sound(CleanRoutes(k), w, F, S)
<1> DEFINE gone == {t \in Topics : k.route[t].aged /\ Subscribers(k, t) = {}}
<1>1. gone \subseteq F
  BY AgedFree
<1> QED BY <1>1, DropRoutesSound DEF CleanRoutes

\* An accepted SUBSCRIBE for topics of F: what it confirms it holds.
LEMMA TakeSound ==
  ASSUME NEW w \in Workers, NEW k, NEW F, NEW S, Sound(k, w, F, S),
         NEW topics \in SUBSET Topics, topics \subseteq F
  PROVE  Sound(Take(k, w, topics), w, F, S)
<1> DEFINE f == [t \in {u \in topics : k.route[u].owner = w /\ ~k.route[u].confirmed}
                   |-> [k.route[t] EXCEPT !.confirmed = TRUE]]
           k1 == Confirm(k, w, topics)
           k2 == Take(k, w, topics)
<1>1. k \in Good /\ k \in Task /\ WritesOwn(k, w) /\ Touches(k, w, F)
      /\ Stray(k, w) \subseteq S /\ Silent(k)
  BY DEF Sound, Good
<1>2. \A t \in DOMAIN f : f[t] \in RouteEntry /\ f[t].owner = w
  <2>1. ASSUME NEW t \in DOMAIN f PROVE f[t] \in RouteEntry /\ f[t].owner = w
    <3>1. k.route[t] \in RouteEntry /\ k.route[t].owner = w
      BY <1>1 DEF Task
    <3>2. k.route[t] \in Route
      BY <3>1, WorkersAssumption DEF RouteEntry, NoRoute, NoWorker
    <3> QED BY <3>1, <3>2 DEF Route, RouteEntry
  <2> QED BY <2>1
<1>3. Partial(f, Topics, RouteEntry)
  BY <1>2 DEF Partial
<1>4. Sound(k1, w, F, S \cup topics)
  <2>1. \A t \in DOMAIN f : Own(f[t], w) /\ t \in S \cup topics
    BY <1>2 DEF Own
  <2> HIDE DEF f
  <2>2. DOMAIN f \subseteq F
    BY DEF f
  <2>3. Sound(PutRoutes(k, f), w, F, S \cup topics)
    BY <1>3, <2>1, <2>2, PutRoutesSound
  <2> QED BY <2>3 DEF Confirm, f
<1> HIDE DEF f, k1
<1>5. k2 = [k1 EXCEPT !.asg = @ \cup topics, !.hld = @ \cup topics]
  BY DEF Take, k1
<1>6. k2 \in Good
  BY <1>1, TakeGood
<1>7. k1 \in Task
  BY <1>4 DEF Sound, Good
<1>8. /\ k2.route = k1.route /\ k2.dr = k1.dr /\ k2.disk = k1.disk /\ k2.out = k1.out
      /\ k2.worker = k1.worker /\ k2.asg = k1.asg \cup topics
  BY <1>5, <1>7 DEF Task
<1> HIDE DEF k2
<1>9. WritesOwn(k2, w) /\ Silent(k2)
  BY <1>4, <1>8 DEF Sound, WritesOwn, Silent
<1>10. Touches(k2, w, F)
  BY <1>4, <1>8 DEF Sound, Touches
<1>11. Stray(k2, w) \subseteq S
  BY <1>4, <1>8 DEF Sound, Stray
<1> QED BY <1>6, <1>9, <1>10, <1>11 DEF Sound, k2

\* Sending frames that release nothing.
LEMMA SendSound ==
  ASSUME NEW w \in Workers, NEW k, NEW F, NEW S, Sound(k, w, F, S),
         NEW f, Partial(f, Topics, Outgoing),
         \A t \in DOMAIN f : f[t].kind # "ROUTE_RELEASED"
  PROVE  Sound(Send(k, f), w, F, S)
<1> DEFINE k1 == Send(k, f)
<1>1. k \in Good /\ k \in Task
  BY DEF Sound, Good
<1>2. k1 \in Good
  BY <1>1, SendQuiet DEF Good, Quiet
<1>3. /\ k1.route = k.route /\ k1.dr = k.dr /\ k1.disk = k.disk /\ k1.worker = k.worker
      /\ k1.asg = k.asg
      /\ k1.out = [t \in Topics |-> IF t \in DOMAIN f THEN f[t] ELSE k.out[t]]
  BY <1>1 DEF Send, Over, Task
<1> HIDE DEF k1
<1>4. WritesOwn(k1, w) /\ Stray(k1, w) \subseteq S
  BY <1>3 DEF Sound, WritesOwn, Stray
<1>5. Touches(k1, w, F)
  BY <1>3 DEF Sound, Touches
<1>6. Silent(k1)
  BY <1>3 DEF Sound, Silent
<1> QED BY <1>2, <1>4, <1>5, <1>6 DEF Sound, k1

\* An election among topics of F: the new routes are unconfirmed, and those
\* w takes it holds.
LEMMA ElectSound ==
  ASSUME NEW w \in Workers, NEW k, NEW F, NEW S, Sound(k, w, F, S),
         NEW topics \in SUBSET Topics, topics \subseteq F, NEW plan \in Plans
  PROVE  Sound(Elect(k, w, topics, plan), w, F, S)
<1> DEFINE routes == [t \in topics |-> NewRoute(plan[t], NoWorker, NextGen(k.route[t]))]
           routed == PutRoutes(k, routes)
           frames == [t \in {u \in topics : plan[u] # w} |-> Control("SUBSCRIBE", plan[t])]
           asked == Send(routed, frames)
           mine == {t \in topics : plan[t] = w}
           taken == Take(asked, w, mine)
<1>1. k \in Good /\ k \in Task
  BY DEF Sound, Good
<1>2. Partial(routes, Topics, RouteEntry)
  <2>1. ASSUME NEW t \in topics PROVE NewRoute(plan[t], NoWorker, NextGen(k.route[t])) \in RouteEntry
    <3>1. plan[t] \in Workers /\ k.route[t] \in RouteEntry
      BY <1>1 DEF Plans, Task
    <3> QED BY <3>1, NewRouteType
  <2> QED BY <2>1 DEF Partial
<1>3. \A t \in DOMAIN routes : ~routes[t].confirmed /\ Own(routes[t], w)
  BY DEF NewRoute, Own
<1>4. Sound(routed, w, F, S)
  <2>1. DOMAIN routes \subseteq F
    OBVIOUS
  <2> HIDE DEF routes
  <2> QED BY <1>2, <1>3, <2>1, PutRoutesSound
<1>5. Partial(frames, Topics, Outgoing) /\ \A t \in DOMAIN frames : frames[t].kind # "ROUTE_RELEASED"
  BY DEF Partial, Outgoing, Control, Plans
<1>6. Sound(asked, w, F, S)
  <2> HIDE DEF routed, frames
  <2> QED BY <1>4, <1>5, SendSound
<1>7. Sound(taken, w, F, S)
  <2>1. mine \in SUBSET Topics /\ mine \subseteq F
    OBVIOUS
  <2> HIDE DEF asked, mine
  <2> QED BY <1>6, <2>1, TakeSound
<1>8. Sound(Notified(taken), w, F, S)
  <2> HIDE DEF taken
  <2> QED BY <1>7, NotifiedAside, AsideSound DEF Sound
<1> QED BY <1>8 DEF Elect

\* flushStorage.
LEMMA FlushedSound ==
  ASSUME NEW w \in Workers, NEW k, NEW F, NEW S, Sound(k, w, F, S), NEW ok \in BOOLEAN
  PROVE  Sound(Flushed(k, ok), w, F, S)
<1> DEFINE k1 == Flushed(k, TRUE)
<1>1. k \in Good /\ k \in Task
  BY DEF Sound, Good
<1>2. k1 \in Good
  BY <1>1, FlushedQuiet DEF Good, Quiet
<1>3. /\ k1.route = k.route /\ k1.dr = {} /\ k1.disk.route = k.route /\ k1.worker = k.worker
      /\ k1.asg = k.asg /\ k1.out = k.out
  BY <1>1 DEF Flushed, Task
<1> HIDE DEF k1
<1>4. WritesOwn(k1, w)
  BY <1>3 DEF Sound, WritesOwn
<1>5. Touches(k1, w, F) /\ Stray(k1, w) \subseteq S /\ Silent(k1)
  BY <1>3 DEF Sound, Touches, Stray, Silent
<1>6. Sound(k1, w, F, S)
  BY <1>2, <1>4, <1>5 DEF Sound
<1> QED BY <1>6 DEF k1, Flushed

----------------------------------------------------------------------------
(* The stages of reconcile.                                                *)

\* Tabs that readWorkers does not return are others, and have departed.
Gone(w, ids) == \A x \in Workers \ ids : x # w /\ Departed(w, x)

\* That is so for the ids a sound task reads.
LEMMA LiveIdsGone ==
  ASSUME NEW w \in Workers, NEW k, NEW F, NEW S, Sound(k, w, F, S)
  PROVE  Gone(w, LiveIds(Pruned(k, w), w, TRUE))
<1>1. Sound(Pruned(k, w), w, F, S)
  BY PrunedAside, AsideSound
<1> HIDE DEF Pruned
<1>2. ASSUME NEW x \in Workers \ LiveIds(Pruned(k, w), w, TRUE) PROVE x # w /\ Departed(w, x)
  <2>1. x # w /\ Pruned(k, w).worker[x] = NoRecord
    BY DEF LiveIds
  <2> QED BY <1>1, <2>1 DEF Sound, Touches, Departed
<1> QED BY <1>2 DEF Gone

\* A topic whose owner is not among them is free.
LEMMA OrphanFree ==
  ASSUME NEW w \in Workers, NEW k, NEW F, NEW S, Sound(k, w, F, S), FreeTopics(w) \subseteq F,
         NEW ids, Gone(w, ids), NEW t \in Topics, k.route[t].owner \notin ids
  PROVE  t \in F
<1>1. k.route[t] \in RouteEntry
  BY DEF Sound, Good, Task
<1>2. CASE k.route[t] = NoRoute
  BY <1>2, AgedFree
<1>3. CASE k.route[t] \in Route
  <2>1. k.route[t].owner \in Workers
    BY <1>3 DEF Route
  <2>2. k.route[t].owner # w /\ Departed(w, k.route[t].owner)
    BY <2>1 DEF Gone
  <2> QED BY <2>2 DEF Sound, Touches, FreeTopics, Free
<1> QED BY <1>1, <1>2, <1>3 DEF RouteEntry

\* The first stage.
LEMMA ReconcileWorkersSound ==
  ASSUME NEW w \in Workers, NEW k, NEW F, NEW S, Sound(k, w, F, S), FreeTopics(w) \subseteq F,
         NEW ids
  PROVE  Sound(ReconcileWorkers(k, w, ids), w, F, S)
<1> DEFINE seen == Pruned(k, w)
           subbed == CleanSubscribers(seen, Topics, ids)
           cleaned == CleanRoutes(subbed)
           k1 == RefreshRole(cleaned, w, LiveRecords(cleaned, ids))
<1>1. Sound(seen, w, F, S)
  BY PrunedAside, AsideSound
<1>2. Sound(subbed, w, F, S)
  <2> HIDE DEF seen
  <2> QED BY <1>1, CleanSubscribersAside, AsideSound DEF Sound
<1>3. Sound(cleaned, w, F, S)
  <2> HIDE DEF subbed
  <2> QED BY <1>2, CleanRoutesSound
<1>4. Sound(k1, w, F, S)
  <2> HIDE DEF cleaned
  <2> QED BY <1>3, RefreshRoleAside, AsideSound DEF Sound
<1>5. Sound(WriteRecord(k1, w), w, F, S)
  <2> HIDE DEF k1
  <2> QED BY <1>4, WriteRecordAside, AsideSound DEF Sound
<1> QED BY <1>4, <1>5 DEF ReconcileWorkers

\* The repair of stranded routes leaves none.
LEMMA ReconcileStrandedSound ==
  ASSUME NEW w \in Workers, NEW k, NEW F, NEW S, Sound(k, w, F, S), FreeTopics(w) \subseteq F,
         NEW ok \in BOOLEAN
  PROVE  Sound(ReconcileStranded(k, w, ok), w, F, {})
<1> DEFINE stranded == Stray(k, w)
           back == stranded \cap subscribed[w]
           taken == Take(k, w, back)
           reclaimed == UpdateLoad(taken, w, TRUE)
           gone == stranded \ subscribed[w]
           dropped == DropRoutes(reclaimed, gone)
           flushed == Flushed(dropped, ok)
<1>1. stranded \in SUBSET Topics /\ stranded \subseteq F
  BY AgedFree DEF Stray
<1> HIDE DEF stranded
<1>2. Sound(taken, w, F, S)
  BY <1>1, TakeSound
<1>3. k \in Good /\ k \in Task
  BY DEF Sound, Good
<1>4. Stray(taken, w) \subseteq gone
  <2> DEFINE f == [t \in {u \in back : k.route[u].owner = w /\ ~k.route[u].confirmed}
                     |-> [k.route[t] EXCEPT !.confirmed = TRUE]]
  <2>1. /\ taken.asg = k.asg \cup back
        /\ taken.route = Over(f, k.route)
    <3>1. Confirm(k, w, back) = PutRoutes(k, f)
      BY DEF Confirm
    <3>2. taken.route = Confirm(k, w, back).route
      BY DEF Take
    <3>3. taken.asg = k.asg \cup back
      BY <1>1, <1>3, TakeGood
    <3>4. PutRoutes(k, f).route = Over(f, k.route)
      BY <1>3 DEF PutRoutes, Task
    <3> QED BY <3>1, <3>2, <3>3, <3>4
  <2>2. \A t \in Topics \ back : taken.route[t] = k.route[t]
    BY <1>3, <2>1 DEF Over, Task
  <2> HIDE DEF taken
  <2> QED BY <2>1, <2>2 DEF Stray, stranded
<1>5. Sound(taken, w, F, gone)
  BY <1>2, <1>4 DEF Sound
<1>6. Sound(reclaimed, w, F, gone)
  <2> HIDE DEF taken, gone
  <2> QED BY <1>5, UpdateLoadAside, AsideSound DEF Sound
<1>7. gone \in SUBSET Topics /\ gone \subseteq F
  BY <1>1
<1>8. Sound(dropped, w, F, {})
  <2> HIDE DEF reclaimed, gone
  <2>1. Sound(dropped, w, F, gone)
    BY <1>6, <1>7, DropRoutesSound
  <2>2. Stray(dropped, w) = {}
    <3>1. reclaimed \in Task
      BY <1>6 DEF Sound, Good
    <3>2. /\ dropped.asg = reclaimed.asg
          /\ dropped.route = [t \in Topics |-> IF t \in gone THEN NoRoute ELSE reclaimed.route[t]]
      BY <3>1 DEF DropRoutes, PutRoutes, Over, Task
    <3> HIDE DEF dropped
    <3> QED BY <1>6, <3>2 DEF Sound, Stray, NoRoute
  <2> QED BY <2>1, <2>2 DEF Sound
<1>9. Sound(flushed, w, F, {})
  <2> HIDE DEF dropped
  <2> QED BY <1>8, FlushedSound
<1>10. Sound(Notified(flushed), w, F, {})
  <2> HIDE DEF flushed
  <2> QED BY <1>9, NotifiedAside, AsideSound DEF Sound
<1>11. /\ stranded = {t \in Topics \ k.asg : k.route[t].owner = w /\ k.route[t].confirmed}
       /\ ReconcileStranded(k, w, ok) = IF gone = {} THEN reclaimed ELSE Notified(flushed)
  BY DEF ReconcileStranded, stranded, Stray
<1> HIDE DEF reclaimed, flushed, gone
<1> QED BY <1>6, <1>10, <1>11

\* The stage over the subscriptions.
LEMMA ReconcileSubscriptionsSound ==
  ASSUME NEW w \in Workers, NEW k, NEW F, NEW S, Sound(k, w, F, S), FreeTopics(w) \subseteq F,
         NEW ids, ids \subseteq Workers, Gone(w, ids), NEW plan \in Plans, TypeOK
  PROVE  Sound(ReconcileSubscriptions(k, w, ids, plan), w, F, S)
<1> DEFINE written == PutSubs(k, [p \in subscribed[w] \X {w} |-> TRUE])
           orphaned == Orphaned(written, w, ids)
           unasked == Unasked(written, w, ids)
           recovered == {t \in Abandoned(written, w, ids) : Recovers(written, w, t, plan[t])}
           own == {t \in unasked : written.route[t].owner = w}
           frames == [t \in unasked \ own |-> Control("SUBSCRIBE", written.route[t].owner)]
           asked == Send(written, frames)
           taken == Take(asked, w, own)
           elected == Elect(taken, w, orphaned \cup recovered, plan)
<1>1. subscribed[w] \in SUBSET Topics
  BY DEF TypeOK
<1>2. Sound(written, w, F, S)
  <2>1. subscribed[w] \X {w} \in SUBSET Pairs
    BY <1>1 DEF Pairs
  <2>2. k \in Good
    BY DEF Sound
  <2>3. Aside(written, k, w)
    BY <2>1, <2>2, PutSubsAside
  <2> QED BY <2>3, AsideSound
<1> HIDE DEF written
<1>3. /\ unasked \in SUBSET Topics /\ own \in SUBSET Topics
      /\ orphaned \cup recovered \in SUBSET Topics
  BY <1>1 DEF Orphaned, Unasked, Unconfirmed, Abandoned
<1>4. own \subseteq F
  BY <1>2, <1>3, AgedFree DEF Unasked
<1>5. orphaned \cup recovered \subseteq F
  <2>1. ASSUME NEW t \in orphaned PROVE t \in F
    BY <1>1, <1>2, OrphanFree DEF Orphaned
  <2>2. ASSUME NEW t \in recovered PROVE t \in F
    BY <1>1, <1>2, AgedFree DEF Abandoned, Unconfirmed
  <2> QED BY <2>1, <2>2
<1>6. Partial(frames, Topics, Outgoing) /\ \A t \in DOMAIN frames : frames[t].kind # "ROUTE_RELEASED"
  <2>1. ASSUME NEW t \in unasked PROVE Control("SUBSCRIBE", written.route[t].owner) \in Outgoing
    BY DEF Unasked, Unconfirmed, Control, Outgoing
  <2> QED BY <2>1, <1>3 DEF Partial, Control
<1>7. Sound(asked, w, F, S)
  <2> HIDE DEF frames
  <2> QED BY <1>2, <1>6, SendSound
<1>8. Sound(taken, w, F, S)
  <2> HIDE DEF asked, own
  <2> QED BY <1>3, <1>4, <1>7, TakeSound
<1>9. Sound(elected, w, F, S)
  <2> HIDE DEF taken, orphaned, recovered
  <2> QED BY <1>3, <1>5, <1>8, ElectSound
<1>10. Sound(UpdateLoad(elected, w, TRUE), w, F, S)
  <2> HIDE DEF elected
  <2> QED BY <1>9, UpdateLoadAside, AsideSound DEF Sound
<1> QED BY <1>10 DEF ReconcileSubscriptions, written

----------------------------------------------------------------------------
(* From the commit of a task to the properties.                            *)

(* What a task must satisfy when it commits and leaves its tab in phase p: *)
(* as Sound, but the records of other tabs no longer matter, a topic it    *)
(* releases must be let go of, and only a tab that runs on must hold what  *)
(* is confirmed to it.                                                     *)
Fit(k, w, F, S, p) ==
  /\ k \in Good
  /\ \A t \in k.dr : Own(k.route[t], w)
  /\ \A t \in Topics : k.disk.route[t] = storage.route[t] \/ Own(k.disk.route[t], w)
  /\ k.asg \subseteq assigned[w] \cup F
  /\ \A t \in Topics : k.out[t].kind = "ROUTE_RELEASED" => t \notin k.asg
  /\ p = "started" => /\ \A t \in Topics \ k.dr : k.route[t] = k.disk.route[t]
                      /\ Stray(k, w) \subseteq S

\* A sound task is fit.
LEMMA SoundFit ==
  ASSUME NEW w \in Workers, NEW k, NEW F, NEW S, NEW p, Sound(k, w, F, S)
  PROVE  Fit(k, w, F, S, p)
<1>1. k \in Task
  BY DEF Sound, Good
<1> QED BY <1>1 DEF Sound, Fit, WritesOwn, Touches, Silent, Task

\* The last stage of reconcile releases what it lets go of.
LEMMA ReconcileAssignedFit ==
  ASSUME NEW w \in Workers, NEW k, NEW F, NEW S, NEW p, Sound(k, w, F, S)
  PROVE  Fit(ReconcileAssigned(k, w), w, F, S, p)
<1> DEFINE lost == {t \in k.asg : k.route[t].owner # w}
           freed == {t \in lost : k.route[t].from = w}
           frames == [t \in freed |-> Released(k.route[t])]
           sent == Send(k, frames)
           left == Leave(sent, lost)
           k1 == ReconcileAssigned(k, w)
<1>1. k \in Good /\ k \in Task
  BY DEF Sound, Good
<1>2. lost \in SUBSET Topics /\ freed \in SUBSET Topics
  BY <1>1 DEF Task
<1>3. Partial(frames, Topics, Outgoing)
  <2>1. ASSUME NEW t \in freed PROVE Released(k.route[t]) \in Outgoing
    BY <1>1, <1>2, ReleasedType DEF Task
  <2> QED BY <2>1, <1>2 DEF Partial
<1>4. /\ sent \in Good
      /\ sent.route = k.route /\ sent.dr = k.dr /\ sent.disk = k.disk /\ sent.asg = k.asg
      /\ sent.out = [t \in Topics |-> IF t \in freed THEN frames[t] ELSE k.out[t]]
  <2>1. sent \in Good
    BY <1>1, <1>3, SendQuiet DEF Good, Quiet
  <2> QED BY <1>1, <2>1 DEF Send, Over, Task
<1> HIDE DEF sent
<1>5. /\ left \in Good
      /\ left.route = k.route /\ left.dr = k.dr /\ left.disk = k.disk
      /\ left.asg = k.asg \ lost /\ left.out = sent.out
  <2>1. left \in Good
    BY <1>2, <1>4, LeaveGood
  <2> QED BY <1>4, <2>1 DEF Leave, Good, Task
<1> HIDE DEF left
<1>6. Aside(UpdateLoad(left, w, TRUE), left, w)
  BY <1>5, UpdateLoadAside
<1>7. k1 = UpdateLoad(left, w, TRUE)
  BY DEF ReconcileAssigned, left, sent
<1>8. /\ k1 \in Good
      /\ k1.route = k.route /\ k1.dr = k.dr /\ k1.disk = k.disk /\ k1.asg = k.asg \ lost
      /\ k1.out = [t \in Topics |-> IF t \in freed THEN frames[t] ELSE k.out[t]]
  BY <1>4, <1>5, <1>6, <1>7 DEF Aside
<1> HIDE DEF k1
<1>9. \A t \in Topics : k1.out[t].kind = "ROUTE_RELEASED" => t \notin k1.asg
  BY <1>8 DEF Sound, Silent
<1>10. Stray(k1, w) \subseteq S
  BY <1>8 DEF Sound, Stray
<1>11. k1.asg \subseteq assigned[w] \cup F
  BY <1>8 DEF Sound, Touches
<1> HIDE DEF frames, lost, freed
<1> QED BY <1>1, <1>8, <1>9, <1>10, <1>11 DEF Sound, Fit, WritesOwn, Task, k1

\* Hence reconcile as a whole, after which nothing is stranded.
LEMMA ReconciledFit ==
  ASSUME NEW w \in Workers, NEW k, NEW F, NEW S, NEW p, Sound(k, w, F, S),
         FreeTopics(w) \subseteq F, NEW plan \in Plans, NEW ok \in BOOLEAN, TypeOK
  PROVE  Fit(Reconciled(k, w, plan, ok), w, F, {}, p)
<1> DEFINE ids == LiveIds(Pruned(k, w), w, TRUE)
           k0 == ReconcileWorkers(k, w, ids)
           k1 == ReconcileStranded(k0, w, ok)
           k2 == ReconcileSubscriptions(k1, w, ids, plan)
<1>1. Gone(w, ids) /\ ids \subseteq Workers
  BY LiveIdsGone DEF LiveIds
<1> HIDE DEF ids
<1>2. Sound(k0, w, F, S)
  BY ReconcileWorkersSound
<1> HIDE DEF k0
<1>3. Sound(k1, w, F, {})
  BY <1>2, ReconcileStrandedSound
<1> HIDE DEF k1
<1>4. Sound(k2, w, F, {})
  BY <1>1, <1>3, ReconcileSubscriptionsSound
<1> HIDE DEF k2
<1>5. Fit(ReconcileAssigned(k2, w), w, F, {}, p)
  BY <1>4, ReconcileAssignedFit
<1> QED BY <1>5 DEF Reconciled, k2, k1, k0, ids

(* What a step of w may do to any tab: topics are taken by w, from F; a    *)
(* released topic was let go of; only w strands topics, of S; and queued   *)
(* routes stay their writers' own.                                         *)
Outcome(w, F, S) ==
  /\ \A x \in Workers : \A t \in assigned'[x] \ assigned[x] : x = w /\ t \in F
  /\ LetsGoFirst
  /\ \A x \in Workers, t \in Topics : Stranded(x, t)' => Stranded(x, t) \/ (x = w /\ t \in S)
  /\ OwnRoutes'

\* Frames still on the links a task starts from: as before, or fewer.
Shorter(links) ==
  /\ links \in [Links -> Seq(Frame)]
  /\ \A l \in Links : Len(links[l]) <= Len(chan[l])

\* A task that is fit to commit has such an outcome.
LEMMA CommitOutcome ==
  ASSUME HInv, NEW w \in Workers, NEW k, NEW links, NEW nudges, NEW F, NEW S, NEW p,
         Fit(k, w, F, S, p), Shorter(links), Commit(w, k, links, nudges),
         phase' = [phase EXCEPT ![w] = p]
  PROVE  Outcome(w, F, S)
<1>1. k \in Task /\ TypeOK
  BY DEF Fit, Good, HInv, IInv
<1>2. /\ storage' = k.disk
      /\ pending' = [pending EXCEPT ![w] = Queued(k)]
      /\ assigned' = [assigned EXCEPT ![w] = k.asg]
      /\ chan' = Posted(k, w, links)
  BY DEF Commit
<1>3. /\ pending'[w].route = [t \in k.dr |-> k.route[t]]
      /\ \A x \in Workers \ {w} : pending'[x] = pending[x]
  BY <1>1, <1>2 DEF TypeOK, Queued
<1>4. \A x \in Workers : Started(x)' <=> IF x = w THEN p = "started" ELSE Started(x)
  BY <1>1 DEF Started, TypeOK
<1>5. \A x \in Workers : \A t \in assigned'[x] \ assigned[x] : x = w /\ t \in F
  BY <1>1, <1>2 DEF Fit, TypeOK
<1>6. LetsGoFirst
  <2> SUFFICES ASSUME NEW l \in Links, Len(chan'[l]) > Len(chan[l]),
                      chan'[l][Len(chan'[l])].kind = "ROUTE_RELEASED"
               PROVE  l[3] \notin assigned'[l[1]]
    BY DEF LetsGoFirst
  <2> DEFINE f == k.out[l[3]]
             g == [kind |-> f.kind, gen |-> f.gen]
  <2>1. links[l] \in Seq(Frame) /\ chan[l] \in Seq(Frame) /\ Len(links[l]) <= Len(chan[l])
    BY <1>1 DEF Shorter, TypeOK
  <2>2. chan'[l] = IF l[1] = w /\ f.to = l[2] /\ Started(l[2]) THEN Queue(links[l], g) ELSE links[l]
    BY <1>2 DEF Posted
  <2>3. chan'[l] # links[l]
    BY <2>1
  <2>4. l[1] = w /\ chan'[l] = Append(links[l], g)
    BY <2>2, <2>3 DEF Queue
  <2>5. chan'[l][Len(chan'[l])] = g
    BY <2>1, <2>4
  <2>6. l[3] \in Topics /\ l[1] \in Workers
    BY DEF Links
  <2>7. f.kind = "ROUTE_RELEASED"
    BY <2>5
  <2>8. l[3] \notin k.asg
    BY <2>6, <2>7 DEF Fit
  <2> QED BY <1>1, <1>2, <2>4, <2>8 DEF TypeOK
<1>7. ASSUME NEW x \in Workers, NEW t \in Topics, Stranded(x, t)'
      PROVE  Stranded(x, t) \/ (x = w /\ t \in S)
  <2>1. /\ SeenRoute(x, t)'.owner = x /\ SeenRoute(x, t)'.confirmed
        /\ Started(x)' /\ t \notin assigned'[x]
    BY <1>7 DEF Stranded
  <2>2. SeenRoute(x, t)' = IF t \in DOMAIN pending'[x].route THEN pending'[x].route[t]
                           ELSE storage'.route[t]
    <3>1. DOMAIN storage'.route = Topics
      BY <1>1, <1>2 DEF Task, StorageType
    <3> QED BY <3>1 DEF SeenRoute, Over
  <2>3. CASE x = w
    <3>1. p = "started" /\ t \notin k.asg
      BY <1>1, <1>2, <1>4, <2>1, <2>3 DEF TypeOK
    <3>2. SeenRoute(x, t)' = k.route[t]
      BY <1>2, <1>3, <2>2, <2>3, <3>1 DEF Fit
    <3> QED BY <2>1, <2>3, <3>1, <3>2 DEF Fit, Stray
  <2>4. CASE x # w
    <3>1. /\ Started(x) /\ t \notin assigned[x] /\ pending'[x] = pending[x]
      BY <1>1, <1>2, <1>3, <1>4, <2>1, <2>4 DEF TypeOK
    <3>2. SeenRoute(x, t) = IF t \in DOMAIN pending[x].route THEN pending[x].route[t]
                            ELSE storage.route[t]
      BY <1>1 DEF SeenRoute, Over, TypeOK, StorageType
    <3>3. CASE t \in DOMAIN pending[x].route
      BY <2>1, <2>2, <3>1, <3>2, <3>3 DEF Stranded
    <3>4. CASE t \notin DOMAIN pending[x].route
      <4>1. SeenRoute(x, t)' = k.disk.route[t] /\ SeenRoute(x, t) = storage.route[t]
        BY <1>2, <2>2, <3>1, <3>2, <3>4
      <4>2. k.disk.route[t] = storage.route[t]
        BY <2>1, <2>4, <4>1 DEF Fit, Own
      <4> QED BY <2>1, <3>1, <4>1, <4>2 DEF Stranded
    <3> QED BY <3>3, <3>4
  <2> QED BY <2>3, <2>4
<1>8. OwnRoutes'
  <2>1. ASSUME NEW x \in Workers, NEW t \in DOMAIN pending'[x].route
        PROVE  Own(pending'[x].route[t], x)
    <3>1. CASE x = w
      BY <1>3, <3>1 DEF Fit
    <3>2. CASE x # w
      BY <1>3, <3>2 DEF HInv, OwnRoutes
    <3> QED BY <3>1, <3>2
  <2> QED BY <2>1 DEF OwnRoutes, Own
<1> QED BY <1>5, <1>6, <1>7, <1>8 DEF Outcome

----------------------------------------------------------------------------
(* The actions.                                                            *)

\* What every step does: the property, and the part of the invariant that
\* NextInv does not cover.
Agrees == TakesWhatIsFree /\ LetsGoFirst /\ HoldsItsOwn /\ OwnRoutes'

\* What w takes, it takes because the topic is free or released to it.
MayTake(w, t) ==
  LET r == SeenRoute(w, t)
  IN \/ Free(w, t)
     \/ /\ r.owner = w /\ Reads(w, "ROUTE_RELEASED", r.from, t)
        /\ Head(chan[<<r.from, w, t>>]).gen = r.gen

\* An outcome within these bounds agrees.
LEMMA OutcomeAgrees ==
  ASSUME NEW w \in Workers, NEW F, NEW S, Outcome(w, F, S),
         \A t \in F : MayTake(w, t),
         \A t \in S : Stranded(w, t)' =>
           Stranded(w, t) \/ \E x \in Workers : Reads(w, "UNSUBSCRIBE", x, t)
  PROVE  Agrees
<1>1. TakesWhatIsFree
  BY DEF Outcome, TakesWhatIsFree, MayTake
<1>2. HoldsItsOwn
  BY DEF Outcome, HoldsItsOwn
<1> QED BY <1>1, <1>2 DEF Outcome, Agrees

\* A task that begins has done nothing.
LEMMA BeginSound ==
  ASSUME HInv, NEW w \in Workers, NEW F
  PROVE  /\ Sound(Begin(w), w, F, Stray(Begin(w), w))
         /\ \A t \in Stray(Begin(w), w) : Started(w) => Stranded(w, t)
<1> DEFINE k == Begin(w)
<1>1. k \in Good /\ k.asg = assigned[w] /\ TypeOK
  BY BeginGood DEF HInv, IInv
<1>2. /\ k.disk = storage /\ k.dr = DOMAIN pending[w].route
      /\ k.route = Over(pending[w].route, storage.route)
      /\ k.worker = Over(pending[w].worker, storage.worker)
      /\ k.out = [t \in Topics |-> NoFrame]
  BY DEF Begin
<1> HIDE DEF k
<1>3. WritesOwn(k, w)
  BY <1>1, <1>2 DEF WritesOwn, HInv, OwnRoutes, Over, TypeOK, StorageType
<1>4. Touches(k, w, F)
  BY <1>1, <1>2 DEF Touches, SeenRoute, SeenWorker
<1>5. Silent(k)
  BY <1>2 DEF Silent, NoFrame
<1>6. \A t \in Stray(k, w) : Started(w) => Stranded(w, t)
  BY <1>1, <1>2 DEF Stray, Stranded, SeenRoute
<1> QED BY <1>1, <1>3, <1>4, <1>5, <1>6 DEF Sound, k

\* The links as they are, and once a frame was read or w stopped listening.
LEMMA LinksShorter ==
  ASSUME IInv
  PROVE  /\ Shorter(chan)
         /\ \A w \in Workers : Shorter(Closed(w))
         /\ \A l \in Links : chan[l] # <<>> => Shorter(Received(l))
<1>1. chan \in [Links -> Seq(Frame)]
  BY LinksNow
<1>2. \A w \in Workers : Shorter(Closed(w))
  BY <1>1 DEF Shorter, Closed
<1>3. ASSUME NEW l \in Links, chan[l] # <<>> PROVE Shorter(Received(l))
  <2>1. Tail(chan[l]) \in Seq(Frame) /\ Len(Tail(chan[l])) <= Len(chan[l])
    BY <1>1, <1>3
  <2> QED BY <1>1, <2>1 DEF Shorter, Received
<1> QED BY <1>1, <1>2, <1>3 DEF Shorter

\* A task ending with reconcile takes what is free, and strands nothing.
LEMMA ReconcileAgrees ==
  ASSUME HInv, NEW w \in Workers, NEW k, NEW S, NEW nudges,
         Sound(k, w, FreeTopics(w), S), Reconcile(w, k, nudges),
         phase' = [phase EXCEPT ![w] = "started"]
  PROVE  Agrees
<1>1. PICK plan \in Plans, ok \in BOOLEAN : Commit(w, Reconciled(k, w, plan, ok), chan, nudges)
  BY DEF Reconcile, FlushResults
<1>2. Fit(Reconciled(k, w, plan, ok), w, FreeTopics(w), {}, "started")
  BY ReconciledFit DEF HInv, IInv
<1>3. Outcome(w, FreeTopics(w), {})
  BY <1>1, <1>2, LinksShorter, CommitOutcome DEF HInv
<1> QED BY <1>3, OutcomeAgrees DEF FreeTopics, MayTake

\* activate.
LEMMA ActivateAgrees ==
  ASSUME HInv, NEW w \in Workers, Activate(w) PROVE Agrees
<1> DEFINE F == FreeTopics(w)
           S == Stray(Begin(w), w)
           k == [Begin(w) EXCEPT !.rec.registeredAt = now]
           seen == Pruned(k, w)
           roled == RefreshRole(seen, w, LiveRecords(seen, LiveIds(seen, w, TRUE)))
           written == WriteRecord(roled, w)
           noted == Notified(written)
           announced == PutSubs(noted, [p \in subscribed[w] \X {w} |-> TRUE])
<1>1. Sound(k, w, F, S)
  <2>1. Sound(Begin(w), w, F, S) /\ now \in Nat
    BY BeginSound, LinksNow DEF HInv
  <2>2. Aside(k, Begin(w), w)
    BY <2>1 DEF Sound, Aside, Good, Task, WorkerRecord
  <2> HIDE DEF k, S
  <2> QED BY <2>1, <2>2, AsideSound
<1> HIDE DEF k, F, S
<1>2. Sound(seen, w, F, S)
  BY <1>1, PrunedAside, AsideSound
<1> HIDE DEF seen
<1>3. Sound(roled, w, F, S)
  BY <1>2, RefreshRoleAside, AsideSound DEF Sound
<1> HIDE DEF roled
<1>4. Sound(written, w, F, S)
  BY <1>3, WriteRecordAside, AsideSound DEF Sound
<1> HIDE DEF written
<1>5. Sound(noted, w, F, S)
  BY <1>4, NotifiedAside, AsideSound DEF Sound
<1> HIDE DEF noted
<1>6. Sound(announced, w, F, S)
  <2>1. subscribed[w] \X {w} \in SUBSET Pairs
    BY LinksNow DEF HInv, Pairs
  <2>2. noted \in Good
    BY <1>5 DEF Sound
  <2>3. Aside(announced, noted, w)
    BY <2>1, <2>2, PutSubsAside
  <2> QED BY <1>5, <2>3, AsideSound
<1>7. Reconcile(w, announced, nudged) /\ phase' = [phase EXCEPT ![w] = "started"]
  BY DEF Activate, noted, written, roled, seen, k
<1> HIDE DEF announced
<1> QED BY <1>6, <1>7, ReconcileAgrees DEF F

\* Steps that change no route, assignment or frame, and start no tab.
LEMMA IdleAgrees ==
  ASSUME HInv, UNCHANGED <<storage, pending, assigned, chan>>,
         \A x \in Workers : Started(x)' => Started(x)
  PROVE  Agrees
<1>1. TakesWhatIsFree /\ HoldsItsOwn
  BY DEF TakesWhatIsFree, HoldsItsOwn, Stranded, SeenRoute
<1>2. LetsGoFirst
  <2>1. \A l \in Links : Len(chan[l]) \in Nat
    BY LinksNow DEF HInv
  <2> QED BY <2>1 DEF LetsGoFirst
<1>3. OwnRoutes'
  BY DEF HInv, OwnRoutes
<1> QED BY <1>1, <1>2, <1>3 DEF Agrees

\* start and handlePageShow.
LEMMA StartAgrees ==
  ASSUME HInv, NEW w \in Workers, Start(w) \/ Resume(w) PROVE Agrees
<1>1. CASE Activate(w)
  BY <1>1, ActivateAgrees
<1>2. CASE /\ Start(w) /\ phase' = [phase EXCEPT ![w] = "suspended"]
           /\ UNCHANGED <<storage, pending, retrying, subscribed, assigned, held, me,
                          chan, nudged, now>>
  <2>1. \A x \in Workers : Started(x)' => Started(x)
    BY <1>2 DEF Started, HInv, IInv, TypeOK
  <2> QED BY <1>2, <2>1, IdleAgrees
<1> QED BY <1>1, <1>2 DEF Start, Resume

\* Releasing the subscriptions of a pausing tab keeps the task sound.
LEMMA ReleaseAllSound ==
  ASSUME NEW w \in Workers, NEW k, NEW S, Sound(k, w, Topics, S), TypeOK
  PROVE  Sound(ReleaseAll(k, w), w, Topics, S)
<1> DEFINE dropped == PutSubs(k, [p \in subscribed[w] \X {w} |-> FALSE])
           routed == {t \in subscribed[w] : k.route[t] # NoRoute}
           pruned == Pruned(dropped, w)
           seen == IF routed = {} THEN dropped ELSE pruned
           cleaned == CleanSubscribers(seen, routed, LiveIds(seen, w, FALSE))
           gone == {t \in routed : Subscribers(cleaned, t) = {}}
<1>1. subscribed[w] \in SUBSET Topics /\ routed \in SUBSET Topics /\ gone \in SUBSET Topics
  BY DEF TypeOK
<1>2. Sound(dropped, w, Topics, S)
  <2>1. subscribed[w] \X {w} \in SUBSET Pairs
    BY <1>1 DEF Pairs
  <2>2. k \in Good
    BY DEF Sound
  <2>3. Aside(dropped, k, w)
    BY <2>1, <2>2, PutSubsAside
  <2> QED BY <2>3, AsideSound
<1> HIDE DEF dropped
<1>3. Sound(pruned, w, Topics, S)
  BY <1>2, PrunedAside, AsideSound
<1> HIDE DEF pruned
<1>4. Sound(seen, w, Topics, S)
  BY <1>2, <1>3
<1> HIDE DEF seen, routed
<1>5. Sound(cleaned, w, Topics, S)
  BY <1>1, <1>4, CleanSubscribersAside, AsideSound DEF Sound
<1> HIDE DEF cleaned, gone
<1>6. Sound(DropRoutes(cleaned, gone), w, Topics, S)
  BY <1>1, <1>5, DropRoutesSound
<1> QED BY <1>6 DEF ReleaseAll, cleaned, gone, seen, routed, pruned, dropped

\* Handing off the assigned topics writes nothing another tab is confirmed by.
LEMMA HandoffWrites ==
  ASSUME NEW w \in Workers, NEW k, NEW S, Sound(k, w, Topics, S), NEW plan \in Plans
  PROVE  Handoff(k, w, plan) \in Good /\ WritesOwn(Handoff(k, w, plan), w)
<1> DEFINE pruned == Pruned(k, w)
           seen == IF k.asg = {} THEN k ELSE pruned
           mine == {t \in k.asg : k.route[t].owner = w}
           cleaned == CleanSubscribers(seen, mine, LiveIds(seen, w, FALSE) \ {w})
           moved == {t \in mine : Subscribers(cleaned, t) # {}}
           routes == [t \in moved |-> NewRoute(plan[t], w, NextGen(k.route[t]))]
           dropped == DropRoutes(cleaned, mine \ moved)
           routed == PutRoutes(dropped, routes)
           done == Send(routed, [t \in moved |-> Released(routes[t])])
<1>1. k \in Good /\ k \in Task
  BY DEF Sound, Good
<1>2. mine \in SUBSET Topics /\ moved \in SUBSET Topics /\ mine \ moved \in SUBSET Topics
  BY <1>1 DEF Task
<1>3. Sound(pruned, w, Topics, S)
  BY PrunedAside, AsideSound
<1> HIDE DEF pruned
<1>4. Sound(seen, w, Topics, S)
  BY <1>3
<1> HIDE DEF seen
<1>5. Sound(cleaned, w, Topics, S)
  BY <1>2, <1>4, CleanSubscribersAside, AsideSound DEF Sound
<1> HIDE DEF cleaned
<1>6. Sound(dropped, w, Topics, S)
  BY <1>2, <1>5, DropRoutesSound
<1>7. Partial(routes, Topics, RouteEntry)
  <2>1. ASSUME NEW t \in moved PROVE NewRoute(plan[t], w, NextGen(k.route[t])) \in RouteEntry
    <3>1. plan[t] \in Workers /\ k.route[t] \in RouteEntry
      BY <1>1, <1>2 DEF Plans, Task
    <3> QED BY <3>1, NewRouteType
  <2> QED BY <1>2, <2>1 DEF Partial
<1>8. \A t \in DOMAIN routes : ~routes[t].confirmed /\ Own(routes[t], w)
  BY DEF NewRoute, Own
<1>9. Sound(routed, w, Topics, S)
  <2> HIDE DEF routes, dropped
  <2> QED BY <1>6, <1>7, <1>8, PutRoutesSound DEF Partial
<1>10. Handoff(k, w, plan) = done
  BY DEF Handoff, routed, dropped, cleaned, seen, pruned
<1>11. done \in Good
  BY <1>1, <1>10, HandoffGood
<1>12. done.route = routed.route /\ done.dr = routed.dr /\ done.disk = routed.disk
  BY <1>9 DEF Send, Sound, Good, Task
<1> HIDE DEF done, routed
<1> QED BY <1>9, <1>10, <1>11, <1>12 DEF Sound, WritesOwn

\* pause: nothing is held afterwards, whether its flush succeeds or not.
LEMMA PauseAgrees ==
  ASSUME HInv, NEW w \in Workers, NEW ok \in BOOLEAN, NEW p \in {"suspended", "stopped"},
         Pause(w, ok), phase' = [phase EXCEPT ![w] = p]
  PROVE  Agrees
<1> DEFINE released == ReleaseAll(Begin(w), w)
<1>1. PICK plan \in Plans :
        Commit(w, Discarded(Notified(Flushed(PutWorkers(Cleared(Handoff(released, w, plan)),
                                                        [x \in {w} |-> NoRecord]), ok))),
               Closed(w), nudged \ {w})
  BY DEF Pause
<1> DEFINE given == Handoff(released, w, plan)
           handed == Cleared(given)
           removed == PutWorkers(handed, [x \in {w} |-> NoRecord])
           flushed == Flushed(removed, ok)
           done == Discarded(Notified(flushed))
<1>2. Sound(released, w, Topics, Stray(Begin(w), w))
  BY BeginSound, ReleaseAllSound DEF HInv, IInv
<1> HIDE DEF released
<1>3. given \in Good /\ WritesOwn(given, w)
  BY <1>2, HandoffWrites
<1> HIDE DEF given
<1>4. handed \in Good /\ WritesOwn(handed, w) /\ handed.asg = {}
  BY <1>3 DEF Cleared, WritesOwn, Good, Task
<1> HIDE DEF handed
<1>5. removed \in Good /\ WritesOwn(removed, w) /\ removed.asg = {}
  <2>1. Partial([x \in {w} |-> NoRecord], Workers, WorkerEntry)
    BY DEF Partial, WorkerEntry
  <2>2. removed \in Good /\ removed.asg = {}
    BY <1>4, <2>1, PutWorkersQuiet DEF Good, Quiet
  <2>3. removed.route = handed.route /\ removed.dr = handed.dr /\ removed.disk = handed.disk
    BY <1>4 DEF PutWorkers, Good, Task
  <2> QED BY <1>4, <2>2, <2>3 DEF WritesOwn
<1> HIDE DEF removed
<1>6. flushed \in Good /\ WritesOwn(flushed, w) /\ flushed.asg = {}
  <2>1. flushed \in Good /\ flushed.asg = {}
    BY <1>5, FlushedQuiet DEF Good, Quiet
  <2>2. CASE ~ok
    BY <1>5, <2>2 DEF Flushed
  <2>3. CASE ok
    <3>1. flushed.route = removed.route /\ flushed.dr = {} /\ flushed.disk.route = removed.route
      BY <1>5, <2>3 DEF Flushed, Good, Task
    <3> QED BY <1>5, <2>1, <3>1 DEF WritesOwn
  <2> QED BY <2>1, <2>2, <2>3
<1> HIDE DEF flushed
<1>7. done \in Good /\ done.asg = {} /\ done.dr = {} /\ done.disk = flushed.disk
  BY <1>6 DEF Discarded, Notified, Good, Task
<1>8. Commit(w, done, Closed(w), nudged \ {w})
  BY <1>1 DEF flushed, removed, handed, given, released
<1> HIDE DEF done
<1>9. Fit(done, w, {}, {}, p)
  BY <1>6, <1>7 DEF Fit, WritesOwn
<1>10. Outcome(w, {}, {})
  BY <1>8, <1>9, LinksShorter, CommitOutcome DEF HInv
<1> QED BY <1>10, OutcomeAgrees

\* handlePageHide.
LEMMA PageHideAgrees ==
  ASSUME HInv, NEW w \in Workers, NEW ok \in BOOLEAN, PageHide(w, ok) PROVE Agrees
BY PauseAgrees DEF PageHide

\* stop, from a running tab or a hidden one.
LEMMA StopAgrees ==
  ASSUME HInv, NEW w \in Workers, NEW ok \in BOOLEAN, Stop(w, ok) PROVE Agrees
<1>1. phase' = [phase EXCEPT ![w] = "stopped"]
  BY DEF Stop
<1>2. CASE Started(w) /\ Pause(w, ok)
  BY <1>1, <1>2, PauseAgrees
<1>3. CASE ~Started(w) /\ Commit(w, Flushed(Begin(w), ok), chan, nudged)
  <2> DEFINE S == Stray(Begin(w), w)
  <2>1. Sound(Flushed(Begin(w), ok), w, {}, S)
    BY BeginSound, FlushedSound
  <2>2. Fit(Flushed(Begin(w), ok), w, {}, S, "stopped")
    BY <2>1, SoundFit
  <2>3. Outcome(w, {}, S)
    BY <1>1, <1>3, <2>2, LinksShorter, CommitOutcome DEF HInv
  <2>4. ~Started(w)'
    BY <1>1 DEF Started, HInv, IInv, TypeOK
  <2>5. \A t \in S : ~Stranded(w, t)'
    BY <2>4 DEF Stranded
  <2> QED BY <2>3, <2>5, OutcomeAgrees
<1> QED BY <1>2, <1>3 DEF Stop

\* The death of a tab.
LEMMA CrashAgrees == ASSUME HInv, NEW w \in Workers, Crash(w) PROVE Agrees
<1>1. \A x \in Workers : Started(x)' <=> Started(x) /\ x # w
  BY DEF Crash, Started, HInv, IInv, TypeOK
<1>2. /\ \A x \in Workers \ {w} : pending'[x] = pending[x] /\ assigned'[x] = assigned[x]
      /\ pending'[w] = NoWrites /\ assigned'[w] = {}
  BY DEF Crash, HInv, IInv, TypeOK
<1>3. TakesWhatIsFree
  BY <1>2 DEF TakesWhatIsFree
<1>4. LetsGoFirst
  <2>1. \A l \in Links : Len(chan'[l]) <= Len(chan[l]) /\ Len(chan'[l]) \in Nat /\ Len(chan[l]) \in Nat
    BY LinksShorter DEF Shorter, Crash, HInv, IInv, TypeOK
  <2> QED BY <2>1 DEF LetsGoFirst
<1>5. HoldsItsOwn
  <2>1. ASSUME NEW x \in Workers, NEW t \in Topics, Stranded(x, t)' PROVE Stranded(x, t)
    <3>1. x # w
      BY <1>1, <2>1 DEF Stranded
    <3>2. SeenRoute(x, t)' = SeenRoute(x, t)
      BY <1>2, <3>1 DEF SeenRoute, Crash
    <3> QED BY <1>1, <1>2, <2>1, <3>1, <3>2 DEF Stranded
  <2> QED BY <2>1 DEF HoldsItsOwn
<1>6. OwnRoutes'
  <2>1. DOMAIN NoWrites.route = {}
    BY DEF NoWrites
  <2> QED BY <1>2, <2>1 DEF HInv, OwnRoutes
<1> QED BY <1>3, <1>4, <1>5, <1>6 DEF Agrees

\* A handler that began soundly and took only free topics agrees.
LEMMA HandlerAgrees ==
  ASSUME HInv, NEW w \in Workers, NEW k, NEW links, NEW nudges, NEW F,
         Fit(k, w, F, Stray(Begin(w), w), phase[w]), \A t \in F : MayTake(w, t),
         Shorter(links), Commit(w, k, links, nudges), UNCHANGED phase
  PROVE  Agrees
<1> DEFINE S == Stray(Begin(w), w)
<1>1. PICK p : p = phase[w]
  OBVIOUS
<1>2. phase' = [phase EXCEPT ![w] = p]
  BY <1>1 DEF HInv, IInv, TypeOK
<1>3. Outcome(w, F, S)
  BY <1>1, <1>2, CommitOutcome
<1>4. \A t \in S : Stranded(w, t)' => Stranded(w, t)
  BY BeginSound DEF Stranded, Started
<1> QED BY <1>3, <1>4, OutcomeAgrees

\* subscribe: only an orphaned topic is elected for.
LEMMA SubscribeAgrees ==
  ASSUME HInv, NEW w \in Workers, NEW t \in Topics, Subscribe(w, t) PROVE Agrees
<1> DEFINE F == FreeTopics(w)
           S == Stray(Begin(w), w)
           put == PutSubs(Begin(w), [p \in {<<t, w>>} |-> TRUE])
           k == Pruned(put, w)
           ids == LiveIds(k, w, TRUE)
           orphaned == {t} \ {u \in Topics : k.route[u].owner \in ids}
<1>1. CASE Started(w)
  <2>1. PICK plan \in Plans :
          Commit(w, UpdateLoad(Elect(k, w, orphaned, plan), w, TRUE), chan, nudged)
    BY <1>1 DEF Subscribe
  <2> DEFINE elected == Elect(k, w, orphaned, plan)
             done == UpdateLoad(elected, w, TRUE)
  <2>2. Sound(put, w, F, S)
    <3>1. Sound(Begin(w), w, F, S)
      BY BeginSound
    <3>2. {<<t, w>>} \in SUBSET Pairs /\ Begin(w) \in Good
      BY <3>1 DEF Pairs, Sound
    <3>3. Aside(put, Begin(w), w)
      BY <3>2, PutSubsAside
    <3> QED BY <3>1, <3>3, AsideSound
  <2> HIDE DEF put, S
  <2>3. Sound(k, w, F, S) /\ Gone(w, ids)
    BY <2>2, PrunedAside, AsideSound, LiveIdsGone
  <2> HIDE DEF k, ids
  <2>4. orphaned \in SUBSET Topics /\ orphaned \subseteq F
    BY <2>3, OrphanFree
  <2> HIDE DEF orphaned
  <2>5. Sound(elected, w, F, S)
    BY <2>3, <2>4, ElectSound
  <2> HIDE DEF elected
  <2>6. Sound(done, w, F, S)
    BY <2>5, UpdateLoadAside, AsideSound DEF Sound
  <2>7. Commit(w, done, chan, nudged) /\ UNCHANGED phase
    BY <2>1 DEF Subscribe, done, elected, orphaned, ids, k, put
  <2> HIDE DEF done
  <2>8. Fit(done, w, F, S, phase[w])
    BY <2>6, SoundFit
  <2>9. \A u \in F : MayTake(w, u)
    BY DEF FreeTopics, MayTake
  <2> QED BY <2>7, <2>8, <2>9, LinksShorter, HandlerAgrees DEF S, HInv
<1>2. CASE ~Started(w)
  BY <1>2, IdleAgrees DEF Subscribe, Started
<1> QED BY <1>1, <1>2

\* An accepted UNSUBSCRIBE strands at most routes still confirmed to w.
LEMMA LeaveSound ==
  ASSUME NEW w \in Workers, NEW k, NEW F, NEW S, NEW S1, Sound(k, w, F, S), S \subseteq S1,
         NEW topics \in SUBSET Topics,
         \A t \in topics : t \in S1 \/ k.route[t].owner # w
  PROVE  Sound(Leave(k, topics), w, F, S1)
<1> DEFINE k1 == Leave(k, topics)
<1>1. k \in Good /\ k \in Task
  BY DEF Sound, Good
<1>2. k1 \in Good
  BY <1>1, LeaveGood
<1>3. /\ k1.route = k.route /\ k1.dr = k.dr /\ k1.disk = k.disk /\ k1.worker = k.worker
      /\ k1.asg = k.asg \ topics /\ k1.out = k.out
  BY <1>1 DEF Leave, Task
<1> HIDE DEF k1
<1>4. WritesOwn(k1, w) /\ Silent(k1)
  BY <1>3 DEF Sound, WritesOwn, Silent
<1>5. Touches(k1, w, F)
  BY <1>3 DEF Sound, Touches
<1>6. Stray(k1, w) \subseteq S1
  BY <1>3 DEF Sound, Stray
<1> QED BY <1>2, <1>4, <1>5, <1>6 DEF Sound, k1

\* unsubscribe takes nothing, and removes the route of what it lets go of.
LEMMA UnsubscribeAgrees ==
  ASSUME HInv, NEW w \in Workers, NEW t \in Topics, Unsubscribe(w, t) PROVE Agrees
<1> DEFINE S == Stray(Begin(w), w)
           dropped == PutSubs(Begin(w), [p \in {<<t, w>>} |-> FALSE])
           owner == dropped.route[t].owner
           seen == Pruned(dropped, w)
           cleaned == CleanSubscribers(seen, {t}, LiveIds(seen, w, Started(w)))
           gone == DropRoutes(cleaned, {t})
           let == Leave(gone, {t})
           left == UpdateLoad(let, w, Started(w))
           frames == [u \in {t} |-> Control("UNSUBSCRIBE", owner)]
           asked == Send(gone, frames)
           Ok(k) == Sound(k, w, Topics, S) /\ k.asg \subseteq assigned[w]
<1>1. Ok(dropped)
  <2>1. Sound(Begin(w), w, Topics, S) /\ Begin(w).asg = assigned[w]
    BY BeginSound, BeginGood DEF HInv, IInv
  <2>2. {<<t, w>>} \in SUBSET Pairs /\ Begin(w) \in Good
    BY <2>1 DEF Pairs, Sound
  <2>3. Aside(dropped, Begin(w), w)
    BY <2>2, PutSubsAside
  <2> QED BY <2>1, <2>3, AsideSound DEF Aside
<1>2. Ok(seen)
  <2> HIDE DEF dropped
  <2>1. Aside(seen, dropped, w)
    BY <1>1, PrunedAside
  <2> QED BY <1>1, <2>1, AsideSound DEF Aside
<1>3. Ok(cleaned)
  <2> HIDE DEF seen
  <2>1. Aside(cleaned, seen, w)
    BY <1>2, CleanSubscribersAside DEF Sound
  <2> QED BY <1>2, <2>1, AsideSound DEF Aside
<1>4. Ok(gone) /\ gone.route[t] = NoRoute
  <2> HIDE DEF cleaned
  <2>1. Sound(gone, w, Topics, S)
    BY <1>3, DropRoutesSound
  <2>2. gone.asg = cleaned.asg /\ gone.route[t] = NoRoute
    BY <1>3 DEF DropRoutes, PutRoutes, Over, Sound, Good, Task
  <2> QED BY <1>3, <2>1, <2>2
<1>5. Ok(let)
  <2> HIDE DEF gone
  <2>1. gone.route[t].owner # w
    BY <1>4, WorkersAssumption DEF NoRoute, NoWorker
  <2>2. Sound(let, w, Topics, S)
    BY <1>4, <2>1, LeaveSound
  <2>3. let.asg = gone.asg \ {t}
    BY <1>4 DEF Leave, Sound, Good, Task
  <2> QED BY <1>4, <2>2, <2>3
<1>6. Ok(left)
  <2> HIDE DEF let
  <2>1. Started(w) \in BOOLEAN
    BY DEF Started
  <2>2. Aside(left, let, w)
    <3>1. PICK runs \in BOOLEAN : runs = Started(w)
      BY <2>1
    <3>2. Aside(UpdateLoad(let, w, runs), let, w)
      BY <1>5, UpdateLoadAside DEF Sound
    <3> QED BY <3>1, <3>2
  <2> QED BY <1>5, <2>2, AsideSound DEF Aside
<1>7. ASSUME dropped.route[t] # NoRoute PROVE Ok(asked)
  <2> HIDE DEF gone
  <2>1. owner \in Workers
    BY <1>1, <1>7 DEF Sound, Good, Task, RouteEntry, Route
  <2>2. Partial(frames, Topics, Outgoing) /\ \A u \in DOMAIN frames : frames[u].kind # "ROUTE_RELEASED"
    BY <2>1 DEF Partial, Control, Outgoing
  <2>3. asked.asg = gone.asg
    BY <1>4 DEF Send, Sound, Good, Task
  <2> HIDE DEF frames
  <2>4. Sound(asked, w, Topics, S)
    BY <1>4, <2>2, SendSound
  <2> QED BY <1>4, <2>3, <2>4
<1>8. PICK done : /\ Commit(w, done, chan, nudged)
                  /\ \/ done = dropped
                     \/ done = cleaned
                     \/ done = left
                     \/ dropped.route[t] # NoRoute /\ done = asked
                     \/ done = gone
  BY DEF Unsubscribe
<1>9. Ok(done)
  <2> HIDE DEF dropped, cleaned, left, asked, gone, Ok
  <2> QED BY <1>1, <1>3, <1>4, <1>6, <1>7, <1>8
<1>10. Fit(done, w, {}, S, phase[w])
  <2>1. Fit(done, w, Topics, S, phase[w])
    BY <1>9, SoundFit
  <2> QED BY <1>9, <2>1 DEF Fit
<1>11. UNCHANGED phase
  BY DEF Unsubscribe
<1>12. Shorter(chan) /\ \A u \in {} : MayTake(w, u)
  BY LinksShorter DEF HInv
<1> HIDE DEF dropped, cleaned, left, asked, gone, Ok
<1> QED BY <1>8, <1>10, <1>11, <1>12, HandlerAgrees

\* A task that only changes the tab's own record agrees.
LEMMA RecordSound ==
  ASSUME HInv, NEW w \in Workers, NEW F
  PROVE  /\ Sound([Begin(w) EXCEPT !.rec.healthy = ~@], w, F, Stray(Begin(w), w))
         /\ Sound([Begin(w) EXCEPT !.rec.visible = ~@], w, F, Stray(Begin(w), w))
<1>1. Sound(Begin(w), w, F, Stray(Begin(w), w))
  BY BeginSound
<1>2. /\ Aside([Begin(w) EXCEPT !.rec.healthy = ~@], Begin(w), w)
      /\ Aside([Begin(w) EXCEPT !.rec.visible = ~@], Begin(w), w)
  BY <1>1 DEF Sound, Aside, Good, Task, WorkerRecord
<1> QED BY <1>1, <1>2, AsideSound

\* setStatus.
LEMMA SetStatusAgrees == ASSUME HInv, NEW w \in Workers, SetStatus(w) PROVE Agrees
<1> DEFINE S == Stray(Begin(w), w)
           k == [Begin(w) EXCEPT !.rec.healthy = ~@]
           written == WriteRecord(k, w)
           noted == Notified(written)
<1>1. Sound(k, w, {}, S)
  BY RecordSound
<1>2. Sound(noted, w, {}, S)
  <2> HIDE DEF k
  <2>1. Sound(written, w, {}, S)
    BY <1>1, WriteRecordAside, AsideSound DEF Sound
  <2> HIDE DEF written
  <2> QED BY <2>1, NotifiedAside, AsideSound DEF Sound
<1>3. PICK done : (done = noted \/ done = k) /\ Commit(w, done, chan, nudged)
  BY DEF SetStatus
<1>4. Fit(done, w, {}, S, phase[w])
  BY <1>1, <1>2, <1>3, SoundFit
<1>5. Shorter(chan) /\ UNCHANGED phase /\ \A u \in {} : MayTake(w, u)
  BY LinksShorter DEF SetStatus, HInv
<1> HIDE DEF k, noted
<1> QED BY <1>3, <1>4, <1>5, HandlerAgrees

\* handleVisibilityChange.
LEMMA VisibilityChangeAgrees ==
  ASSUME HInv, NEW w \in Workers, VisibilityChange(w) PROVE Agrees
<1> DEFINE F == FreeTopics(w)
           S == Stray(Begin(w), w)
           k == [Begin(w) EXCEPT !.rec.visible = ~@]
           written == WriteRecord(k, w)
           noted == Notified(written)
<1>1. CASE Started(w) /\ Reconcile(w, noted, nudged)
  <2>1. Sound(k, w, F, S)
    BY RecordSound
  <2> HIDE DEF k
  <2>2. Sound(written, w, F, S)
    BY <2>1, WriteRecordAside, AsideSound DEF Sound
  <2> HIDE DEF written
  <2>3. Sound(noted, w, F, S)
    BY <2>2, NotifiedAside, AsideSound DEF Sound
  <2>4. phase' = [phase EXCEPT ![w] = "started"]
    BY <1>1 DEF VisibilityChange, Started, HInv, IInv, TypeOK
  <2> HIDE DEF noted
  <2> QED BY <1>1, <2>3, <2>4, ReconcileAgrees
<1>2. CASE ~Started(w) /\ Commit(w, k, chan, nudged)
  <2>1. Sound(k, w, {}, S)
    BY RecordSound
  <2>2. Fit(k, w, {}, S, phase[w])
    BY <2>1, SoundFit
  <2>3. Shorter(chan) /\ UNCHANGED phase /\ \A u \in {} : MayTake(w, u)
    BY LinksShorter DEF VisibilityChange, HInv
  <2> HIDE DEF k
  <2> QED BY <1>2, <2>2, <2>3, HandlerAgrees
<1> QED BY <1>1, <1>2 DEF VisibilityChange

\* The heartbeat.
LEMMA HeartbeatAgrees == ASSUME HInv, NEW w \in Workers, Heartbeat(w) PROVE Agrees
<1>1. Sound(Begin(w), w, FreeTopics(w), Stray(Begin(w), w))
  BY BeginSound
<1>2. Sound(WriteRecord(Begin(w), w), w, FreeTopics(w), Stray(Begin(w), w))
  BY <1>1, WriteRecordAside, AsideSound DEF Sound
<1>3. phase' = [phase EXCEPT ![w] = "started"]
  BY DEF Heartbeat, Started, HInv, IInv, TypeOK
<1> QED BY <1>2, <1>3, ReconcileAgrees DEF Heartbeat

\* A REGISTRY frame.
LEMMA RegistryAgrees == ASSUME HInv, NEW w \in Workers, Registry(w) PROVE Agrees
<1>1. Sound(Begin(w), w, FreeTopics(w), Stray(Begin(w), w))
  BY BeginSound
<1>2. Started(w)
  BY LinksNow DEF Registry, HInv
<1>3. phase' = [phase EXCEPT ![w] = "started"]
  BY <1>2 DEF Registry, Started, HInv, IInv, TypeOK
<1> QED BY <1>1, <1>3, ReconcileAgrees DEF Registry

\* Taking one topic of F and publishing the load.
LEMMA TakeOneSound ==
  ASSUME NEW w \in Workers, NEW k, NEW F, NEW S, Sound(k, w, F, S), NEW t \in F \cap Topics
  PROVE  Sound(UpdateLoad(Take(k, w, {t}), w, TRUE), w, F, S)
<1>1. Sound(Take(k, w, {t}), w, F, S)
  BY TakeSound
<1> QED BY <1>1, UpdateLoadAside, AsideSound DEF Sound

\* Handling UNSUBSCRIBE: the topic may stay confirmed to w, and is let go of
\* before it is released.
LEMMA OnUnsubscribeFit ==
  ASSUME NEW w \in Workers, NEW k, NEW F, NEW S, NEW p, Sound(k, w, F, S), NEW t \in Topics
  PROVE  Fit(OnUnsubscribe(k, w, t), w, F, S \cup {t}, p)
<1> DEFINE left == Leave(k, {t})
           freed == {u \in {t} : k.route[u].from = w}
           frames == [u \in freed |-> Released(k.route[u])]
           sent == Send(left, frames)
           k1 == OnUnsubscribe(k, w, t)
<1>1. Sound(left, w, F, S \cup {t}) /\ t \notin left.asg
  <2>1. Sound(left, w, F, S \cup {t})
    BY LeaveSound
  <2> QED BY <2>1 DEF Leave, Sound, Good, Task
<1>2. Partial(frames, Topics, Outgoing)
  <2>1. k.route[t] \in RouteEntry
    BY DEF Sound, Good, Task
  <2>2. \A u \in freed : Released(k.route[u]) \in Outgoing
    BY <2>1, ReleasedType
  <2> QED BY <2>2 DEF Partial
<1> HIDE DEF left
<1>3. /\ sent \in Good
      /\ sent.route = left.route /\ sent.dr = left.dr /\ sent.disk = left.disk
      /\ sent.asg = left.asg
      /\ sent.out = [u \in Topics |-> IF u \in freed THEN frames[u] ELSE left.out[u]]
  <2>1. left \in Good /\ left \in Task
    BY <1>1 DEF Sound, Good
  <2>2. sent \in Good
    BY <1>2, <2>1, SendQuiet DEF Good, Quiet
  <2> QED BY <2>1, <2>2 DEF Send, Over, Task
<1> HIDE DEF sent
<1>4. Aside(UpdateLoad(sent, w, TRUE), sent, w)
  BY <1>3, UpdateLoadAside
<1>5. k1 = UpdateLoad(sent, w, TRUE)
  BY DEF OnUnsubscribe, sent, left
<1> HIDE DEF k1
<1>6. /\ k1 \in Good
      /\ k1.route = left.route /\ k1.dr = left.dr /\ k1.disk = left.disk
      /\ k1.asg = left.asg
      /\ \A u \in Topics \ {t} : k1.out[u] = left.out[u]
  BY <1>3, <1>4, <1>5 DEF Aside
<1> HIDE DEF frames, freed
<1>7. Fit(left, w, F, S \cup {t}, p)
  BY <1>1, SoundFit
<1> QED BY <1>1, <1>6, <1>7 DEF Fit, Stray, k1

\* handleMessage.
LEMMA DeliverAgrees ==
  ASSUME HInv, NEW x \in Workers, NEW w \in Workers, NEW t \in Topics, Deliver(x, w, t)
  PROVE  Agrees
<1> DEFINE link == <<x, w, t>>
           f == Head(chan[link])
           k == Begin(w)
           S == Stray(k, w)
           F == {u \in Topics : MayTake(w, u)}
<1>1. link \in Links /\ chan[link] # <<>> /\ chan[link] \in Seq(Frame) /\ chan \in [Links -> Seq(Frame)]
  BY LinksNow DEF HInv, Deliver, Links
<1>2. Started(w) /\ UNCHANGED phase
  BY <1>1, LinksNow DEF HInv, Deliver
<1>3. f.kind \in {"SUBSCRIBE", "UNSUBSCRIBE", "ROUTE_RELEASED"}
  <2>1. f \in Frame
    BY <1>1
  <2> QED BY <2>1 DEF Frame
<1>4. Shorter(Received(link))
  BY <1>1, LinksShorter DEF HInv
<1>5. Sound(k, w, F, S) /\ \A u \in S : Stranded(w, u)
  BY <1>2, BeginSound
<1>6. k.route[t] = SeenRoute(w, t)
  BY DEF Begin, SeenRoute
<1>7. ASSUME NEW done, Commit(w, done, Received(link), nudged)
      PROVE  chan'[link] = Tail(chan[link])
  <2>1. chan' = Posted(done, w, Received(link))
    BY <1>7 DEF Commit
  <2>2. x # w
    BY <1>1 DEF Links
  <2> QED BY <1>1, <2>1, <2>2 DEF Posted, Received
<1>8. \A u \in F : MayTake(w, u)
  OBVIOUS
<1> HIDE DEF S
<1>9. CASE f.kind = "SUBSCRIBE"
  <2> DEFINE done == OnSubscribe(k, w, t)
  <2>1. Commit(w, done, Received(link), nudged)
    BY <1>9 DEF Deliver
  <2>2. Sound(done, w, F, S)
    <3>1. CASE AcceptsSubscribe(k.route[t], w)
      <4>1. t \in F
        BY <1>6, <3>1 DEF AcceptsSubscribe, MayTake, Free
      <4> HIDE DEF k, F
      <4> QED BY <1>5, <3>1, <4>1, TakeOneSound DEF OnSubscribe
    <3>2. CASE ~AcceptsSubscribe(k.route[t], w)
      BY <1>5, <3>2 DEF OnSubscribe
    <3> QED BY <3>1, <3>2
  <2> HIDE DEF done, F
  <2>3. Fit(done, w, F, S, phase[w])
    BY <2>2, SoundFit
  <2> QED BY <1>2, <1>4, <1>8, <2>1, <2>3, HandlerAgrees DEF S
<1>10. CASE f.kind = "ROUTE_RELEASED"
  <2> DEFINE done == OnRouteReleased(k, w, x, t, f.gen)
  <2>1. Commit(w, done, Received(link), nudged)
    BY <1>10 DEF Deliver
  <2>2. Sound(done, w, F, S)
    <3>1. CASE AcceptsRelease(k.route[t], w, x, f.gen)
      <4>1. Reads(w, "ROUTE_RELEASED", x, t)
        BY <1>1, <1>7, <1>10, <2>1 DEF Reads
      <4>2. t \in F
        BY <1>6, <3>1, <4>1 DEF AcceptsRelease, MayTake
      <4> HIDE DEF k, F
      <4> QED BY <1>5, <3>1, <4>2, TakeOneSound DEF OnRouteReleased
    <3>2. CASE ~AcceptsRelease(k.route[t], w, x, f.gen)
      BY <1>5, <3>2 DEF OnRouteReleased
    <3> QED BY <3>1, <3>2
  <2> HIDE DEF done, F
  <2>3. Fit(done, w, F, S, phase[w])
    BY <2>2, SoundFit
  <2> QED BY <1>2, <1>4, <1>8, <2>1, <2>3, HandlerAgrees DEF S
<1>11. CASE f.kind = "UNSUBSCRIBE"
  <2> DEFINE done == OnUnsubscribe(k, w, t)
             p == phase[w]
  <2>1. Commit(w, done, Received(link), nudged)
    BY <1>11 DEF Deliver
  <2>2. Reads(w, "UNSUBSCRIBE", x, t)
    BY <1>1, <1>7, <1>11, <2>1 DEF Reads
  <2> HIDE DEF k
  <2>3. Fit(done, w, F, S \cup {t}, p)
    BY <1>5, OnUnsubscribeFit
  <2>4. phase' = [phase EXCEPT ![w] = p]
    BY <1>2 DEF HInv, IInv, TypeOK
  <2> HIDE DEF done, p, F
  <2>5. Outcome(w, F, S \cup {t})
    BY <1>4, <2>1, <2>3, <2>4, CommitOutcome
  <2> QED BY <1>5, <1>8, <2>2, <2>5, OutcomeAgrees
<1> QED BY <1>3, <1>9, <1>10, <1>11

\* A queued write reaches storage: it is confirmed to its writer or to nobody.
LEMMA FlushAgrees == ASSUME HInv, NEW w \in Workers, Flush(w) PROVE Agrees
<1>1. /\ pending'[w] = NoWrites
      /\ \A x \in Workers \ {w} : pending'[x] = pending[x]
  BY DEF Flush, HInv, IInv, TypeOK
<1>2. UNCHANGED <<assigned, chan, phase>>
  BY DEF Flush
<1>3. TakesWhatIsFree
  BY <1>2 DEF TakesWhatIsFree
<1>4. LetsGoFirst
  <2>1. \A l \in Links : Len(chan[l]) \in Nat
    BY LinksNow DEF HInv
  <2> QED BY <1>2, <2>1 DEF LetsGoFirst
<1>5. ASSUME NEW x \in Workers, NEW t \in Topics, Stranded(x, t)' PROVE Stranded(x, t)
  <2>1. /\ SeenRoute(x, t)'.owner = x /\ SeenRoute(x, t)'.confirmed
        /\ Started(x) /\ t \notin assigned[x]
    BY <1>2, <1>5 DEF Stranded, Started
  <2>2. storage'.route = Over(pending[w].route, storage.route)
        /\ storage.route \in [Topics -> RouteEntry]
    BY DEF Flush, HInv, IInv, TypeOK, StorageType
  <2>3. storage'.route[t] = IF t \in DOMAIN pending[w].route THEN pending[w].route[t]
                            ELSE storage.route[t]
    BY <2>2 DEF Over
  <2>4. /\ SeenRoute(x, t) = IF t \in DOMAIN pending[x].route THEN pending[x].route[t]
                             ELSE storage.route[t]
        /\ SeenRoute(x, t)' = IF t \in DOMAIN pending'[x].route THEN pending'[x].route[t]
                              ELSE storage'.route[t]
    BY <2>2 DEF SeenRoute, Over
  <2>5. SeenRoute(x, t)' = SeenRoute(x, t)
    <3>1. CASE x = w
      <4>1. DOMAIN pending'[x].route = {}
        BY <1>1, <3>1 DEF NoWrites
      <4> QED BY <2>3, <2>4, <3>1, <4>1
    <3>2. CASE x # w
      <4>1. pending'[x] = pending[x]
        BY <1>1, <3>2
      <4>2. CASE t \in DOMAIN pending[x].route
        BY <2>4, <4>1, <4>2
      <4>3. CASE t \notin DOMAIN pending[x].route /\ t \in DOMAIN pending[w].route
        <5>1. SeenRoute(x, t)' = pending[w].route[t] /\ Own(pending[w].route[t], w)
          BY <2>3, <2>4, <4>1, <4>3 DEF HInv, OwnRoutes
        <5> QED BY <2>1, <3>2, <5>1 DEF Own
      <4>4. CASE t \notin DOMAIN pending[x].route /\ t \notin DOMAIN pending[w].route
        BY <2>3, <2>4, <4>1, <4>4
      <4> QED BY <4>2, <4>3, <4>4
    <3> QED BY <3>1, <3>2
  <2> QED BY <2>1, <2>5 DEF Stranded
<1>6. OwnRoutes'
  <2>1. DOMAIN NoWrites.route = {}
    BY DEF NoWrites
  <2> QED BY <1>1, <2>1 DEF HInv, OwnRoutes
<1> QED BY <1>3, <1>4, <1>5, <1>6 DEF Agrees, HoldsItsOwn

\* A verdict on a record or a route confirms nothing.
LEMMA VerdictAgrees ==
  ASSUME HInv, UNCHANGED <<pending, assigned, chan, phase>>,
         \A t \in Topics : /\ storage'.route[t].owner = storage.route[t].owner
                           /\ storage'.route[t].confirmed = storage.route[t].confirmed,
         storage' \in StorageType
  PROVE  Agrees
<1>1. TakesWhatIsFree
  BY DEF TakesWhatIsFree
<1>2. LetsGoFirst
  <2>1. \A l \in Links : Len(chan[l]) \in Nat
    BY LinksNow DEF HInv
  <2> QED BY <2>1 DEF LetsGoFirst
<1>3. ASSUME NEW x \in Workers, NEW t \in Topics, Stranded(x, t)' PROVE Stranded(x, t)
  <2>1. /\ SeenRoute(x, t) = IF t \in DOMAIN pending[x].route THEN pending[x].route[t]
                             ELSE storage.route[t]
        /\ SeenRoute(x, t)' = IF t \in DOMAIN pending[x].route THEN pending[x].route[t]
                              ELSE storage'.route[t]
    BY DEF SeenRoute, Over, HInv, IInv, TypeOK, StorageType
  <2> QED BY <1>3, <2>1 DEF Stranded, Started
<1>4. OwnRoutes'
  BY DEF HInv, OwnRoutes
<1> QED BY <1>1, <1>2, <1>3, <1>4 DEF Agrees, HoldsItsOwn

\* A worker record expires.
LEMMA ExpireAgrees == ASSUME HInv, NEW w \in Workers, Expire(w) PROVE Agrees
<1>1. storage' \in StorageType
  BY ExpireInv DEF HInv, IInv, TypeOK
<1>2. storage'.route = storage.route
  BY DEF Expire, HInv, IInv, TypeOK, StorageType
<1> QED BY <1>1, <1>2, VerdictAgrees DEF Expire

\* A route ages.
LEMMA AgeRouteAgrees == ASSUME HInv, NEW t \in Topics, AgeRoute(t) PROVE Agrees
<1>1. storage' \in StorageType
  BY AgeRouteInv DEF HInv, IInv, TypeOK
<1>2. /\ storage.route[t] \in Route
      /\ storage'.route = [storage.route EXCEPT ![t] = [storage.route[t] EXCEPT !.aged = TRUE]]
      /\ storage.route \in [Topics -> RouteEntry]
  BY DEF AgeRoute, HInv, IInv, TypeOK, StorageType, RouteEntry
<1>3. \A u \in Topics : /\ storage'.route[u].owner = storage.route[u].owner
                        /\ storage'.route[u].confirmed = storage.route[u].confirmed
  BY <1>2 DEF Route
<1> QED BY <1>1, <1>3, VerdictAgrees DEF AgeRoute

\* Frames are lost, and nothing else happens.
LEMMA LoseAgrees == ASSUME HInv, NEW l \in Links, Lose(l) PROVE Agrees
<1>1. UNCHANGED <<storage, pending, assigned, phase>>
  BY DEF Lose
<1>2. TakesWhatIsFree /\ HoldsItsOwn
  BY <1>1 DEF TakesWhatIsFree, HoldsItsOwn, Stranded, SeenRoute, Started
<1>3. LetsGoFirst
  <2>1. \A m \in Links : Len(chan[m]) \in Nat /\ (chan'[m] = chan[m] \/ chan'[m] = <<>>)
    BY LinksNow DEF Lose, HInv
  <2> QED BY <2>1 DEF LetsGoFirst
<1>4. OwnRoutes'
  BY <1>1 DEF HInv, OwnRoutes
<1> QED BY <1>2, <1>3, <1>4 DEF Agrees

\* Every step.
LEMMA NextAgrees == ASSUME HInv, Next PROVE Agrees
<1> USE DEF Next
<1>1. ASSUME NEW w \in Workers, Start(w) \/ Resume(w) \/ Crash(w) PROVE Agrees
  BY <1>1, StartAgrees, CrashAgrees
<1>2. ASSUME NEW w \in Workers, NEW ok \in BOOLEAN, PageHide(w, ok) \/ Stop(w, ok) PROVE Agrees
  BY <1>2, PageHideAgrees, StopAgrees
<1>3. ASSUME NEW w \in Workers, NEW t \in Topics, Subscribe(w, t) \/ Unsubscribe(w, t) PROVE Agrees
  BY <1>3, SubscribeAgrees, UnsubscribeAgrees
<1>4. ASSUME NEW w \in Workers, SetStatus(w) \/ VisibilityChange(w) PROVE Agrees
  BY <1>4, SetStatusAgrees, VisibilityChangeAgrees
<1>5. ASSUME NEW w \in Workers, Heartbeat(w) \/ Registry(w) PROVE Agrees
  BY <1>5, HeartbeatAgrees, RegistryAgrees
<1>6. ASSUME NEW w \in Workers, NEW x \in Workers, NEW t \in Topics, Deliver(x, w, t) PROVE Agrees
  BY <1>6, DeliverAgrees
<1>7. ASSUME NEW w \in Workers, Flush(w) \/ FlushFails(w) \/ Expire(w) PROVE Agrees
  <2>1. CASE FlushFails(w)
    BY <2>1, IdleAgrees DEF FlushFails, Started
  <2> QED BY <1>7, <2>1, FlushAgrees, ExpireAgrees
<1>8. ASSUME NEW t \in Topics, AgeRoute(t) PROVE Agrees
  BY <1>8, AgeRouteAgrees
<1>9. ASSUME NEW l \in Links, Lose(l) PROVE Agrees
  BY <1>9, LoseAgrees
<1> QED BY <1>1, <1>2, <1>3, <1>4, <1>5, <1>6, <1>7, <1>8, <1>9

----------------------------------------------------------------------------
(* No tab ever queues a route confirmed to another tab, with everything    *)
(* ClusterProofs established: the invariant the handoff rests on.          *)
THEOREM WritesStayOwn == Spec => []HInv
<1>1. Init => HInv
  <2>1. Init => OwnRoutes
    BY DEF Init, OwnRoutes, NoWrites
  <2> QED BY <2>1, InitInv DEF HInv
<1>2. HInv /\ [Next]_vars => HInv'
  <2>1. HInv /\ Next => HInv'
    BY NextInv, NextAgrees DEF HInv, Agrees
  <2>2. HInv /\ UNCHANGED vars => HInv'
    BY StutterInv DEF HInv, OwnRoutes, vars
  <2> QED BY <2>1, <2>2
<1> QED BY <1>1, <1>2, PTL DEF Spec

(* Strict handoff: in every step of every behaviour a topic is taken only  *)
(* when it is free or released by the very handoff its route names, a      *)
(* ROUTE_RELEASED is posted only by a tab that let go, and a running tab   *)
(* that sees a route confirmed to itself holds the topic until another tab *)
(* tells it that nobody wants it.                                          *)
THEOREM HandoffIsStrict == Spec => OwnersAgree
<1>1. HInv /\ Next => TakesWhatIsFree /\ LetsGoFirst /\ HoldsItsOwn
  BY NextAgrees DEF Agrees
<1>2. HInv /\ [Next]_vars => [TakesWhatIsFree /\ LetsGoFirst /\ HoldsItsOwn]_vars
  BY <1>1
<1> QED BY <1>2, WritesStayOwn, PTL DEF Spec, OwnersAgree
============================================================================
