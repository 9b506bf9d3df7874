------------------------------- MODULE Replay -------------------------------
(***************************************************************************)
(* The replay history of one bus: ReplayManager                            *)
(* (src/src/core/replay-manager.ts) over the IndexedDB adapter             *)
(* (src/src/core/replay-persistence.ts).                                   *)
(*                                                                         *)
(* A message is the number of its publication, which is also its           *)
(* timestamp, and log says what topic it was published on.  A persistence  *)
(* operation is a record that withPersistenceRetry carries through its     *)
(* attempts; live says that no suspension has moved retryGeneration on     *)
(* since it began.  The hydration epoch only ever moves with it.           *)
(*                                                                         *)
(* The adapter applies mutations one transaction at a time from its queue  *)
(* and loads outside of it; the database serves transactions in the order  *)
(* of their creation (reads and writes overlap).  Microtasks run before    *)
(* the next event (Drained).                                               *)
(*                                                                         *)
(* The pruning strategy is the default, by count; payloads, traces and the *)
(* delivery of the history to a handler are left out.                      *)
(***************************************************************************)
EXTENDS Integers, FiniteSets, Sequences, SequencesExt, Lists

CONSTANTS Topics,
          MaxPerTopic,     \* replay.maxPerTopic
          MaxAttempts,     \* replay.persistenceRetry.maxAttempts
          Retentions,      \* the values of replay.retentionMs, 0 for none
          MaxMessages,     \* bound on publications
          MaxMoves,        \* bound on calls and page events
          MaxFaults        \* bound on failed transactions

ASSUME ReplayAssumption ==
  /\ MaxPerTopic \in Nat \ {0} /\ MaxAttempts \in Nat \ {0}
  /\ Retentions \subseteq Nat /\ MaxMessages \in Nat \ {0}
  /\ MaxMoves \in Nat /\ MaxFaults \in Nat

Forever == MaxMessages + 1   \* later than every message
None == -1                   \* no retentionCutoff

VARIABLES mgr,      \* the fields of ReplayManager
          store,    \* the database and the adapter in front of it
          backoff,  \* operations that wait for their retry timer
          phase,    \* of the bus: "stopped", "running" or "suspended"
          log,      \* topics of the messages published so far
          past,     \* of the messages: per topic those kept since the buffers
                    \* were reset, those cleared since, those the store
                    \* confirmed as gone, and those appended by a retry
          moves, faults

vars == <<mgr, store, backoff, phase, log, past, moves, faults>>

Here == [mgr |-> mgr, store |-> store, backoff |-> backoff]

Become(s) == mgr' = s.mgr /\ store' = s.store /\ backoff' = s.backoff

Now == Len(log)
Later == Now + 1         \* the time of what follows a publication

OnTopics(T, messages) == Kept(messages, {m \in 1..Now : log[m] \in T})

NoMessages == [t \in Topics |-> <<>>]

\* Mutant: the limit is one too high.
PrunedLate(messages) ==
  SubSeq(messages, IF Len(messages) > MaxPerTopic + 1 THEN Len(messages) - MaxPerTopic ELSE 1,
         Len(messages))

\* pruneReplayHistory by count.
Pruned(messages) ==
  SubSeq(messages, IF Len(messages) > MaxPerTopic THEN Len(messages) - MaxPerTopic + 1 ELSE 1,
         Len(messages))

NoOp == [kind |-> "none", messages |-> <<>>, topics |-> {}, before |-> 0,
         doomed |-> {}, attempt |-> 1, live |-> TRUE]
Appending(messages) == [NoOp EXCEPT !.kind = "append", !.messages = messages]
Cutting(kind, T, before) == [NoOp EXCEPT !.kind = kind, !.topics = T, !.before = before]
Loading == [NoOp EXCEPT !.kind = "load"]

----------------------------------------------------------------------------
(* The adapter.                                                            *)

\* enqueue: the mutation joins the queue, which a microtask later is drained.
Enqueue(s, op) == [s EXCEPT !.store.queue = Append(@, op)]

\* Adjacent batches at the head of the queue share a transaction.
Coalesced(queue) ==
  LET batches == CHOOSE n \in 0..Len(queue) :
                   /\ \A i \in 1..n : queue[i].kind = "append"
                   /\ n < Len(queue) => queue[n + 1].kind # "append"
  IN SubSeq(queue, 1, IF batches = 0 THEN 1 ELSE batches)

\* drain: the next transaction is created behind those that exist.
Drain(s) ==
  IF s.store.queue = <<>> THEN s
  ELSE LET ops == Coalesced(s.store.queue)
       IN [s EXCEPT !.store.queue = SubSeq(@, Len(ops) + 1, Len(@)),
                    !.store.transactions = Append(@, ops)]

\* load() creates a transaction of its own.
Load(s, op) == [s EXCEPT !.store.transactions = Append(@, <<op>>)]

Writing == \E i \in 1..Len(store.transactions) : store.transactions[i][1].kind # "load"

\* What a committed transaction leaves of the history of a topic.
Applied(t, messages, op) ==
  IF op.kind = "append" THEN Pruned(messages \o OnTopics({t}, op.messages))
  ELSE IF t \in op.topics THEN Kept(messages, op.before..Now)
  ELSE messages

Committed(data, ops) ==
  LET after[i \in 0..Len(ops)] ==
        IF i = 0 THEN data ELSE [t \in Topics |-> Applied(t, after[i - 1][t], ops[i])]
  IN after[Len(ops)]

----------------------------------------------------------------------------
(* Hydration.                                                              *)

\* The beginning of hydrate: expired history is deleted first.
Hydrate(s) ==
  LET s1 == [s EXCEPT !.mgr.hydration = TRUE]
  IN IF s.mgr.retention = 0 THEN Load(s1, Loading)
     ELSE Enqueue(s1, Cutting("prepare", Topics, Later - s.mgr.retention))

\* Mutant: a hydration is begun beside the one in flight.
RequestAnother(s) == IF s.mgr.complete THEN s ELSE Hydrate(s)

RequestHydration(s) ==
  IF s.mgr.hydration \/ s.mgr.complete THEN s ELSE Hydrate(s)

\* Mutant: loaded history is put behind the live messages.
LiveFirst(live, loaded) == Pruned(live \o loaded)

\* The loaded history is older than what was recorded meanwhile.
Merged(live, loaded) == Pruned(loaded \o live)

\* Mutant: a clear during the load is forgotten.
AllLoaded(s, t) == s.store.data[t]

\* What a load returned, less what was cleared since the buffers were reset.
Loaded(s, t) ==
  IF t \in s.mgr.clearedTopics THEN <<>>
  ELSE Kept(s.store.data[t], s.mgr.clearBefore..Now)

Hydrated(s) ==
  [s EXCEPT !.mgr.ring = [t \in Topics |-> Merged(s.mgr.ring[t], Loaded(s, t))],
            !.mgr.hydration = FALSE, !.mgr.complete = TRUE, !.mgr.failed = FALSE]

HydrationFailed(s) ==
  [s EXCEPT !.mgr.hydration = FALSE, !.mgr.complete = TRUE, !.mgr.failed = TRUE]

----------------------------------------------------------------------------
(* Retention.                                                              *)

\* The loop of scheduleRetentionCleanup takes the latest cut-off.
Clean(s) ==
  Enqueue([s EXCEPT !.mgr.cutoff = None, !.mgr.cleanup = TRUE],
          Cutting("cleanup", Topics, s.mgr.cutoff))

\* scheduleRetentionCleanup.
ScheduleCleanup(s, cutoff) ==
  LET s1 == [s EXCEPT !.mgr.cutoff = IF @ = None \/ cutoff > @ THEN cutoff ELSE @]
  IN IF s.mgr.cleanup THEN s1 ELSE Clean(s1)

\* Mutant: a cut-off that arrived after a suspension is left behind.
CleanLive(s, op) ==
  IF s.mgr.cutoff # None /\ op.live THEN Clean(s) ELSE [s EXCEPT !.mgr.cleanup = FALSE]

\* A cleanup ended: its loop goes on, or the next one is scheduled.
Cleaned(s, op) ==
  IF s.mgr.cutoff # None THEN Clean(s) ELSE [s EXCEPT !.mgr.cleanup = FALSE]

----------------------------------------------------------------------------
(* withPersistenceRetry.                                                   *)

\* The operations of a transaction succeeded: those of one with several are
\* appends, whose callers do nothing more.
Succeeded(s, ops) ==
  LET op == ops[1]
  IN CASE op.kind = "cleanup" -> Cleaned(s, op)
       [] op.kind = "prepare" /\ op.live -> Load(s, Loading)
       [] op.kind = "load" /\ op.live -> Hydrated(s)
       [] OTHER -> s

\* What waits for another attempt when these operations fail.
TriedAgain(ops) ==
  {[op EXCEPT !.attempt = @ + 1] : op \in {o \in ops : o.live /\ o.attempt < MaxAttempts}}

\* They failed: each is tried again while attempts are left, a cleanup is not.
Failed(s, ops) ==
  LET op == ops[1]
  IN CASE op.kind = "cleanup" -> Cleaned(s, op)
       [] op.kind \in {"prepare", "load"} /\ op.live /\ op.attempt = MaxAttempts ->
            HydrationFailed(s)
       [] OTHER -> [s EXCEPT !.backoff = @ \cup TriedAgain(ToSet(ops))]

----------------------------------------------------------------------------
(* Lifecycle.                                                              *)

\* start(): a hydration that failed is tried again.
Started(s) ==
  RequestHydration([s EXCEPT !.mgr.complete = @ /\ ~s.mgr.failed, !.mgr.failed = FALSE,
                             !.mgr.sweeping = s.mgr.retention > 0])

Dead(ops) == [i \in 1..Len(ops) |-> [ops[i] EXCEPT !.live = FALSE]]

\* Mutant: the hydration of before the suspension stays the current one.
Abandoned(s) == s

\* The hydration in flight is given up.
GiveUp(s) ==
  [s EXCEPT !.mgr.hydration = FALSE, !.mgr.complete = @ /\ ~s.mgr.hydration]

\* suspend(): submitted mutations still reach the store, retries do not.
Suspended(s) ==
  [GiveUp(s) EXCEPT !.mgr.pending = <<>>, !.mgr.cutoff = None, !.mgr.sweeping = FALSE,
                    !.store.queue = Dead(@),
                    !.store.transactions = [i \in 1..Len(@) |-> Dead(@[i])],
                    !.backoff = {}]

\* resetBuffers().
Reset(s) ==
  [s EXCEPT !.mgr.ring = NoMessages, !.mgr.hydration = FALSE,
            !.mgr.complete = FALSE, !.mgr.failed = FALSE,
            !.mgr.clearedTopics = {}, !.mgr.clearBefore = 0]

----------------------------------------------------------------------------
\* The constructor asks for a hydration of an empty or a used store.
Init ==
  /\ log \in UNION {[1..n -> Topics] : n \in 0..1}
  /\ \E retention \in Retentions :
       mgr = [retention |-> retention, ring |-> NoMessages,
              pending |-> <<>>, flushing |-> FALSE,
              hydration |-> TRUE, complete |-> FALSE, failed |-> FALSE,
              clearedTopics |-> {}, clearBefore |-> 0,
              cutoff |-> None, cleanup |-> FALSE, sweeping |-> FALSE]
  /\ store = [data |-> [t \in Topics |-> OnTopics({t}, [i \in 1..Len(log) |-> i])],
              queue |-> IF mgr.retention = 0 THEN <<>>
                        ELSE <<Cutting("prepare", Topics, Later - mgr.retention)>>,
              transactions |-> IF mgr.retention = 0 THEN <<<<Loading>>>> ELSE <<>>]
  /\ backoff = {}
  /\ phase = "stopped"
  /\ past = [kept |-> NoMessages, cleared |-> {}, gone |-> {}, retried |-> {}]
  /\ moves = 0 /\ faults = 0

\* No microtask is left: an event may be dispatched.
Drained == ~mgr.flushing /\ (store.queue # <<>> => Writing)

Move == moves < MaxMoves /\ moves' = moves + 1

\* start(), also before the hydration of the constructor ended; a start behind
\* a stop may come while mutations of the last session are queued.
Start ==
  /\ phase = "stopped" /\ Move
  /\ phase' = "running"
  /\ Become(Started(Here))
  /\ UNCHANGED <<log, past, faults>>

\* beginStop.
Stop ==
  /\ phase # "stopped" /\ Move
  /\ phase' = "stopped"
  /\ Become(Reset(Suspended(Here)))
  /\ past' = [past EXCEPT !.kept = NoMessages, !.cleared = {}]
  /\ UNCHANGED <<log, faults>>

\* pagehide and pageshow.
Hide ==
  /\ phase = "running" /\ Drained /\ Move
  /\ phase' = "suspended"
  /\ Become(Suspended(Here))
  /\ UNCHANGED <<log, past, faults>>

Show ==
  /\ phase = "suspended" /\ Drained /\ Move
  /\ phase' = "running"
  /\ Become(Started(Here))
  /\ UNCHANGED <<log, past, faults>>

\* deliverReplay, of a subscription made while the hydration was given up.
Subscribe ==
  /\ phase # "stopped" /\ ~mgr.hydration /\ ~mgr.complete
  /\ Become(RequestHydration(Here))
  /\ UNCHANGED <<phase, log, past, moves, faults>>

\* record.
Record(t) ==
  LET m == Now + 1
      s == [Here EXCEPT !.mgr.ring[t] = Pruned(Append(@, m)),
                        !.mgr.pending = Append(@, m), !.mgr.flushing = TRUE]
  IN /\ phase = "running" /\ m <= MaxMessages
     /\ log' = Append(log, t)
     /\ Become(IF mgr.retention = 0 THEN s ELSE ScheduleCleanup(s, m - mgr.retention))
     /\ past' = [past EXCEPT !.kept[t] = Append(@, m)]
     /\ UNCHANGED <<phase, moves, faults>>

\* Mutant: recorded messages that wait for the microtask are not dropped.
KeepPending(T, before) == mgr.pending

\* What a clear removes, and what it leaves of a list of messages.
Doomed(T, before) == {m \in 1..Now : log[m] \in T /\ m < before}
Without(T, before, messages) == Kept(messages, 1..Now \ Doomed(T, before))

\* The messages a clear leaves to be appended.
StillPending(T, before) == Without(T, before, mgr.pending)

\* clearAll, clearTopic and onTopicUnsubscribed (before = Forever), and
\* clearBefore.
Clear(T, before) ==
  LET doomed == Doomed(T, before)
      s == Enqueue(Here, [Cutting("clear", T, before) EXCEPT !.doomed = doomed])
  IN /\ Move
     /\ Become([s EXCEPT
          !.mgr.ring = [t \in Topics |-> Without(T, before, @[t])],
          !.mgr.pending = StillPending(T, before),
          !.mgr.clearedTopics = IF before = Forever THEN @ \cup T ELSE @,
          !.mgr.clearBefore = IF before # Forever /\ before > @ THEN before ELSE @])
     /\ past' = [past EXCEPT
          !.kept = [t \in Topics |-> Without(T, before, @[t])],
          !.cleared = @ \cup doomed]
     /\ UNCHANGED <<phase, log, faults>>

\* The microtask of schedulePersistenceFlush.
Flush ==
  /\ mgr.flushing
  /\ LET s == [Here EXCEPT !.mgr.flushing = FALSE, !.mgr.pending = <<>>]
     IN Become(IF mgr.pending = <<>> THEN s ELSE Enqueue(s, Appending(mgr.pending)))
  /\ UNCHANGED <<phase, log, past, moves, faults>>

\* The first microtask of a drain.
BeginDrain ==
  /\ store.queue # <<>> /\ ~Writing
  /\ Become(Drain(Here))
  /\ UNCHANGED <<phase, log, past, moves, faults>>

\* The oldest transaction completes or aborts.  After a mutation the drain
\* creates the next one before the caller learns of it.
EndTransaction(ok) ==
  LET ops == Head(store.transactions)
      ended == [Here EXCEPT !.store.transactions = Tail(@),
                            !.store.data = IF ok THEN Committed(@, ops) ELSE @]
      drained == IF ops[1].kind = "load" THEN ended ELSE Drain(ended)
  IN /\ Drained /\ store.transactions # <<>>
     /\ Become(IF ok THEN Succeeded(drained, ops) ELSE Failed(drained, ops))
     /\ past' = [past EXCEPT !.gone = @ \cup IF ok /\ ops[1].live THEN ops[1].doomed ELSE {}]
     /\ IF ok THEN UNCHANGED faults ELSE faults < MaxFaults /\ faults' = faults + 1
     /\ UNCHANGED <<phase, log, moves>>

\* The delay of withPersistenceRetry is over.
Retry(op) ==
  LET s == [Here EXCEPT !.backoff = @ \ {op}]
  IN /\ Drained /\ op \in backoff
     /\ Become(CASE op.kind = "load" -> Load(s, op)
                  [] op.kind = "prepare" ->
                       Enqueue(s, [op EXCEPT !.before = Later - mgr.retention])
                  [] OTHER -> Enqueue(s, op))
     /\ past' = [past EXCEPT !.retried = @ \cup ToSet(op.messages)]
     /\ UNCHANGED <<phase, log, moves, faults>>

\* The interval of start().
Sweep ==
  /\ Drained /\ mgr.sweeping /\ Move
  /\ Become(ScheduleCleanup(Here, Later - mgr.retention))
  /\ UNCHANGED <<phase, log, past, faults>>

----------------------------------------------------------------------------
\* What happens by itself.
System == \/ Flush \/ BeginDrain
          \/ \E ok \in BOOLEAN : EndTransaction(ok)
          \/ \E op \in backoff : Retry(op)

Next ==
  \/ System \/ Sweep
  \/ Start \/ Stop \/ Hide \/ Show \/ Subscribe
  \/ \E t \in Topics : Record(t) \/ Clear({t}, Forever)
  \/ \E before \in 2..Now \cup {Forever} : Clear(Topics, before)

Spec == Init /\ [][Next]_vars

\* Something of that can happen: ENABLED System, spelled out.
SystemReady == \/ mgr.flushing
               \/ store.queue # <<>> \/ store.transactions # <<>> \/ backoff # {}

\* WF_vars(System): microtasks and timers run, and every transaction ends, at
\* most MaxFaults of them in an abort.
Fairness == []<>~SystemReady \/ []<><<System>>_vars

FairSpec == Spec /\ Fairness

----------------------------------------------------------------------------
(* Properties.                                                             *)

Ops == [kind : {"append", "clear", "prepare", "load", "cleanup"},
        messages : Seq(1..MaxMessages), topics : SUBSET Topics, before : Int,
        doomed : SUBSET (1..MaxMessages), attempt : 1..MaxAttempts, live : BOOLEAN]

\* Every field keeps its type; histories stay within the limit, and there is
\* at most one mutation in a transaction of its own at a time.
TypeOK ==
  /\ \A t \in Topics : /\ mgr.ring[t] \in Seq(1..Now) /\ Len(mgr.ring[t]) <= MaxPerTopic
                       /\ store.data[t] \in Seq(1..Now) /\ Len(store.data[t]) <= MaxPerTopic
  /\ mgr.pending \in Seq(1..Now) /\ mgr.clearedTopics \subseteq Topics
  /\ mgr.cutoff \in {None} \cup Int /\ mgr.clearBefore \in Nat
  /\ store.queue \in Seq(Ops) /\ backoff \subseteq Ops
  /\ store.transactions \in Seq(Seq(Ops) \ {<<>>})
  /\ phase \in {"stopped", "running", "suspended"}

\* The newest messages of a topic that were recorded and not cleared end its
\* history, in order, whatever a hydration brings in.
LiveTail == \A t \in Topics : IsSuffix(Pruned(past.kept[t]), mgr.ring[t])

\* A message cleared since the buffers were reset, or whose clearing the store
\* confirmed, is in no history, also when a load of before the clear ends after
\* it; an append that is tried again may bring back the latter.
ClearedStaysOut ==
  \A t \in Topics : ToSet(mgr.ring[t]) \cap (past.cleared \cup (past.gone \ past.retried)) = {}

Durable == UNION {ToSet(store.data[t]) : t \in Topics}

\* What the store confirmed as cleared is not in it, unless its append was
\* tried again.
ClearedIsGone == Durable \cap past.gone \subseteq past.retried

\* What was cleared does not come back, neither to a handler nor to the store.
ClearedForGood == ClearedStaysOut /\ ClearedIsGone

Underway == ToSet(store.queue) \cup backoff
              \cup UNION {ToSet(ops) : ops \in ToSet(store.transactions)}

\* The manager holds a hydration exactly while one of this generation is
\* carried on, and there is never a second one.
HydrationIsCurrent ==
  Cardinality({op \in Underway : op.kind \in {"prepare", "load"} /\ op.live})
    = IF mgr.hydration THEN 1 ELSE 0

\* A cut-off that waits has a cleanup to take it.
NoStrandedCutoff == mgr.cutoff # None => mgr.cleanup

\* The two jobs that run behind the manager's back, a hydration and a cleanup,
\* are known to it just while they run, across suspensions and retries.
JobsAreCurrent == HydrationIsCurrent /\ NoStrandedCutoff

\* A running bus gets its history, or gives up on it, however often it was
\* suspended during a load.
Hydrates == phase = "running" ~> (mgr.complete \/ phase # "running")
=============================================================================
