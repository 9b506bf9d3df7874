---------------------------- MODULE StorageBatch ----------------------------
(***************************************************************************)
(* BatchingStorageWriter (src/src/core/storage-batch.ts): writes are       *)
(* queued, one per key, and applied by a pass that a microtask, a retry    *)
(* timer or an explicit flush() starts.  A pass stops at the first key the *)
(* backing store rejects and arms the retry timer; a key rejected          *)
(* MAX_RETRY_ATTEMPTS times is dropped.                                    *)
(*                                                                         *)
(* A Map is its entries in insertion order: queue orders the keys, queued  *)
(* holds their values (None is a queued removal).  Microtasks cannot be    *)
(* cancelled, so several may be outstanding; MaxTasks bounds them.  The    *)
(* retry delay is counted in doublings of its initial value.               *)
(***************************************************************************)
EXTENDS Naturals, Sequences

CONSTANTS Keys, Values,
          None,                \* no value
          MAX_RETRY_ATTEMPTS,
          MaxDoublings,        \* MAX_RETRY_DELAY_MS / INITIAL_RETRY_DELAY_MS is 2^5
          MaxTasks             \* bound on the outstanding microtasks

ASSUME NoneAssumption == None \notin Values
ASSUME AttemptsAssumption == MAX_RETRY_ATTEMPTS \in Nat \ {0}
ASSUME DoublingsAssumption == MaxDoublings \in Nat
ASSUME TasksAssumption == MaxTasks \in Nat

VARIABLES storage,         \* the backing store
          queue, queued,   \* pending
          retryCount,
          flushScheduled,
          microtasks,      \* outstanding flush microtasks
          armed,           \* retryHandle # null
          doublings        \* retryDelayMs

vars == <<storage, queue, queued, retryCount, flushScheduled, microtasks, armed,
          doublings>>

Data == Values \cup {None}

Pending == {queue[i] : i \in 1..Len(queue)}

NoRetries == [k \in Keys |-> 0]

\* Mutant: the backing store is read first.
ReadsThrough(k) == IF storage[k] # None THEN storage[k]
                   ELSE IF k \in Pending THEN queued[k] ELSE None

GetItem(k) == IF k \in Pending THEN queued[k] ELSE storage[k]

\* Mutant: queued removals are still listed.
ListsRemoved == {k \in Keys : storage[k] # None} \cup {k \in Pending : queued[k] # None}

\* keys(): the stored keys, then the queued writes and removals.
Listed ==
  ({k \in Keys : storage[k] # None} \ {k \in Pending : queued[k] = None})
    \cup {k \in Pending : queued[k] # None}

----------------------------------------------------------------------------
\* Mutant: a rewrite of a queued key starts its retries afresh.
FreshRetries(k) == retryCount' = [retryCount EXCEPT ![k] = 0]

\* A rewrite keeps the key's place in the queue and its retry count.
KeepRetries(k) == UNCHANGED retryCount

\* Mutant: a rewrite queues the key once more.
EnqueueAgain(k) == Append(queue, k)

Enqueue(k) == IF k \in Pending THEN queue ELSE Append(queue, k)

\* setItem and removeItem, which schedule a microtask unless one is due.
SetItem(k, v) ==
  /\ queue' = Enqueue(k)
  /\ queued' = [queued EXCEPT ![k] = v]
  /\ flushScheduled' = TRUE
  /\ IF flushScheduled THEN UNCHANGED microtasks
     ELSE microtasks < MaxTasks /\ microtasks' = microtasks + 1
  /\ KeepRetries(k)
  /\ UNCHANGED <<storage, armed, doublings>>

\* The pass stops at the first key whose write fails and will be retried.
StopsAt(bad, stop) ==
  LET retried(i) == queue[i] \in bad /\ retryCount[queue[i]] + 1 < MAX_RETRY_ATTEMPTS
  IN /\ \A i \in 1..(stop - 1) : ~retried(i)
     /\ stop <= Len(queue) => retried(stop)

\* Mutant: the pass continues after a failure, and only failed keys wait.
FailedOnly(bad, stop) == SelectSeq(queue, LAMBDA k : k \in bad)

\* break: that key and all after it stay queued.
Remaining(bad, stop) == SubSeq(queue, stop, Len(queue))

\* Mutant: no timer when a microtask is believed to be due.
ArmsUnlessScheduled(rest) == rest # <<>> /\ ~flushScheduled

\* scheduleRetry.
Arms(rest) == rest # <<>>

\* The body of flush(), when the backing store rejects the keys in bad.
Pass(bad) ==
  \E stop \in 1..(Len(queue) + 1) :
    LET rest == Remaining(bad, stop)
        done == Pending \ {rest[i] : i \in 1..Len(rest)}
        drained == rest = <<>>
    IN /\ StopsAt(bad, stop)
       /\ storage' = [k \in Keys |-> IF k \in done \ bad THEN queued[k] ELSE storage[k]]
       /\ queue' = rest
       /\ retryCount' = IF drained THEN NoRetries
                        ELSE [k \in Keys |-> IF k \in done THEN 0
                                             ELSE IF k = rest[1] THEN retryCount[k] + 1
                                             ELSE retryCount[k]]
       /\ armed' = Arms(rest)
       /\ doublings' = IF drained THEN 0
                       ELSE IF doublings < MaxDoublings THEN doublings + 1 ELSE doublings
       /\ flushScheduled' = FALSE
       /\ UNCHANGED queued

\* flush() called by the runtime; an outstanding microtask stays outstanding.
Flush == \E bad \in SUBSET Pending : Pass(bad) /\ UNCHANGED microtasks

Microtask ==
  /\ microtasks > 0 /\ microtasks' = microtasks - 1
  /\ \E bad \in SUBSET Pending : Pass(bad)

RetryTimer ==
  /\ armed
  /\ \E bad \in SUBSET Pending : Pass(bad) /\ UNCHANGED microtasks

\* Mutant: the retry timer outlives the queue.
LeavesTimer == UNCHANGED armed

\* cancelRetry.
CancelRetry == armed' = FALSE

\* What clear and discardPending have in common.
Forget ==
  /\ queue' = <<>>
  /\ retryCount' = NoRetries
  /\ doublings' = 0
  /\ flushScheduled' = FALSE
  /\ CancelRetry
  /\ UNCHANGED <<queued, microtasks>>

DiscardPending == Forget /\ UNCHANGED storage

Clear == Forget /\ storage' = [k \in Keys |-> None]

Init ==
  /\ storage \in [Keys -> Data]
  /\ queue = <<>>
  /\ queued = [k \in Keys |-> None]
  /\ retryCount = NoRetries
  /\ flushScheduled = FALSE
  /\ microtasks = 0
  /\ armed = FALSE
  /\ doublings = 0

Next ==
  \/ \E k \in Keys, v \in Data : SetItem(k, v)
  \/ Flush \/ Microtask \/ RetryTimer
  \/ DiscardPending \/ Clear

Spec == Init /\ [][Next]_vars

\* The event loop runs microtasks and expired timers.
FairSpec == Spec /\ WF_vars(Microtask) /\ WF_vars(RetryTimer)

----------------------------------------------------------------------------
(* The type invariant: a key is queued once, as a Map holds it, and its    *)
(* retry count stays below the limit.                                      *)
TypeOK ==
  /\ storage \in [Keys -> Data]
  /\ queue \in Seq(Keys)
  /\ \A i, j \in 1..Len(queue) : queue[i] = queue[j] => i = j
  /\ queued \in [Keys -> Data]
  /\ retryCount \in [Keys -> 0..(MAX_RETRY_ATTEMPTS - 1)]
  /\ flushScheduled \in BOOLEAN
  /\ microtasks \in Nat
  /\ armed \in BOOLEAN
  /\ doublings \in 0..MaxDoublings

(* A queued write has a microtask or the retry timer to apply it, and the  *)
(* gate is closed only while a microtask is due: otherwise later writes    *)
(* would wait for ever (flush, discardPending and clear open it).          *)
NothingStranded ==
  /\ queue # <<>> => microtasks > 0 \/ armed
  /\ flushScheduled => microtasks > 0

(* An empty queue leaves no timer, no retry count and no raised delay      *)
(* behind ("failed writes must not keep timers alive", discardPending).    *)
IdleIsClean ==
  queue = <<>> => ~armed /\ retryCount = NoRetries /\ doublings = 0

(* There is something to apply the queue exactly while it holds something, *)
(* whichever of a flush, a microtask, the timer and a teardown emptied it. *)
ArmedForQueue == NothingStranded /\ IdleIsClean

(* keys() lists exactly the keys getItem finds, whatever is queued.        *)
ListingAgrees == Listed = {k \in Keys : GetItem(k) # None}

(* A pass that applies a key leaves no earlier key waiting (the break).    *)
AppliesInOrder ==
  \A i, j \in 1..Len(queue) :
    /\ i < j
    /\ \A n \in 1..Len(queue') : queue'[n] # queue[j]
    => \A n \in 1..Len(queue') : queue'[n] # queue[i]

(* Writes reach the backing store in the order their keys were queued, and *)
(* until they do, reads and listings agree on what is there.               *)
InOrder == [][AppliesInOrder]_vars /\ []ListingAgrees

(* No key waits for ever: it is written or given up, even if every write   *)
(* of it fails and the runtime keeps writing it.                           *)
Drains == \A k \in Keys : []<>(k \notin Pending)

Buffer == INSTANCE WriteBuffer
            WITH durable <- storage, view <- [k \in Keys |-> GetItem(k)]

(* The writer implements the buffer the runtime relies on.                 *)
ReadsOwnWrites == Buffer!Spec
============================================================================
