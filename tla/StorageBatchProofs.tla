------------------------ MODULE StorageBatchProofs ------------------------
(***************************************************************************)
(* Proofs about StorageBatch, for any keys, values, retry limit and bound  *)
(* on the outstanding microtasks.                                          *)
(***************************************************************************)
EXTENDS StorageBatch, TLAPS

\* The three invariants are inductive together.
IInv == TypeOK /\ NothingStranded /\ IdleIsClean

\* What one pass does to the queue: a prefix leaves, the rest stays as it is.
Rest(stop) == SubSeq(queue, stop, Len(queue))
Done(stop) == Pending \ {Rest(stop)[i] : i \in 1..Len(Rest(stop))}

\* The rest of the queue is a suffix, without repetitions.
LEMMA RestType ==
  ASSUME TypeOK, NEW stop \in 1..(Len(queue) + 1)
  PROVE  /\ Rest(stop) \in Seq(Keys)
         /\ Len(Rest(stop)) = Len(queue) + 1 - stop
         /\ \A i \in 1..Len(Rest(stop)) : Rest(stop)[i] = queue[stop + i - 1]
         /\ \A i, j \in 1..Len(Rest(stop)) : Rest(stop)[i] = Rest(stop)[j] => i = j
         /\ Rest(stop) = <<>> <=> stop = Len(queue) + 1
<1>1. queue \in Seq(Keys) /\ Len(queue) \in Nat
  BY DEF TypeOK
<1>2. /\ Rest(stop) \in Seq(Keys)
      /\ Len(Rest(stop)) = Len(queue) + 1 - stop
      /\ \A i \in 1..Len(Rest(stop)) : Rest(stop)[i] = queue[stop + i - 1]
  BY <1>1 DEF Rest
<1>3. ASSUME NEW i \in 1..Len(Rest(stop)), NEW j \in 1..Len(Rest(stop)),
             Rest(stop)[i] = Rest(stop)[j]
      PROVE  i = j
  <2>1. stop + i - 1 \in 1..Len(queue) /\ stop + j - 1 \in 1..Len(queue)
    BY <1>1, <1>2
  <2>2. queue[stop + i - 1] = queue[stop + j - 1]
    BY <1>2, <1>3
  <2>3. stop + i - 1 = stop + j - 1
    BY <2>1, <2>2 DEF TypeOK
  <2> QED BY <2>3, <1>1
<1>4. Rest(stop) = <<>> <=> stop = Len(queue) + 1
  BY <1>1, <1>2
<1> QED BY <1>2, <1>3, <1>4

\* A pass keeps the rest of the queue in order and arms the timer for it.
LEMMA PassInv ==
  ASSUME IInv, NEW bad \in SUBSET Pending, Pass(bad), microtasks' \in Nat
  PROVE  IInv'
<1>1. PICK stop \in 1..(Len(queue) + 1) :
        /\ StopsAt(bad, stop)
        /\ storage' = [k \in Keys |-> IF k \in Done(stop) \ bad THEN queued[k] ELSE storage[k]]
        /\ queue' = Rest(stop)
        /\ retryCount' = IF Rest(stop) = <<>> THEN NoRetries
                         ELSE [k \in Keys |-> IF k \in Done(stop) THEN 0
                                              ELSE IF k = Rest(stop)[1] THEN retryCount[k] + 1
                                              ELSE retryCount[k]]
        /\ armed' = (Rest(stop) # <<>>)
        /\ doublings' = IF Rest(stop) = <<>> THEN 0
                        ELSE IF doublings < MaxDoublings THEN doublings + 1 ELSE doublings
        /\ flushScheduled' = FALSE
        /\ UNCHANGED queued
  BY DEF Pass, Remaining, Arms, Rest, Done
<1>2. TypeOK
  BY DEF IInv
<1>3. retryCount' \in [Keys -> 0..(MAX_RETRY_ATTEMPTS - 1)]
  <2>1. CASE Rest(stop) = <<>>
    BY <1>1, <2>1, AttemptsAssumption DEF NoRetries
  <2>2. CASE Rest(stop) # <<>>
    <3>1. stop \in 1..Len(queue) /\ Rest(stop)[1] = queue[stop]
      BY <1>2, <2>2, RestType
    <3>2. retryCount[queue[stop]] + 1 < MAX_RETRY_ATTEMPTS
      BY <1>1, <3>1 DEF StopsAt
    <3> QED BY <1>1, <1>2, <2>2, <3>1, <3>2, AttemptsAssumption DEF TypeOK
  <2> QED BY <2>1, <2>2
<1>4. /\ queue' \in Seq(Keys)
      /\ \A i, j \in 1..Len(queue') : queue'[i] = queue'[j] => i = j
  BY <1>1, <1>2, RestType
<1>5. storage' \in [Keys -> Data] /\ queued' \in [Keys -> Data]
  BY <1>1, <1>2 DEF TypeOK
<1>6. flushScheduled' \in BOOLEAN /\ armed' \in BOOLEAN /\ doublings' \in 0..MaxDoublings
  <2>1. flushScheduled' \in BOOLEAN /\ armed' \in BOOLEAN
    BY <1>1, Zenon
  <2>2. doublings \in 0..MaxDoublings
    BY <1>2 DEF TypeOK
  <2>3. doublings' \in {0, doublings, doublings + 1} /\ (doublings' = doublings + 1 => doublings < MaxDoublings)
    BY <1>1, <2>2
  <2> QED BY <2>1, <2>2, <2>3, DoublingsAssumption
<1>7. TypeOK'
  BY <1>3, <1>4, <1>5, <1>6 DEF TypeOK
<1>8. NothingStranded' /\ IdleIsClean'
  BY <1>1 DEF NothingStranded, IdleIsClean
<1> QED BY <1>7, <1>8 DEF IInv

\* Enqueueing adds the key, once.
LEMMA EnqueueType ==
  ASSUME TypeOK, NEW k \in Keys
  PROVE  /\ Enqueue(k) \in Seq(Keys) /\ Enqueue(k) # <<>>
         /\ \A i, j \in 1..Len(Enqueue(k)) : Enqueue(k)[i] = Enqueue(k)[j] => i = j
         /\ {Enqueue(k)[i] : i \in 1..Len(Enqueue(k))} = Pending \cup {k}
         /\ Pending \in SUBSET Keys
<1>1. /\ queue \in Seq(Keys)
      /\ \A i, j \in 1..Len(queue) : queue[i] = queue[j] => i = j
  BY DEF TypeOK
<1>2. Pending \in SUBSET Keys
  BY <1>1 DEF Pending
<1>3. CASE k \in Pending
  <2>1. Enqueue(k) = queue /\ Len(queue) # 0
    BY <1>1, <1>3 DEF Enqueue, Pending
  <2> QED BY <1>1, <1>2, <1>3, <2>1 DEF Pending
<1>4. CASE k \notin Pending
  <2>1. Enqueue(k) = Append(queue, k)
    BY <1>4 DEF Enqueue
  <2>2. /\ Enqueue(k) \in Seq(Keys) /\ Len(Enqueue(k)) = Len(queue) + 1
        /\ \A i \in 1..Len(queue) : Enqueue(k)[i] = queue[i]
        /\ Enqueue(k)[Len(queue) + 1] = k
    BY <1>1, <2>1
  <2>3. \A i \in 1..Len(queue) : queue[i] # k
    BY <1>4 DEF Pending
  <2>4. \A i, j \in 1..Len(Enqueue(k)) : Enqueue(k)[i] = Enqueue(k)[j] => i = j
    BY <1>1, <2>2, <2>3
  <2>5. {Enqueue(k)[i] : i \in 1..Len(Enqueue(k))} = Pending \cup {k}
    <3>1. 1..Len(Enqueue(k)) = 1..Len(queue) \cup {Len(queue) + 1}
      BY <1>1, <2>2
    <3> QED BY <2>2, <3>1 DEF Pending
  <2>6. Enqueue(k) # <<>>
    BY <1>1, <2>2
  <2> QED BY <1>2, <2>2, <2>4, <2>5, <2>6
<1> QED BY <1>3, <1>4

\* Queueing a write schedules a microtask, or one is due already.
LEMMA SetItemInv ==
  ASSUME IInv, NEW k \in Keys, NEW v \in Data, SetItem(k, v) PROVE IInv'
<1>1. /\ queue' \in Seq(Keys) /\ queue' # <<>>
      /\ \A i, j \in 1..Len(queue') : queue'[i] = queue'[j] => i = j
  BY EnqueueType DEF SetItem, IInv
<1>2. microtasks' \in Nat /\ microtasks' > 0
  BY DEF SetItem, IInv, TypeOK, NothingStranded
<1>3. TypeOK'
  BY <1>1, <1>2 DEF SetItem, KeepRetries, IInv, TypeOK
<1> QED BY <1>1, <1>2, <1>3 DEF IInv, NothingStranded, IdleIsClean

\* No key retried, and nothing queued.
LEMMA EmptyType ==
  /\ NoRetries \in [Keys -> 0..(MAX_RETRY_ATTEMPTS - 1)]
  /\ 0 \in 0..MaxDoublings
  /\ \A i, j \in 1..Len(<<>>) : <<>>[i] = <<>>[j] => i = j
<1>1. 0 \in 0..(MAX_RETRY_ATTEMPTS - 1)
  BY AttemptsAssumption
<1>2. NoRetries \in [Keys -> 0..(MAX_RETRY_ATTEMPTS - 1)]
  BY <1>1 DEF NoRetries
<1>3. 0 \in 0..MaxDoublings
  BY DoublingsAssumption
<1>4. 1..Len(<<>>) = {}
  OBVIOUS
<1> QED BY <1>2, <1>3, <1>4

\* Teardown empties the queue and cancels the timer.
LEMMA ForgetInv == ASSUME IInv, Forget, storage' \in [Keys -> Data] PROVE IInv'
<1>1. queue' \in Seq(Keys) /\ \A i, j \in 1..Len(queue') : queue'[i] = queue'[j] => i = j
  BY EmptyType DEF Forget
<1>2. TypeOK'
  BY <1>1, EmptyType DEF IInv, TypeOK, Forget, CancelRetry
<1> QED BY <1>2 DEF IInv, Forget, CancelRetry, NothingStranded, IdleIsClean

\* Every step, a stuttering one included, preserves the invariant.
LEMMA NextInv == ASSUME IInv, [Next]_vars PROVE IInv'
<1>1. ASSUME NEW k \in Keys, NEW v \in Data, SetItem(k, v) PROVE IInv'
  BY <1>1, SetItemInv
<1>2. CASE Flush \/ Microtask \/ RetryTimer
  <2>1. microtasks' \in Nat
    BY <1>2 DEF Flush, Microtask, RetryTimer, IInv, TypeOK
  <2> QED BY <1>2, <2>1, PassInv DEF Flush, Microtask, RetryTimer
<1>3. CASE DiscardPending \/ Clear
  BY <1>3, ForgetInv DEF DiscardPending, Clear, IInv, TypeOK, Data
<1>4. CASE UNCHANGED vars
  BY <1>4 DEF vars, IInv, TypeOK, NothingStranded, IdleIsClean
<1> QED BY <1>1, <1>2, <1>3, <1>4 DEF Next

(* Whatever the order of writes, passes, failures and teardowns: the queue *)
(* is well formed, nothing queued is without a pass to come, and an empty  *)
(* queue leaves no timer behind.                                           *)
THEOREM Invariance == Spec => []IInv
<1>1. Init => IInv
  <2> SUFFICES ASSUME Init PROVE IInv
    OBVIOUS
  <2>1. TypeOK
    <3>1. /\ storage \in [Keys -> Data] /\ queued \in [Keys -> Data]
          /\ queue \in Seq(Keys) /\ 1..Len(queue) = {}
          /\ microtasks \in Nat
      BY DEF Init, Data
    <3>3. flushScheduled \in BOOLEAN /\ armed \in BOOLEAN
      BY DEF Init
    <3>2. retryCount \in [Keys -> 0..(MAX_RETRY_ATTEMPTS - 1)] /\ doublings \in 0..MaxDoublings
      BY EmptyType DEF Init
    <3> QED BY <3>1, <3>2, <3>3 DEF TypeOK
  <2> QED BY <2>1 DEF Init, IInv, NothingStranded, IdleIsClean
<1> QED BY <1>1, NextInv, PTL DEF Spec

(* The queue holds a key once, and no retry count reaches the limit.       *)
THEOREM TypeCorrect == Spec => []TypeOK
<1>1. IInv => TypeOK
  BY DEF IInv
<1> QED BY <1>1, Invariance, PTL

(* A queued write always has a microtask or a retry timer to come, and an  *)
(* empty queue leaves no timer, retry count or raised delay behind.        *)
THEOREM AlwaysArmed == Spec => []ArmedForQueue
<1>1. IInv => ArmedForQueue
  BY DEF IInv, ArmedForQueue
<1> QED BY <1>1, Invariance, PTL

----------------------------------------------------------------------------
(* The writer implements WriteBuffer.                                      *)

View == [k \in Keys |-> GetItem(k)]

\* A pass keeps what was queued for the keys that remain.
LEMMA PassRefines ==
  ASSUME TypeOK, NEW bad \in SUBSET Pending, Pass(bad)
  PROVE  \E kept, lost \in SUBSET Keys : Buffer!Sync(kept, lost)
<1>1. PICK stop \in 1..(Len(queue) + 1) :
        /\ storage' = [k \in Keys |-> IF k \in Done(stop) \ bad THEN queued[k] ELSE storage[k]]
        /\ queue' = Rest(stop)
        /\ UNCHANGED queued
  BY DEF Pass, Remaining, Rest, Done
<1>2. Pending \in SUBSET Keys
  BY DEF Pending, TypeOK
<1>3. Pending' = Pending \ Done(stop) /\ Done(stop) \in SUBSET Pending
  <2>1. {Rest(stop)[i] : i \in 1..Len(Rest(stop))} \in SUBSET Pending
    <3>1. ASSUME NEW i \in 1..Len(Rest(stop)) PROVE Rest(stop)[i] \in Pending
      <4>1. stop + i - 1 \in 1..Len(queue) /\ Rest(stop)[i] = queue[stop + i - 1]
        BY RestType DEF TypeOK
      <4> QED BY <4>1 DEF Pending
    <3> QED BY <3>1
  <2> QED BY <1>1, <2>1 DEF Done, Pending
<1> DEFINE kept == Done(stop) \ bad
           lost == Done(stop) \cap bad
<1>4. kept \in SUBSET Keys /\ lost \in SUBSET Keys /\ kept \cap lost = {}
  BY <1>2, <1>3
<1>5. storage' = [k \in Keys |-> IF k \in kept THEN View[k] ELSE storage[k]]
  BY <1>1, <1>3 DEF View, GetItem
<1>6. ASSUME NEW k \in Keys
      PROVE  GetItem(k)' = IF k \in lost THEN storage[k] ELSE View[k]
  BY <1>1, <1>3 DEF View, GetItem
<1>7. View' = [k \in Keys |-> IF k \in lost THEN storage[k] ELSE View[k]]
  BY <1>6 DEF View
<1>8. Buffer!Sync(kept, lost)
  BY <1>4, <1>5, <1>7 DEF Buffer!Sync, View
<1> QED BY <1>4, <1>8

\* Queueing a write is a write of the abstract buffer.
LEMMA SetItemRefines ==
  ASSUME TypeOK, NEW k \in Keys, NEW v \in Data, SetItem(k, v)
  PROVE  Buffer!Write(k, v)
<1>1. Pending' = Pending \cup {k} /\ Pending \in SUBSET Keys
  <2>1. queue' = Enqueue(k)
    BY DEF SetItem
  <2>2. Pending' = {Enqueue(k)[i] : i \in 1..Len(Enqueue(k))}
    BY <2>1 DEF Pending
  <2> QED BY <2>2, EnqueueType
<1>2. ASSUME NEW x \in Keys PROVE GetItem(x)' = IF x = k THEN v ELSE GetItem(x)
  BY <1>1 DEF SetItem, GetItem, TypeOK
<1> QED BY <1>2 DEF Buffer!Write, SetItem

\* Discarding gives up every queued write.
LEMMA DiscardRefines ==
  ASSUME TypeOK, DiscardPending
  PROVE  \E kept, lost \in SUBSET Keys : Buffer!Sync(kept, lost)
<1>1. Pending' = {}
  BY DEF DiscardPending, Forget, Pending
<1>2. storage' = storage /\ storage \in [Keys -> Data]
  BY DEF DiscardPending, TypeOK
<1>3. Buffer!Sync({}, Keys)
  BY <1>1, <1>2 DEF Buffer!Sync, GetItem
<1> QED BY <1>3

\* Clearing is the abstract clear.
LEMMA ClearRefines == ASSUME TypeOK, Clear PROVE Buffer!Clear
<1>1. Pending' = {}
  BY DEF Clear, Forget, Pending
<1> QED BY <1>1 DEF Buffer!Clear, Clear, GetItem

\* Every step is a step of the abstract buffer, or leaves it unchanged.
LEMMA NextRefines ==
  ASSUME TypeOK, [Next]_vars PROVE [Buffer!Next]_<<storage, [k \in Keys |-> GetItem(k)]>>
<1>1. ASSUME NEW k \in Keys, NEW v \in Data, SetItem(k, v) PROVE Buffer!Next
  BY <1>1, SetItemRefines DEF Buffer!Next, Data
<1>2. CASE Flush \/ Microtask \/ RetryTimer
  <2>1. PICK bad \in SUBSET Pending : Pass(bad)
    BY <1>2 DEF Flush, Microtask, RetryTimer
  <2> QED BY <2>1, PassRefines DEF Buffer!Next
<1>3. CASE DiscardPending
  BY <1>3, DiscardRefines DEF Buffer!Next
<1>4. CASE Clear
  BY <1>4, ClearRefines DEF Buffer!Next
<1>5. CASE UNCHANGED vars
  BY <1>5 DEF vars, GetItem, Pending
<1> QED BY <1>1, <1>2, <1>3, <1>4, <1>5 DEF Next

(* The runtime reads its own writes at once and until they are given up,   *)
(* and the backing store only ever changes to what the runtime wrote.      *)
THEOREM Refinement == Spec => ReadsOwnWrites
<1>1. Init => Buffer!Init
  BY DEF Init, Buffer!Init, GetItem, Pending, Data
<1>2. TypeOK /\ [Next]_vars => [Buffer!Next]_<<storage, [k \in Keys |-> GetItem(k)]>>
  BY NextRefines
<1> QED BY <1>1, <1>2, TypeCorrect, PTL DEF Spec, ReadsOwnWrites, Buffer!Spec

----------------------------------------------------------------------------
(* Order.                                                                  *)

\* The keys of a queue that keeps the front of queue, all or none of it.
LEMMA FrontOrder ==
  ASSUME TypeOK, \/ queue' = queue \/ queue' = <<>> \/ \E k \in Keys : queue' = Enqueue(k)
  PROVE  AppliesInOrder
<1>1. queue \in Seq(Keys) /\ Len(queue) \in Nat
  BY DEF TypeOK
<1>2. CASE queue' = queue \/ \E k \in Keys : queue' = Enqueue(k)
  <2>1. Len(queue') >= Len(queue) /\ Len(queue') \in Nat
        /\ \A j \in 1..Len(queue) : queue'[j] = queue[j]
    BY <1>1, <1>2 DEF Enqueue
  <2>2. ASSUME NEW j \in 1..Len(queue) PROVE j \in 1..Len(queue') /\ queue'[j] = queue[j]
    BY <1>1, <2>1
  <2> QED BY <2>2 DEF AppliesInOrder
<1>3. CASE queue' = <<>>
  <2>1. Len(queue') = 0 /\ 1..0 = {}
    BY <1>3
  <2> QED BY <2>1 DEF AppliesInOrder
<1> QED BY <1>2, <1>3

\* A pass leaves a suffix: what precedes an applied key is applied.
LEMMA PassOrder ==
  ASSUME TypeOK, NEW bad \in SUBSET Pending, Pass(bad) PROVE AppliesInOrder
<1>1. PICK stop \in 1..(Len(queue) + 1) : queue' = Rest(stop)
  BY DEF Pass, Remaining, Rest
<1>2. SUFFICES ASSUME NEW i \in 1..Len(queue), NEW j \in 1..Len(queue), i < j,
                      \A n \in 1..Len(queue') : queue'[n] # queue[j],
                      NEW n \in 1..Len(queue'), queue'[n] = queue[i]
               PROVE  FALSE
  BY DEF AppliesInOrder
<1>3. Len(queue) \in Nat /\ Len(queue') = Len(queue) + 1 - stop
      /\ \A m \in 1..Len(queue') : queue'[m] = queue[stop + m - 1]
  <2>1. /\ Len(Rest(stop)) = Len(queue) + 1 - stop
        /\ \A m \in 1..Len(Rest(stop)) : Rest(stop)[m] = queue[stop + m - 1]
    BY Zenon, RestType
  <2>2. Len(queue) \in Nat
    BY DEF TypeOK
  <2> QED BY <1>1, <2>1, <2>2
<1>4. stop + n - 1 \in 1..Len(queue) /\ queue[stop + n - 1] = queue[i]
  BY <1>2, <1>3
<1>5. i = stop + n - 1
  BY <1>4 DEF TypeOK
<1>6. j - stop + 1 \in 1..Len(queue') /\ stop + (j - stop + 1) - 1 = j
  BY <1>2, <1>3, <1>5
<1>7. queue'[j - stop + 1] = queue[j]
  BY <1>3, <1>6
<1> QED BY <1>2, <1>6, <1>7

\* Every step applies in order.
LEMMA NextOrder == ASSUME TypeOK, [Next]_vars PROVE AppliesInOrder
<1>1. ASSUME NEW k \in Keys, NEW v \in Data, SetItem(k, v) PROVE AppliesInOrder
  BY <1>1, FrontOrder DEF SetItem
<1>2. CASE Flush \/ Microtask \/ RetryTimer
  BY <1>2, PassOrder DEF Flush, Microtask, RetryTimer
<1>3. CASE DiscardPending \/ Clear
  BY <1>3, FrontOrder DEF DiscardPending, Clear, Forget
<1>4. CASE UNCHANGED vars
  BY <1>4, FrontOrder DEF vars
<1> QED BY <1>1, <1>2, <1>3, <1>4 DEF Next

(* Queued writes reach the backing store in the order their keys were      *)
(* queued, whatever fails in between, and keys() lists what getItem finds  *)
(* (flush, keys of storage.ts).                                            *)
THEOREM OrderKept == Spec => InOrder
<1>1. TypeOK /\ [Next]_vars => [AppliesInOrder]_vars
  BY NextOrder
<1>2. TypeOK => ListingAgrees
  <2>1. TypeOK => Pending \in SUBSET Keys
    BY DEF TypeOK, Pending
  <2> QED BY <2>1 DEF ListingAgrees, Listed, GetItem
<1> QED BY <1>1, <1>2, TypeCorrect, PTL DEF Spec, InOrder
============================================================================
