---------------------------- MODULE WriteBuffer ----------------------------
(***************************************************************************)
(* What BatchingStorageWriter promises the runtime that uses it as its     *)
(* storage: reads see the runtime's own writes at once, the backing store  *)
(* follows some time later, and a write that cannot be made is given up,   *)
(* after which reads see the backing store again.                          *)
(***************************************************************************)
CONSTANTS Keys, Values, None

VARIABLES durable,  \* the backing store
          view      \* what the runtime reads

Init ==
  /\ durable \in [Keys -> Values \cup {None}]
  /\ view = durable

Write(k, v) ==
  /\ view' = [view EXCEPT ![k] = v]
  /\ UNCHANGED durable

\* Some keys reach the backing store, others are given up.
Sync(kept, lost) ==
  /\ kept \cap lost = {}
  /\ durable' = [k \in Keys |-> IF k \in kept THEN view[k] ELSE durable[k]]
  /\ view' = [k \in Keys |-> IF k \in lost THEN durable[k] ELSE view[k]]

Clear ==
  /\ durable' = [k \in Keys |-> None]
  /\ view' = durable'

Next ==
  \/ \E k \in Keys, v \in Values \cup {None} : Write(k, v)
  \/ \E kept, lost \in SUBSET Keys : Sync(kept, lost)
  \/ Clear

Spec == Init /\ [][Next]_<<durable, view>>
============================================================================
