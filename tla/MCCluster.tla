----------------------------- MODULE MCCluster -----------------------------
(* Instances of Cluster for TLC: two or three tabs. *)
EXTENDS Cluster

TwoTabs == {1, 2}
ThreeTabs == {1, 2, 3}

(* All tabs have started, in the order of their ids, and settled: tab 1    *)
(* subscribes to every topic and holds it, the others may subscribe.  A    *)
(* state Init reaches, from which larger instances stay small.             *)
SettledRecord(w) ==
  [load |-> IF w = 1 THEN Cardinality(Topics) ELSE 0,
   visible |-> TRUE, healthy |-> TRUE, registeredAt |-> w,
   role |-> IF w <= MaxActiveWorkers THEN "active" ELSE "standby", stale |-> FALSE]

SettledInit ==
  /\ subscribed \in {s \in [Workers -> SUBSET Topics] : s[1] = Topics}
  /\ storage = [worker |-> [w \in Workers |-> SettledRecord(w)],
                route |-> [t \in Topics |-> [NewRoute(1, NoWorker, 1) EXCEPT !.confirmed = TRUE]],
                sub |-> [p \in Pairs |-> p[1] \in subscribed[p[2]]]]
  /\ pending = [w \in Workers |-> NoWrites]
  /\ retrying = {}
  /\ phase = [w \in Workers |-> "started"]
  /\ assigned = [w \in Workers |-> IF w = 1 THEN Topics ELSE {}]
  /\ held = assigned
  /\ me = [w \in Workers |-> SettledRecord(w)]
  /\ chan = [l \in Links |-> <<>>]
  /\ nudged = {}
  /\ now = Cardinality(Workers) + 1
  /\ churn = 0

SettledSpec == SettledInit /\ [][Next]_vars /\ Fairness
============================================================================
