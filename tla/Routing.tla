------------------------------ MODULE Routing ------------------------------
(***************************************************************************)
(* The pure owner-selection functions of src/src/core/routing.ts.          *)
(*                                                                         *)
(* A list of WorkerRecords is a function from worker ids to records; ids   *)
(* are naturals, compared as the code compares workerId strings.  A record *)
(* has at least the fields healthy (status is connecting or connected),    *)
(* visible (visibilityState), registeredAt and load.  The adaptive         *)
(* weighting is not configured, so the effective load is the topic count.  *)
(***************************************************************************)
EXTENDS Naturals, FiniteSets

\* selectActiveWorkers prefers healthy records, but never returns nothing.
Available(recs) ==
  LET healthy == {x \in DOMAIN recs : recs[x].healthy}
  IN IF healthy # {} THEN healthy ELSE DOMAIN recs

\* Visible tabs are preferred in the same way among the available ones.
Candidates(recs) ==
  LET visible == {x \in Available(recs) : recs[x].visible}
  IN IF visible # {} THEN visible ELSE Available(recs)

\* The sort order: registration time, then worker id.
RegisteredBefore(recs, x, y) ==
  \/ recs[x].registeredAt < recs[y].registeredAt
  \/ recs[x].registeredAt = recs[y].registeredAt /\ x < y

\* The first max candidates in that order.
SelectActiveWorkers(recs, max) ==
  {x \in Candidates(recs) :
     Cardinality({y \in Candidates(recs) : RegisteredBefore(recs, y, x)}) < max}

\* x is the worker selectLeastLoadedWorker returns for the given loads.
IsLeastLoaded(load, workers, x) ==
  /\ x \in workers
  /\ \A y \in workers : load[x] < load[y] \/ (load[x] = load[y] /\ x <= y)
============================================================================
