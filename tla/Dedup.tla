------------------------------- MODULE Dedup -------------------------------
(***************************************************************************)
(* DedupManager (src/src/core/dedup-manager.ts): the window of message ids *)
(* a tab remembers.                                                        *)
(*                                                                         *)
(* A window d records the Map seenMessageIds as a sequence in insertion    *)
(* order, and the acceptance rate since the adaptive window began.  Times  *)
(* are multiples of 1 / QUIET_RATE_PER_MS, so that one accepted id per     *)
(* unit is the rate at which the adaptive TTL is shortest.  A clock that   *)
(* cannot be read stands still (nowMs).  The counters are left out.        *)
(***************************************************************************)
EXTENDS Integers, Sequences, Lists

CONSTANTS MaxEntries,      \* option dedup.maxEntries
          TtlMs,           \* option dedup.ttlMs
          MinMs, MaxMs,    \* option dedup.adaptiveTtl
          AdaptiveWindow   \* ADAPTIVE_WINDOW_MS

ASSUME DedupAssumption == /\ {MaxEntries, TtlMs, MinMs, MaxMs} \subseteq Nat \ {0}
                          /\ MinMs <= MaxMs
                          /\ AdaptiveWindow \in Nat \ {0}

EmptyWindow(now) == [seen |-> <<>>, startedAt |-> now, accepted |-> 0]

\* currentTtl begins a new adaptive window when the old one is over.
WindowIsOver(d, adaptive, now) == adaptive /\ now - d.startedAt >= AdaptiveWindow

Rolled(d, adaptive, now) ==
  IF WindowIsOver(d, adaptive, now) THEN [d EXCEPT !.startedAt = now, !.accepted = 0] ELSE d

\* Is age above the TTL in force?  With e units of the window gone, it is
\* MaxMs - (MaxMs - MinMs) * min(1, accepted / e).
Outlives(age, d, adaptive, now) ==
  LET elapsed == now - d.startedAt
      e == IF elapsed > 1 THEN elapsed ELSE 1
      busy == IF d.accepted < e THEN d.accepted ELSE e
  IN CASE ~adaptive -> age > TtlMs
       [] adaptive /\ WindowIsOver(d, adaptive, now) -> age > MaxMs
       [] OTHER -> age * e > MaxMs * e - (MaxMs - MinMs) * busy

\* Mutant: what has expired stays until the cap pushes it out.
PruneNever(d, adaptive, now) == Rolled(d, adaptive, now)

\* What of the window is not above it.
Young(d, adaptive, now) ==
  {entry \in {d.seen[i] : i \in 1..Len(d.seen)} : ~Outlives(now - entry.at, d, adaptive, now)}

\* pruneExpired, and the expiry isDuplicate begins with.
PruneExpired(d, adaptive, now) ==
  [Rolled(d, adaptive, now) EXCEPT !.seen = Kept(d.seen, Young(d, adaptive, now))]

Has(d, id) == \E i \in 1..Len(d.seen) : d.seen[i].id = id

\* Mutant: the newest entries make room.
CutNewest(seen) == IF Len(seen) <= MaxEntries THEN seen ELSE SubSeq(seen, 1, MaxEntries)

\* Mutant: the cap is left to the sweep.
KeepAll(seen) == seen

\* The oldest entries make room for the new one.
Cut(seen) ==
  IF Len(seen) <= MaxEntries THEN seen
  ELSE SubSeq(seen, Len(seen) - MaxEntries + 1, Len(seen))

\* isDuplicate, for an id that PruneExpired left out.
Remember(d, id, now) ==
  [d EXCEPT !.seen = Cut(Append(@, [id |-> id, at |-> now])), !.accepted = @ + 1]
=============================================================================
