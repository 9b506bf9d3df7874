--------------------------- MODULE ReplayProofs ---------------------------
(***************************************************************************)
(* Proofs about Replay, for any topics, limits, retentions and bounds: the *)
(* types, that the newest live messages end a history (LiveTail), that     *)
(* what was cleared stays away (ClearedForGood), and that the manager      *)
(* knows the jobs behind its back (JobsAreCurrent).                        *)
(*                                                                         *)
(* The invariant has four layers, each kept under those before it: Typed,  *)
(* Busy (the jobs), Cleared (the clears) and Tailed (the live messages).   *)
(* They are stated of a state s of the manager, the store and the backoff, *)
(* of a log l and of what is past, p, for the functions of Replay map such *)
(* states to each other.                                                   *)
(***************************************************************************)
EXTENDS Replay, FiniteSetTheorems, SequenceTheorems, WellFoundedInduction, TLAPS

----------------------------------------------------------------------------
(* The types.                                                              *)

Managers ==
  [retention : Nat, ring : [Topics -> Seq(Nat)], pending : Seq(Nat), flushing : BOOLEAN,
   hydration : BOOLEAN, complete : BOOLEAN, failed : BOOLEAN, clearedTopics : SUBSET Topics,
   clearBefore : Nat, cutoff : Int, cleanup : BOOLEAN, sweeping : BOOLEAN]
Transactions == Seq(Ops) \ {<<>>}
Stores == [data : [Topics -> Seq(Nat)], queue : Seq(Ops), transactions : Seq(Transactions)]
States == [mgr : Managers, store : Stores, backoff : SUBSET Ops]
Pasts == [kept : [Topics -> Seq(Nat)], cleared : SUBSET Nat, gone : SUBSET Nat,
          retried : SUBSET Nat]

\* The messages of a list or of one of its topics.
All(l) == 1..Len(l)
Of(l, t) == {m \in All(l) : l[m] = t}

\* The histories are of their topics, and short.
OnTopic(s, l) ==
  /\ \A t \in Topics : /\ s.mgr.ring[t] \in Seq(Of(l, t)) /\ s.store.data[t] \in Seq(Of(l, t))
                       /\ Len(s.mgr.ring[t]) <= MaxPerTopic
                       /\ Len(s.store.data[t]) <= MaxPerTopic
  /\ s.mgr.pending \in Seq(All(l))

\* The operations whose fields agree.
Meant(l) ==
  {op \in Ops : /\ op.kind # "append" => op.messages = <<>>
                /\ op.kind # "clear" => op.doomed = {}
                /\ op.messages \in Seq(All(l))
                /\ \A m \in op.doomed : m \in All(l) /\ l[m] \in op.topics /\ m < op.before}

\* Only appends share a transaction; a cleanup is not tried again.
Fitting(l) ==
  {ops \in Seq(Meant(l)) : \/ Len(ops) = 1
                           \/ Len(ops) > 1 /\ \A k \in 1..Len(ops) : ops[k].kind = "append"}
Again(l) == {op \in Meant(l) : op.live /\ op.kind # "cleanup"}

Logged(l, p) ==
  /\ l \in Seq(Topics) /\ Len(l) <= MaxMessages
  /\ p \in Pasts
  /\ p.cleared \subseteq All(l) /\ p.gone \subseteq All(l)
  /\ \A t \in Topics : p.kept[t] \in Seq(Of(l, t))

Typed(s, l, p) ==
  /\ s \in States /\ Logged(l, p) /\ OnTopic(s, l)
  /\ s.store.queue \in Seq(Meant(l)) /\ s.store.transactions \in Seq(Fitting(l))
  /\ s.backoff \subseteq Again(l)

----------------------------------------------------------------------------
(* The jobs.                                                               *)

Hydrating(op) == op.kind \in {"prepare", "load"} /\ op.live

\* Where a hydration is carried on.
Queued(q) == {i \in 1..Len(q) : Hydrating(q[i])}
Begun(x) == {i \in 1..Len(x) : Hydrating(x[i][1])}
Delayed(b) == {op \in b : Hydrating(op)}

\* There is one such place if the manager knows of a hydration, else none.
OnePlace(known, q, x, b) ==
  IF known THEN \/ (\E i \in 1..Len(q) : Queued(q) = {i}) /\ Begun(x) = {} /\ Delayed(b) = {}
                \/ Queued(q) = {} /\ (\E i \in 1..Len(x) : Begun(x) = {i}) /\ Delayed(b) = {}
                \/ Queued(q) = {} /\ Begun(x) = {} /\ (\E op \in b : Delayed(b) = {op})
  ELSE Queued(q) = {} /\ Begun(x) = {} /\ Delayed(b) = {}

\* A cut-off that waits has a cleanup.
Awaited(s) == s.mgr.cutoff # None => s.mgr.cleanup

Busy(s) ==
  Awaited(s) /\ OnePlace(s.mgr.hydration, s.store.queue, s.store.transactions, s.backoff)

----------------------------------------------------------------------------
(* The clears.                                                             *)

\* What may be in the store, in a history, or wait to be appended.
Stored(p) == {m \in Nat : m \in p.gone => m \in p.retried}
Shown(p) == Stored(p) \ p.cleared
Waiting(p) == Nat \ (p.gone \cup p.cleared)

\* A live clear is of this session; no append behind it brings back what it
\* removes, unless it is tried again.
OfSession(p) ==
  {op \in Ops : op.kind = "clear" /\ op.live => op.doomed \subseteq p.cleared}
Sent(p) == {op \in OfSession(p) : op.messages \in Seq(Stored(p))}
Apart(op, later, p) ==
  op.kind = "clear" /\ op.live /\ later.kind = "append" =>
    later.messages \in Seq(p.retried \cup (Nat \ op.doomed))

InOrder(q, x, p) ==
  /\ \A i, j \in 1..Len(q) : i < j => Apart(q[i], q[j], p)
  /\ \A i \in 1..Len(x), j \in 1..Len(q) : Apart(x[i][1], q[j], p)
  /\ \A i, j \in 1..Len(x) : i < j => \A k \in 1..Len(x[j]) : Apart(x[i][1], x[j][k], p)

\* What was cleared is known for as long as a load may bring it back.
Remembered(s, l, p) ==
  \A m \in p.cleared : l[m] \in s.mgr.clearedTopics \/ m < s.mgr.clearBefore

Cleared(s, l, p) ==
  /\ \A t \in Topics : /\ s.mgr.ring[t] \in Seq(Shown(p))
                       /\ s.store.data[t] \in Seq(Stored(p))
  /\ s.mgr.pending \in Seq(Waiting(p))
  /\ Remembered(s, l, p)
  /\ InOrder(s.store.queue, s.store.transactions, p)
  /\ s.store.queue \in Seq(Sent(p)) /\ s.store.transactions \in Seq(Seq(Sent(p)))
  /\ s.backoff \subseteq OfSession(p)

----------------------------------------------------------------------------
(* The live messages.                                                      *)

Ascending(messages) ==
  \A i, j \in 1..Len(messages) : i < j => messages[i] < messages[j]

\* a ends b.
Ends(a, b) ==
  Len(a) <= Len(b) /\ \A i \in 1..Len(a) : a[i] = b[Len(b) - Len(a) + i]

Tailed(s, p) ==
  \A t \in Topics : Ascending(p.kept[t]) /\ Ends(Pruned(p.kept[t]), s.mgr.ring[t])

----------------------------------------------------------------------------
Good(s, l, p) == Typed(s, l, p) /\ Busy(s) /\ Cleared(s, l, p) /\ Tailed(s, p)

IInv == Good(Here, log, past) /\ phase \in {"stopped", "running", "suspended"}

----------------------------------------------------------------------------
(* Induction, for what the prover does not know of the numbers.            *)

\* A set of numbers that is not empty has a least one.
LEMMA Least ==
  ASSUME NEW T, T \subseteq Nat, T # {}
  PROVE  \E x \in T : \A y \in T : x <= y
<1> DEFINE R == OpToRel(<, Nat)
<1>1. IsWellFoundedOn(R, Nat)
  BY NatLessThanWellFounded
<1>2. \A x, y \in Nat : <<y, x>> \in R <=> y < x
  BY DEF OpToRel
<1> HIDE DEF R
<1>3. PICK x \in T : \A y \in T : ~ (<<y, x>> \in R)
  BY <1>1, WFMin
<1>4. \A y \in T : ~ (y < x)
  BY <1>2, <1>3
<1> QED BY <1>4

\* A set that has 0 and with a number its successor has all.
LEMMA Induct ==
  ASSUME NEW T, 0 \in T, \A n \in Nat : n \in T => n + 1 \in T
  PROVE  \A n \in Nat : n \in T
<1>1. SUFFICES ASSUME Nat \ T # {} PROVE FALSE
  OBVIOUS
<1>2. PICK x \in Nat \ T : \A y \in Nat \ T : x <= y
  BY <1>1, Least, Nat \ T \subseteq Nat
<1>3. x - 1 \in Nat /\ x - 1 \in T
  BY <1>2
<1> QED BY <1>2, <1>3

----------------------------------------------------------------------------
(* Kept: the messages of a list that are among others.                     *)

\* The function of its definition, and one step of it.
KeptStep(messages, those, f, i) ==
  IF i = 0 THEN <<>>
  ELSE IF messages[i] \in those THEN Append(f[i - 1], messages[i])
  ELSE f[i - 1]
KeptUpTo(messages, those) ==
  CHOOSE kept : kept = [i \in 0..Len(messages) |-> KeptStep(messages, those, kept, i)]

\* Kept is its last value.
LEMMA KeptIs ==
  ASSUME NEW messages, NEW those
  PROVE  Kept(messages, those) = KeptUpTo(messages, those)[Len(messages)]
BY DEF Kept, KeptUpTo, KeptStep

\* The function of the definition exists, for each length of a prefix.
LEMMA KeptExists ==
  ASSUME NEW S, NEW messages \in Seq(S), NEW those
  PROVE  \E f : f = [i \in 0..Len(messages) |-> KeptStep(messages, those, f, i)]
<1> DEFINE Body(f, i) == KeptStep(messages, those, f, i)
<1> DEFINE T == {n \in Nat : \E f : f = [i \in 0..n |-> Body(f, i)]}
<1>1. 0 \in T
  <2>1. [i \in 0..0 |-> <<>>] = [i \in 0..0 |-> Body([j \in 0..0 |-> <<>>], i)]
    BY DEF KeptStep
  <2> HIDE DEF Body
  <2> QED BY <2>1
<1>2. ASSUME NEW n \in Nat, n \in T
      PROVE  n + 1 \in T
  <2>1. PICK f : f = [i \in 0..n |-> Body(f, i)]
    BY <1>2
  <2> DEFINE g == [i \in 0..(n + 1) |-> IF i = n + 1 THEN Body(f, n + 1) ELSE f[i]]
  <2>2. ASSUME NEW i \in 0..(n + 1)
        PROVE  g[i] = Body(g, i)
    <3>1. CASE i = 0
      <4>1. g[i] = f[0] /\ f[0] = Body(f, 0)
        BY <2>1, <3>1
      <4> QED BY <4>1, <3>1 DEF KeptStep
    <3>2. CASE i # 0
      <4>1. i - 1 \in 0..n
        BY <3>2
      <4>2. g[i - 1] = f[i - 1]
        BY <4>1
      <4> HIDE DEF g
      <4>3. Body(g, i) = Body(f, i)
        BY <4>2, <3>2 DEF KeptStep
      <4>4. i # n + 1 => f[i] = Body(f, i)
        BY <2>1, <3>2
      <4> USE DEF g
      <4> HIDE DEF Body
      <4> QED BY <4>3, <4>4 DEF g
    <3> QED BY <3>1, <3>2
  <2>3. g = [i \in 0..(n + 1) |-> g[i]]
    OBVIOUS
  <2> HIDE DEF g, Body
  <2>4. g = [i \in 0..(n + 1) |-> Body(g, i)]
    BY <2>2, <2>3
  <2> QED BY <2>4
<1> HIDE DEF T
<1>3. Len(messages) \in T
  BY <1>1, <1>2, Induct
<1> QED BY <1>3 DEF T

\* So it is what its definition says.
LEMMA KeptSteps ==
  ASSUME NEW S, NEW messages \in Seq(S), NEW those
  PROVE  /\ KeptUpTo(messages, those)[0] = <<>>
         /\ \A i \in 1..Len(messages) :
              KeptUpTo(messages, those)[i] =
                IF messages[i] \in those
                THEN Append(KeptUpTo(messages, those)[i - 1], messages[i])
                ELSE KeptUpTo(messages, those)[i - 1]
<1> DEFINE f == KeptUpTo(messages, those)
<1>1. f = [i \in 0..Len(messages) |-> KeptStep(messages, those, f, i)]
  BY KeptExists DEF KeptUpTo
<1>2. Len(messages) \in Nat
  OBVIOUS
<1> HIDE DEF f
<1>3. \A i \in 0..Len(messages) : f[i] = KeptStep(messages, those, f, i)
  BY <1>1
<1>4. f[0] = <<>>
  BY <1>3, <1>2 DEF KeptStep
<1>5. ASSUME NEW i \in 1..Len(messages)
      PROVE  f[i] = IF messages[i] \in those THEN Append(f[i - 1], messages[i]) ELSE f[i - 1]
  <2>1. i # 0 /\ i \in 0..Len(messages)
    BY <1>2
  <2>2. f[i] = KeptStep(messages, those, f, i)
    BY <1>3, <2>1
  <2> QED BY <2>1, <2>2, Zenon DEF KeptStep
<1> QED BY <1>4, <1>5 DEF f

\* Kept lists what was there and is among those; it is not longer.
LEMMA KeptType ==
  ASSUME NEW S, NEW messages \in Seq(S), NEW those
  PROVE  /\ Kept(messages, those) \in Seq(S \cap those)
         /\ Len(Kept(messages, those)) <= Len(messages)
<1> DEFINE f == KeptUpTo(messages, those)
           T == {n \in Nat : n <= Len(messages) => f[n] \in Seq(S \cap those) /\ Len(f[n]) <= n}
<1>1. /\ f[0] = <<>>
      /\ \A i \in 1..Len(messages) :
           f[i] = IF messages[i] \in those THEN Append(f[i - 1], messages[i]) ELSE f[i - 1]
  BY KeptSteps
<1> HIDE DEF f
<1>2. 0 \in T
  <2>1. <<>> \in Seq(S \cap those) /\ Len(<<>>) = 0
    BY EmptySeq
  <2>2. f[0] \in Seq(S \cap those) /\ Len(f[0]) = 0
    BY <1>1, <2>1, Zenon
  <2> QED BY <2>2
<1>3. ASSUME NEW n \in Nat, n \in T
      PROVE  n + 1 \in T
  <2>1. SUFFICES ASSUME n + 1 <= Len(messages)
                 PROVE  f[n + 1] \in Seq(S \cap those) /\ Len(f[n + 1]) <= n + 1
    OBVIOUS
  <2>2. n + 1 \in 1..Len(messages) /\ messages[n + 1] \in S /\ n <= Len(messages)
    BY <2>1
  <2>3. f[n] \in Seq(S \cap those) /\ Len(f[n]) <= n
    BY <1>3, <2>2
  <2>4. f[n + 1] = IF messages[n + 1] \in those THEN Append(f[n], messages[n + 1]) ELSE f[n]
    BY <1>1, <2>2
  <2> QED BY <2>2, <2>3, <2>4
<1> HIDE DEF T
<1>4. Len(messages) \in T /\ Len(messages) \in Nat
  BY <1>2, <1>3, Induct
<1> QED BY <1>4, KeptIs DEF T, f

\* What is kept of two lists that agree on a prefix agrees on it.
LEMMA KeptPrefix ==
  ASSUME NEW S, NEW a \in Seq(S), NEW b \in Seq(S), NEW those, Len(a) <= Len(b),
         \A i \in 1..Len(a) : a[i] = b[i]
  PROVE  KeptUpTo(b, those)[Len(a)] = Kept(a, those)
<1> DEFINE f == KeptUpTo(a, those)
           g == KeptUpTo(b, those)
           T == {n \in Nat : n <= Len(a) => g[n] = f[n]}
<1>1. /\ f[0] = <<>>
      /\ \A i \in 1..Len(a) : f[i] = IF a[i] \in those THEN Append(f[i - 1], a[i]) ELSE f[i - 1]
  BY KeptSteps
<1>2. /\ g[0] = <<>>
      /\ \A i \in 1..Len(b) : g[i] = IF b[i] \in those THEN Append(g[i - 1], b[i]) ELSE g[i - 1]
  BY KeptSteps
<1> HIDE DEF f, g
<1>3. 0 \in T
  BY <1>1, <1>2
<1>4. ASSUME NEW n \in Nat, n \in T
      PROVE  n + 1 \in T
  <2>1. SUFFICES ASSUME n + 1 <= Len(a) PROVE g[n + 1] = f[n + 1]
    OBVIOUS
  <2>2. n + 1 \in 1..Len(a) /\ n + 1 \in 1..Len(b) /\ g[n] = f[n]
    BY <1>4, <2>1
  <2>3. (n + 1) - 1 = n
    OBVIOUS
  <2> QED BY <1>1, <1>2, <2>2, <2>3
<1> HIDE DEF T
<1>5. Len(a) \in T /\ Len(a) \in Nat
  BY <1>3, <1>4, Induct
<1> QED BY <1>5, KeptIs DEF T, f, g

\* What is kept of two lists, one behind the other.
LEMMA KeptConcat ==
  ASSUME NEW S, NEW a \in Seq(S), NEW b \in Seq(S), NEW those
  PROVE  Kept(a \o b, those) = Kept(a, those) \o Kept(b, those)
<1> DEFINE c == a \o b
           f == KeptUpTo(b, those)
           g == KeptUpTo(c, those)
           k == Kept(a, those)
           T == {n \in Nat : n <= Len(b) => f[n] \in Seq(S) /\ g[Len(a) + n] = k \o f[n]}
<1>1. /\ f[0] = <<>>
      /\ \A i \in 1..Len(b) : f[i] = IF b[i] \in those THEN Append(f[i - 1], b[i]) ELSE f[i - 1]
  BY KeptSteps
<1>2. /\ c \in Seq(S) /\ Len(c) = Len(a) + Len(b)
      /\ \A i \in 1..Len(a) : c[i] = a[i]
      /\ \A i \in 1..Len(b) : c[Len(a) + i] = b[i]
  OBVIOUS
<1> HIDE DEF c
<1>3. \A i \in 1..Len(c) : g[i] = IF c[i] \in those THEN Append(g[i - 1], c[i]) ELSE g[i - 1]
  BY KeptSteps, <1>2
<1>4. Len(a) \in Nat /\ Len(b) \in Nat
  OBVIOUS
<1>5. g[Len(a)] = k
  BY <1>2, <1>4, KeptPrefix
<1>6. k \in Seq(S)
  <2>1. k \in Seq(S \cap those)
    BY KeptType
  <2> QED BY <2>1, SeqMonotonic, S \cap those \subseteq S
<1> HIDE DEF f, g, k
<1>7. 0 \in T
  <2>1. k \o <<>> = k /\ <<>> \in Seq(S)
    BY <1>6, ConcatEmptySeq, EmptySeq
  <2>2. f[0] = <<>> /\ Len(a) + 0 = Len(a)
    BY <1>1, <1>4
  <2>3. f[0] \in Seq(S) /\ g[Len(a) + 0] = k \o f[0]
    BY <1>5, <2>1, <2>2, Zenon
  <2> QED BY <2>3
<1>8. ASSUME NEW n \in Nat, n \in T
      PROVE  n + 1 \in T
  <2>1. SUFFICES ASSUME n + 1 <= Len(b)
                 PROVE  f[n + 1] \in Seq(S) /\ g[Len(a) + (n + 1)] = k \o f[n + 1]
    BY DEF T
  <2>2. n + 1 \in 1..Len(b) /\ Len(a) + (n + 1) \in 1..Len(c)
    BY <1>2, <1>4, <2>1
  <2>3. f[n] \in Seq(S) /\ g[Len(a) + n] = k \o f[n]
    BY <1>8, <2>1
  <2>4. c[Len(a) + (n + 1)] = b[n + 1] /\ b[n + 1] \in S
    BY <1>2, <2>2
  <2>5. f[n + 1] = IF b[n + 1] \in those THEN Append(f[n], b[n + 1]) ELSE f[n]
    BY <1>1, <2>2
  <2>6. (Len(a) + (n + 1)) - 1 = Len(a) + n
    BY <1>4
  <2>7. g[Len(a) + (n + 1)] = IF b[n + 1] \in those THEN Append(g[Len(a) + n], b[n + 1])
                              ELSE g[Len(a) + n]
    BY <1>3, <2>2, <2>4, <2>6
  <2>8. Append(k \o f[n], b[n + 1]) = k \o Append(f[n], b[n + 1])
    <3> DEFINE e == b[n + 1]
    <3>1. e \in S /\ <<e>> \in Seq(S)
      BY <2>4
    <3> HIDE DEF e
    <3>2. k \o f[n] \in Seq(S)
      BY <1>6, <2>3, ConcatProperties
    <3>3. Append(k \o f[n], e) = (k \o f[n]) \o <<e>> /\ Append(f[n], e) = f[n] \o <<e>>
      BY <2>3, <3>1, <3>2, AppendIsConcat
    <3> DEFINE h == f[n]
               w == <<e>>
    <3>4. k \in Seq(S) /\ h \in Seq(S) /\ w \in Seq(S)
      BY <1>6, <2>3, <3>1
    <3> HIDE DEF h, w
    <3>5. (k \o h) \o w = k \o (h \o w)
      BY <3>4
    <3> QED BY <3>3, <3>5 DEF e, h, w
  <2>9. Append(f[n], b[n + 1]) \in Seq(S)
    BY <2>3, <2>4, AppendProperties
  <2> QED BY <2>3, <2>5, <2>7, <2>8, <2>9
<1> HIDE DEF T
<1>9. Len(b) \in T
  BY <1>4, <1>7, <1>8, Induct
<1>10. g[Len(a) + Len(b)] = k \o f[Len(b)]
  BY <1>4, <1>9 DEF T
<1>11. Kept(c, those) = g[Len(c)] /\ Kept(b, those) = f[Len(b)]
  BY KeptIs DEF f, g
<1> QED BY <1>2, <1>10, <1>11 DEF c, k

\* A list of those is kept as it is.
LEMMA KeptWhole ==
  ASSUME NEW S, NEW messages \in Seq(S), NEW those,
         \A i \in 1..Len(messages) : messages[i] \in those
  PROVE  Kept(messages, those) = messages
<1> DEFINE f == KeptUpTo(messages, those)
           T == {n \in Nat : n <= Len(messages) => f[n] = SubSeq(messages, 1, n)}
<1>1. /\ f[0] = <<>>
      /\ \A i \in 1..Len(messages) : f[i] = Append(f[i - 1], messages[i])
  BY KeptSteps
<1> HIDE DEF f
<1>2. 0 \in T
  <2>1. SubSeq(messages, 1, 0) = <<>>
    BY SubSeqEmpty
  <2>2. f[0] = SubSeq(messages, 1, 0)
    BY <1>1, <2>1, Zenon
  <2> QED BY <2>2
<1>3. ASSUME NEW n \in Nat, n \in T
      PROVE  n + 1 \in T
  <2>1. SUFFICES ASSUME n + 1 <= Len(messages)
                 PROVE  f[n + 1] = SubSeq(messages, 1, n + 1)
    OBVIOUS
  <2>2. f[n + 1] = Append(SubSeq(messages, 1, n), messages[n + 1])
    <3>1. n + 1 \in 1..Len(messages) /\ (n + 1) - 1 = n
      BY <2>1
    <3>2. f[n] = SubSeq(messages, 1, n)
      BY <1>3, <2>1
    <3> QED BY <1>1, <3>1, <3>2
  <2>3. SubSeq(messages, 1, n + 1) = Append(SubSeq(messages, 1, n), messages[n + 1])
    BY <2>1
  <2> QED BY <2>2, <2>3
<1> HIDE DEF T
<1>4. Len(messages) \in T /\ Len(messages) \in Nat
  BY <1>2, <1>3, Induct
<1>5. f[Len(messages)] = SubSeq(messages, 1, Len(messages))
  BY <1>4 DEF T
<1> QED BY <1>5, KeptIs, SubSeqFull DEF f

\* Nothing is kept of a list of others.
LEMMA KeptNone ==
  ASSUME NEW S, NEW messages \in Seq(S), NEW those, S \cap those = {}
  PROVE  Kept(messages, those) = <<>>
<1>1. Kept(messages, those) \in Seq({})
  BY KeptType
<1> QED BY <1>1

----------------------------------------------------------------------------
(* The newest messages of a list, and lists that end others.               *)

\* Pruning leaves the last MaxPerTopic messages.
LEMMA PrunedType ==
  ASSUME NEW S, NEW messages \in Seq(S)
  PROVE  /\ Pruned(messages) \in Seq(S)
         /\ Len(Pruned(messages)) = IF Len(messages) > MaxPerTopic THEN MaxPerTopic
                                    ELSE Len(messages)
         /\ \A i \in 1..Len(Pruned(messages)) :
              Pruned(messages)[i] = messages[Len(messages) - Len(Pruned(messages)) + i]
<1> DEFINE n == Len(messages)
           b == IF n > MaxPerTopic THEN n - MaxPerTopic + 1 ELSE 1
<1>1. n \in Nat /\ MaxPerTopic \in Nat /\ MaxPerTopic > 0
  BY ReplayAssumption
<1>2. b \in Int /\ b >= 1 /\ b <= n + 1 /\ (n > MaxPerTopic => b = n - MaxPerTopic + 1)
      /\ (~(n > MaxPerTopic) => b = 1)
  BY <1>1
<1>3. Pruned(messages) = SubSeq(messages, b, n)
  BY DEF Pruned
<1>4. \A i \in b..n : messages[i] \in S
  BY <1>1, <1>2
<1> HIDE DEF n, b
<1>5. /\ SubSeq(messages, b, n) \in Seq(S)
      /\ Len(SubSeq(messages, b, n)) = n - b + 1
      /\ \A i \in 1..(n - b + 1) : SubSeq(messages, b, n)[i] = messages[b + i - 1]
  BY <1>1, <1>2, <1>4, SubSeqProperties
<1>6. Len(Pruned(messages)) = IF n > MaxPerTopic THEN MaxPerTopic ELSE n
  BY <1>1, <1>2, <1>3, <1>5
<1>7. ASSUME NEW i \in 1..Len(Pruned(messages))
      PROVE  Pruned(messages)[i] = messages[n - Len(Pruned(messages)) + i]
  <2>1. Len(Pruned(messages)) = n - b + 1
    BY <1>3, <1>5
  <2>2. n - Len(Pruned(messages)) + i = b + i - 1 /\ i \in 1..(n - b + 1)
    BY <1>1, <1>2, <2>1
  <2> QED BY <1>3, <1>5, <2>2
<1> QED BY <1>3, <1>5, <1>6, <1>7 DEF n

\* A short list stays as it is.
LEMMA PrunedShort ==
  ASSUME NEW S, NEW messages \in Seq(S), Len(messages) <= MaxPerTopic
  PROVE  Pruned(messages) = messages
<1>1. Len(messages) \in Nat /\ MaxPerTopic \in Nat
  BY ReplayAssumption
<1>2. ~(Len(messages) > MaxPerTopic)
  BY <1>1
<1>3. Pruned(messages) = SubSeq(messages, 1, Len(messages))
  BY <1>2, Zenon DEF Pruned
<1> QED BY <1>3, SubSeqFull

\* Ends is IsSuffix.
LEMMA EndsIs ==
  ASSUME NEW S, NEW a \in Seq(S), NEW b \in Seq(S), Ends(a, b)
  PROVE  IsSuffix(a, b)
<1> DEFINE ra == [i \in 1..Len(a) |-> a[(Len(a) - i) + 1]]
           rb == [i \in 1..Len(b) |-> b[(Len(b) - i) + 1]]
<1>1. Len(a) \in Nat /\ Len(b) \in Nat /\ Len(a) <= Len(b)
  BY DEF Ends
<1>2. ra \in Seq(S) /\ Len(ra) = Len(a) /\ rb \in Seq(S) /\ Len(rb) = Len(b)
  BY <1>1
<1>3. \A i \in 1..Len(a) : ra[i] = rb[i]
  <2>1. TAKE i \in 1..Len(a)
  <2>2. (Len(a) - i) + 1 \in 1..Len(a) /\ i \in 1..Len(b)
    BY <1>1
  <2>3. a[(Len(a) - i) + 1] = b[Len(b) - Len(a) + ((Len(a) - i) + 1)]
    BY <2>2 DEF Ends
  <2>4. Len(b) - Len(a) + ((Len(a) - i) + 1) = (Len(b) - i) + 1
    BY <1>1
  <2> QED BY <2>2, <2>3, <2>4
<1> HIDE DEF ra, rb
<1>4. SubSeq(ra, 1, Len(ra)) = SubSeq(rb, 1, Len(ra))
  <2>1. /\ \A i \in 1..Len(ra) : ra[i] \in S /\ rb[i] \in S
        /\ 1 \in Int /\ Len(ra) \in Int /\ Len(ra) - 1 + 1 = Len(ra)
    BY <1>1, <1>2
  <2> DEFINE u == SubSeq(ra, 1, Len(ra))
             v == SubSeq(rb, 1, Len(ra))
             n == Len(ra)
  <2>2. /\ u \in Seq(S) /\ Len(u) = IF 1 <= n THEN n - 1 + 1 ELSE 0
        /\ \A i \in 1..(n - 1 + 1) : u[i] = ra[1 + i - 1]
    BY <2>1, SubSeqProperties
  <2>3. /\ v \in Seq(S) /\ Len(v) = IF 1 <= n THEN n - 1 + 1 ELSE 0
        /\ \A i \in 1..(n - 1 + 1) : v[i] = rb[1 + i - 1]
    BY <2>1, SubSeqProperties
  <2>4. n = Len(a) /\ n - 1 + 1 = n /\ \A i \in 1..n : 1 + i - 1 = i
    BY <1>1, <1>2
  <2> HIDE DEF u, v, n
  <2>5. Len(u) = Len(v) /\ \A i \in 1..Len(u) : u[i] = v[i]
    BY <1>1, <1>3, <2>2, <2>3, <2>4
  <2> QED BY <2>2, <2>3, <2>5, SeqEqual DEF u, v, n
<1>5. IsPrefix(ra, rb)
  BY <1>1, <1>2, <1>4 DEF IsPrefix
<1>6. Reverse(a) = ra /\ Reverse(b) = rb
  BY DEF Reverse, ra, rb
<1> QED BY <1>5, <1>6 DEF IsSuffix

\* What ends a list ends a longer one with the same end, pruned or not.
LEMMA EndsMerged ==
  ASSUME NEW S, NEW a \in Seq(S), NEW b \in Seq(S), NEW c \in Seq(S),
         Ends(a, b), Len(a) <= MaxPerTopic
  PROVE  Ends(a, Pruned(c \o b))
<1> DEFINE d == c \o b
           p == Pruned(d)
<1>1. /\ Len(a) \in Nat /\ Len(b) \in Nat /\ Len(c) \in Nat /\ MaxPerTopic \in Nat
      /\ Len(a) <= Len(b)
  BY ReplayAssumption DEF Ends
<1>2. d \in Seq(S) /\ Len(d) = Len(c) + Len(b) /\ \A i \in 1..Len(b) : d[Len(c) + i] = b[i]
  BY <1>1
<1> HIDE DEF d
<1>3. /\ p \in Seq(S) /\ Len(p) = IF Len(d) > MaxPerTopic THEN MaxPerTopic ELSE Len(d)
      /\ \A i \in 1..Len(p) : p[i] = d[Len(d) - Len(p) + i]
  BY <1>2, PrunedType
<1> HIDE DEF p
<1>4. Len(a) <= Len(p) /\ Len(p) \in Nat /\ Len(d) \in Nat /\ Len(p) <= Len(d)
  BY <1>1, <1>2, <1>3
<1>5. ASSUME NEW i \in 1..Len(a)
      PROVE  a[i] = p[Len(p) - Len(a) + i]
  <2>1. /\ Len(p) - Len(a) + i \in 1..Len(p)
        /\ Len(d) - Len(p) + (Len(p) - Len(a) + i) = Len(c) + (Len(b) - Len(a) + i)
        /\ Len(b) - Len(a) + i \in 1..Len(b)
    BY <1>1, <1>2, <1>4
  <2>2. p[Len(p) - Len(a) + i] = d[Len(c) + (Len(b) - Len(a) + i)]
    BY <1>3, <2>1
  <2>3. a[i] = b[Len(b) - Len(a) + i]
    BY DEF Ends
  <2> QED BY <1>2, <2>1, <2>2, <2>3
<1>6. Ends(a, p)
  BY <1>4, <1>5 DEF Ends
<1> QED BY <1>6 DEF p, d

\* A message that is added to both lists.
LEMMA EndsAppend ==
  ASSUME NEW S, NEW a \in Seq(S), NEW b \in Seq(S), NEW m \in S, Ends(Pruned(a), b)
  PROVE  Ends(Pruned(Append(a, m)), Pruned(Append(b, m)))
<1> DEFINE A == Append(a, m)
           B == Append(b, m)
           p == Pruned(a)
           P == Pruned(A)
           Q == Pruned(B)
           k == Len(p)
           n == Len(P)
<1>1. Len(a) \in Nat /\ Len(b) \in Nat /\ MaxPerTopic \in Nat /\ MaxPerTopic > 0
  BY ReplayAssumption
<1>2. /\ p \in Seq(S) /\ k = IF Len(a) > MaxPerTopic THEN MaxPerTopic ELSE Len(a)
      /\ \A i \in 1..k : p[i] = a[Len(a) - k + i]
  BY PrunedType
<1>3. /\ A \in Seq(S) /\ Len(A) = Len(a) + 1 /\ A[Len(a) + 1] = m
      /\ \A i \in 1..Len(a) : A[i] = a[i]
  BY AppendProperties
<1>4. /\ B \in Seq(S) /\ Len(B) = Len(b) + 1 /\ B[Len(b) + 1] = m
      /\ \A i \in 1..Len(b) : B[i] = b[i]
  BY AppendProperties
<1> HIDE DEF A, B
<1>5. /\ P \in Seq(S) /\ n = IF Len(A) > MaxPerTopic THEN MaxPerTopic ELSE Len(A)
      /\ \A i \in 1..n : P[i] = A[Len(A) - n + i]
  BY <1>3, PrunedType
<1>6. /\ Q \in Seq(S) /\ Len(Q) = IF Len(B) > MaxPerTopic THEN MaxPerTopic ELSE Len(B)
      /\ \A i \in 1..Len(Q) : Q[i] = B[Len(B) - Len(Q) + i]
  BY <1>4, PrunedType
<1>7. k <= Len(b) /\ \A i \in 1..k : p[i] = b[Len(b) - k + i]
  BY DEF Ends
<1> HIDE DEF p, P, Q, k, n
<1>8. /\ k \in Nat /\ n \in Nat /\ Len(Q) \in Nat /\ n <= Len(Q) /\ n <= k + 1 /\ n >= 1
      /\ k <= Len(a) /\ n <= Len(a) + 1 /\ Len(Q) <= Len(b) + 1
  BY <1>1, <1>2, <1>3, <1>4, <1>5, <1>6, <1>7
<1>9. ASSUME NEW i \in 1..n
      PROVE  P[i] = Q[Len(Q) - n + i]
  <2>1. /\ Len(Q) - n + i \in 1..Len(Q)
        /\ Len(B) - Len(Q) + (Len(Q) - n + i) = Len(b) + 1 - n + i
        /\ Len(A) - n + i = Len(a) + 1 - n + i
    BY <1>3, <1>4, <1>8, <1>1
  <2>2. P[i] = A[Len(a) + 1 - n + i] /\ Q[Len(Q) - n + i] = B[Len(b) + 1 - n + i]
    BY <1>5, <1>6, <2>1
  <2>3. CASE i = n
    <3>1. Len(a) + 1 - n + i = Len(a) + 1 /\ Len(b) + 1 - n + i = Len(b) + 1
      BY <2>3, <1>1, <1>8
    <3> QED BY <2>2, <3>1, <1>3, <1>4
  <2>4. CASE i # n
    <3> DEFINE j == k + 1 - n + i
    <3>1. /\ j \in 1..k
          /\ Len(a) - k + j = Len(a) + 1 - n + i /\ Len(b) - k + j = Len(b) + 1 - n + i
          /\ Len(a) + 1 - n + i \in 1..Len(a) /\ Len(b) + 1 - n + i \in 1..Len(b)
      BY <2>4, <1>1, <1>7, <1>8
    <3> HIDE DEF j
    <3>2. a[Len(a) + 1 - n + i] = b[Len(b) + 1 - n + i]
      BY <1>2, <1>7, <3>1
    <3> QED BY <2>2, <3>1, <3>2, <1>3, <1>4
  <2> QED BY <2>3, <2>4
<1>10. Ends(P, Q)
  BY <1>8, <1>9 DEF Ends, n
<1> QED BY <1>10 DEF P, Q, A, B

\* A list ends every list that is continued by it.
LEMMA EndsConcat ==
  ASSUME NEW S, NEW a \in Seq(S), NEW c \in Seq(S)
  PROVE  Ends(a, c \o a)
<1>1. /\ Len(c \o a) = Len(c) + Len(a) /\ Len(a) \in Nat /\ Len(c) \in Nat
      /\ \A i \in 1..Len(a) : (c \o a)[Len(c) + i] = a[i]
  OBVIOUS
<1>2. Len(c \o a) - Len(a) = Len(c)
  BY <1>1
<1> QED BY <1>1, <1>2 DEF Ends

\* Such a list is longer by its beginning.
LEMMA EndsSplit ==
  ASSUME NEW S, NEW a \in Seq(S), NEW b \in Seq(S), Ends(a, b)
  PROVE  \E c \in Seq(S) : /\ b = c \o a /\ Len(c) = Len(b) - Len(a)
                           /\ \A i \in 1..Len(c) : c[i] = b[i]
<1> DEFINE k == Len(b) - Len(a)
           c == SubSeq(b, 1, k)
<1>1. Len(a) \in Nat /\ Len(b) \in Nat /\ k \in Nat /\ k <= Len(b)
  BY DEF Ends
<1>2. c \in Seq(S) /\ Len(c) = k /\ \A i \in 1..k : c[i] = b[i]
  BY <1>1
<1> HIDE DEF c
<1>3. c \o a \in Seq(S) /\ Len(c \o a) = Len(b)
  BY <1>1, <1>2
<1>4. ASSUME NEW i \in 1..Len(b)
      PROVE  b[i] = (c \o a)[i]
  <2>1. CASE i <= k
    BY <2>1, <1>1, <1>2
  <2>2. CASE i > k
    <3>1. i - k \in 1..Len(a) /\ k + (i - k) = i
      BY <2>2, <1>1
    <3>2. (c \o a)[i] = a[i - k]
      BY <2>2, <1>1, <1>2, <3>1
    <3>3. a[i - k] = b[k + (i - k)]
      BY <3>1 DEF Ends
    <3> QED BY <3>1, <3>2, <3>3
  <2>3. i \in Nat /\ k \in Nat
    BY <1>1
  <2> HIDE DEF k
  <2>4. i <= k \/ i > k
    BY <2>3
  <2> QED BY <2>1, <2>2, <2>4
<1>5. b = c \o a
  BY <1>3, <1>4, SeqEqual
<1> QED BY <1>2, <1>5

\* What pruning leaves ends the list.
LEMMA PrunedEnds ==
  ASSUME NEW S, NEW messages \in Seq(S)
  PROVE  Ends(Pruned(messages), messages)
<1>1. Len(messages) \in Nat /\ MaxPerTopic \in Nat
  BY ReplayAssumption
<1>2. /\ Len(Pruned(messages)) = IF Len(messages) > MaxPerTopic THEN MaxPerTopic
                                 ELSE Len(messages)
      /\ \A i \in 1..Len(Pruned(messages)) :
           Pruned(messages)[i] = messages[Len(messages) - Len(Pruned(messages)) + i]
      /\ Pruned(messages) \in Seq(S)
  BY PrunedType
<1>3. Len(Pruned(messages)) <= Len(messages)
  BY <1>1, <1>2
<1> QED BY <1>2, <1>3 DEF Ends

\* A full list is what pruning leaves of a list it ends.
LEMMA PrunedFull ==
  ASSUME NEW S, NEW a \in Seq(S), NEW c \in Seq(S), Len(a) = MaxPerTopic
  PROVE  Pruned(c \o a) = a
<1> DEFINE p == Pruned(c \o a)
<1>1. c \o a \in Seq(S) /\ Len(c \o a) >= MaxPerTopic /\ MaxPerTopic \in Nat
  BY ReplayAssumption
<1>2. p \in Seq(S) /\ Len(p) = MaxPerTopic
  <2> DEFINE d == c \o a
  <2>1. d \in Seq(S) /\ Len(d) >= MaxPerTopic /\ MaxPerTopic \in Nat /\ Len(d) \in Nat
    BY <1>1
  <2> HIDE DEF d
  <2>2. /\ Pruned(d) \in Seq(S)
        /\ Len(Pruned(d)) = IF Len(d) > MaxPerTopic THEN MaxPerTopic ELSE Len(d)
    BY <2>1, PrunedType
  <2>3. Len(Pruned(d)) = MaxPerTopic
    BY <2>1, <2>2
  <2> QED BY <2>2, <2>3 DEF d
<1>3. Ends(a, a)
  BY DEF Ends
<1>4. Ends(a, p)
  BY <1>1, <1>3, EndsMerged
<1> HIDE DEF p
<1>5. \A i \in 1..Len(a) : a[i] = p[i]
  <2>1. \A i \in 1..Len(a) : Len(p) - Len(a) + i = i
    BY <1>1, <1>2
  <2> QED BY <2>1, <1>4 DEF Ends
<1>6. p = a
  BY <1>2, <1>5, SeqEqual
<1> QED BY <1>6 DEF p

\* A list whose messages are of a set.
LEMMA ListOf ==
  ASSUME NEW S, NEW R, NEW messages \in Seq(S), \A i \in 1..Len(messages) : messages[i] \in R
  PROVE  messages \in Seq(R)
<1>1. SubSeq(messages, 1, Len(messages)) \in Seq(R)
  BY SubSeqProperties, Len(messages) \in Nat
<1> QED BY <1>1, SubSeqFull

\* What is kept of an ascending list ascends.
LEMMA KeptAscends ==
  ASSUME NEW S, S \subseteq Nat, NEW messages \in Seq(S), NEW those, Ascending(messages)
  PROVE  Ascending(Kept(messages, those))
<1> DEFINE f == KeptUpTo(messages, those)
           UpTo(n) == /\ f[n] \in Seq(S) /\ Ascending(f[n])
                      /\ \A k \in 1..Len(f[n]), j \in (n + 1)..Len(messages) :
                           f[n][k] < messages[j]
           T == {n \in Nat : n <= Len(messages) => UpTo(n)}
<1>1. /\ f[0] = <<>>
      /\ \A i \in 1..Len(messages) :
           f[i] = IF messages[i] \in those THEN Append(f[i - 1], messages[i]) ELSE f[i - 1]
  BY KeptSteps
<1> HIDE DEF f
<1>2. 0 \in T
  <2>1. f[0] \in Seq(S) /\ Len(f[0]) = 0
    BY <1>1, EmptySeq, Zenon
  <2>2. UpTo(0)
    BY <2>1 DEF Ascending
  <2> HIDE DEF UpTo
  <2> QED BY <2>2
<1>3. ASSUME NEW n \in Nat, n \in T
      PROVE  n + 1 \in T
  <2>1. SUFFICES ASSUME n + 1 <= Len(messages) PROVE UpTo(n + 1)
    OBVIOUS
  <2>2. n + 1 \in 1..Len(messages) /\ n <= Len(messages) /\ messages[n + 1] \in S
        /\ (n + 1) - 1 = n
    BY <2>1
  <2>3. UpTo(n)
    BY <1>3, <2>2
  <2> DEFINE g == f[n]
             m == messages[n + 1]
  <2>4. f[n + 1] = IF m \in those THEN Append(g, m) ELSE g
    BY <1>1, <2>2
  <2>5. /\ g \in Seq(S) /\ Ascending(g)
        /\ \A k \in 1..Len(g), j \in (n + 1)..Len(messages) : g[k] < messages[j]
        /\ m \in S /\ Len(g) \in Nat
    BY <2>2, <2>3
  <2>6. \A j \in (n + 2)..Len(messages) : m < messages[j]
    BY <2>2 DEF Ascending
  <2>7. \A k \in 1..Len(g) : g[k] < m
    BY <2>2, <2>5
  <2> HIDE DEF g, m
  <2>8. CASE m \in those
    <3>1. f[n + 1] = Append(g, m)
      BY <2>4, <2>8
    <3> DEFINE h == Append(g, m)
    <3>2. h \in Seq(S) /\ Len(h) = Len(g) + 1 /\ h[Len(g) + 1] = m
          /\ \A k \in 1..Len(g) : h[k] = g[k]
      BY <2>5, AppendProperties
    <3> HIDE DEF h
    <3>3. ASSUME NEW i \in 1..Len(h), NEW j \in 1..Len(h), i < j
          PROVE  h[i] < h[j]
      <4>1. i \in 1..Len(g) /\ h[i] = g[i]
        BY <2>5, <3>2, <3>3
      <4>2. CASE j = Len(g) + 1
        BY <2>7, <3>2, <4>1, <4>2
      <4>3. CASE j # Len(g) + 1
        <5>1. j \in 1..Len(g) /\ h[j] = g[j]
          BY <2>5, <3>2, <4>3
        <5> QED BY <2>5, <3>3, <4>1, <5>1 DEF Ascending
      <4> QED BY <4>2, <4>3
    <3>4. ASSUME NEW k \in 1..Len(h), NEW j \in ((n + 1) + 1)..Len(messages)
          PROVE  h[k] < messages[j]
      <4>1. j \in (n + 2)..Len(messages) /\ j \in (n + 1)..Len(messages)
        BY <2>2
      <4>2. CASE k = Len(g) + 1
        BY <2>6, <3>2, <4>1, <4>2
      <4>3. CASE k # Len(g) + 1
        <5>1. k \in 1..Len(g) /\ h[k] = g[k]
          BY <2>5, <3>2, <4>3
        <5> QED BY <2>5, <4>1, <5>1
      <4> QED BY <4>2, <4>3
    <3> QED BY <3>1, <3>2, <3>3, <3>4 DEF h, Ascending
  <2>9. CASE m \notin those
    <3>1. f[n + 1] = g
      BY <2>4, <2>9
    <3>2. \A j \in ((n + 1) + 1)..Len(messages) : j \in (n + 1)..Len(messages)
      BY <2>2
    <3> QED BY <2>5, <3>1, <3>2
  <2> QED BY <2>8, <2>9
<1> HIDE DEF T
<1>4. Len(messages) \in T /\ Len(messages) \in Nat
  BY <1>2, <1>3, Induct
<1>5. Ascending(f[Len(messages)])
  BY <1>4 DEF T
<1> QED BY <1>5, KeptIs DEF f

\* The same of all lists.
LEMMA KeptOfConcat ==
  ASSUME NEW S, NEW those
  PROVE  \A u, v \in Seq(S) : Kept(u \o v, those) = Kept(u, those) \o Kept(v, those)
BY KeptConcat

\* An ascending list loses its oldest messages, or none: then the end of it is
\* kept to what is kept of the list.
LEMMA EndsKept ==
  ASSUME NEW S, NEW a \in Seq(S), NEW r \in Seq(S), NEW those,
         Ascending(a), Ends(Pruned(a), r),
         \A m \in S \cap those, n \in S : m < n => n \in those
  PROVE  Ends(Pruned(Kept(a, those)), Kept(r, those))
<1> DEFINE p == Pruned(a)
<1>1. /\ p \in Seq(S) /\ Len(p) \in Nat /\ MaxPerTopic \in Nat /\ Len(a) \in Nat
      /\ Len(p) = IF Len(a) > MaxPerTopic THEN MaxPerTopic ELSE Len(a)
      /\ \A i \in 1..Len(p) : p[i] = a[Len(a) - Len(p) + i]
  BY PrunedType, ReplayAssumption
<1>2. Ends(p, a) /\ Ends(p, r)
  BY PrunedEnds
<1> HIDE DEF p
<1>3. PICK y \in Seq(S) : /\ a = y \o p /\ Len(y) = Len(a) - Len(p)
                          /\ \A i \in 1..Len(y) : y[i] = a[i]
  BY <1>1, <1>2, EndsSplit
<1>4. PICK x \in Seq(S) : /\ r = x \o p /\ Len(x) = Len(r) - Len(p)
                          /\ \A i \in 1..Len(x) : x[i] = r[i]
  BY <1>1, <1>2, EndsSplit
<1> DEFINE kx == Kept(x, those)
           ky == Kept(y, those)
           kp == Kept(p, those)
<1>5. /\ Kept(a, those) = ky \o kp
      /\ Kept(r, those) = kx \o kp
  <2>1. Kept(y \o p, those) = ky \o kp /\ Kept(x \o p, those) = kx \o kp
    <3>0. p \in Seq(S)
      BY <1>1
    <3> HIDE DEF ky, kp, kx
    <3>a. \A u, v \in Seq(S) : Kept(u \o v, those) = Kept(u, those) \o Kept(v, those)
      BY KeptOfConcat, Zenon
    <3>1. Kept(y \o p, those) = Kept(y, those) \o Kept(p, those)
      BY <3>0, <3>a
    <3>2. Kept(x \o p, those) = Kept(x, those) \o Kept(p, those)
      BY <3>0, <3>a
    <3> QED BY <3>1, <3>2 DEF ky, kp, kx
  <2> QED BY <1>3, <1>4, <2>1, Zenon
<1>6. kx \in Seq(S) /\ ky \in Seq(S) /\ kp \in Seq(S) /\ Len(kp) <= Len(p)
  <2>1. kx \in Seq(S \cap those) /\ ky \in Seq(S \cap those) /\ kp \in Seq(S \cap those)
        /\ Len(kp) <= Len(p)
    BY <1>1, KeptType
  <2> QED BY <2>1, SeqMonotonic, S \cap those \subseteq S
<1>7. Ends(kp, kx \o kp)
  BY <1>6, EndsConcat
<1>8. CASE ky = <<>>
  <2> HIDE DEF kx, ky, kp
  <2>1. ky \o kp = kp
    BY <1>6, <1>8
  <2>2. Len(kp) <= MaxPerTopic
    BY <1>1, <1>6
  <2>3. Pruned(kp) = kp
    BY <1>6, <2>2, PrunedShort
  <2> QED BY <1>5, <1>7, <2>1, <2>3
<1>9. CASE ky # <<>>
  <2>1. PICK i \in 1..Len(y) : y[i] \in those
    <3> DEFINE R == {y[i] : i \in 1..Len(y)}
    <3>1. y \in Seq(R)
      <4>1. \A k \in 1..Len(y) : y[k] \in R
        OBVIOUS
      <4> HIDE DEF R
      <4> QED BY <4>1, ListOf
    <3>2. R \cap those # {}
      BY <1>9, <3>1, KeptNone
    <3> QED BY <3>2
  <2>2. Len(p) = MaxPerTopic /\ Len(y) = Len(a) - Len(p) /\ Len(y) \in Nat
        /\ \A k \in 1..Len(y) : y[k] = a[k]
    <3>1. Len(y) = Len(a) - Len(p) /\ i \in 1..Len(y) /\ Len(y) \in Nat
      BY <1>3
    <3>2. Len(p) = MaxPerTopic
      <4>1. /\ Len(p) \in Nat /\ MaxPerTopic \in Nat /\ Len(a) \in Nat
            /\ Len(p) = IF Len(a) > MaxPerTopic THEN MaxPerTopic ELSE Len(a)
        BY <1>1
      <4>2. Len(a) > Len(p)
        BY <3>1, <4>1
      <4> QED BY <4>1, <4>2
    <3>3. \A k \in 1..Len(y) : y[k] = a[k]
      BY <1>3
    <3> QED BY <3>1, <3>2, <3>3
  <2>3. ASSUME NEW j \in 1..Len(p)
        PROVE  p[j] \in those
    <3>1. i \in 1..Len(a) /\ Len(a) - Len(p) + j \in 1..Len(a) /\ i < Len(a) - Len(p) + j
      <4>1. Len(a) \in Nat /\ Len(p) \in Nat
        BY <1>1
      <4>2. Len(y) = Len(a) - Len(p) /\ Len(y) \in Nat
        BY <2>2
      <4> QED BY <4>1, <4>2
    <3>2. a[i] < a[Len(a) - Len(p) + j]
      BY <3>1 DEF Ascending
    <3>3. y[i] = a[i] /\ p[j] = a[Len(a) - Len(p) + j] /\ y[i] \in S /\ p[j] \in S
      <4>1. y[i] = a[i]
        BY <2>2
      <4>2. p[j] = a[Len(a) - Len(p) + j]
        BY <1>1
      <4>3. y[i] \in S /\ p[j] \in S
        BY <1>1
      <4> QED BY <4>1, <4>2, <4>3
    <3> QED BY <2>1, <3>2, <3>3
  <2>4. kp = p
    BY <1>1, <2>3, KeptWhole
  <2> HIDE DEF kx, ky, kp
  <2>5. Pruned(ky \o kp) = kp
    BY <1>6, <2>2, <2>4, PrunedFull
  <2> QED BY <1>5, <1>7, <2>5
<1> QED BY <1>8, <1>9

----------------------------------------------------------------------------
(* Committed: what the operations of a transaction leave of the histories. *)

\* The function of its definition, and one step of it.
AppliedTo(data, op) == [t \in Topics |-> Applied(t, data[t], op)]
CommitStep(data, ops, f, i) == IF i = 0 THEN data ELSE AppliedTo(f[i - 1], ops[i])
CommitUpTo(data, ops) ==
  CHOOSE after : after = [i \in 0..Len(ops) |-> CommitStep(data, ops, after, i)]

\* Committed is its last value.
LEMMA CommittedIs ==
  ASSUME NEW data, NEW ops
  PROVE  Committed(data, ops) = CommitUpTo(data, ops)[Len(ops)]
BY DEF Committed, CommitUpTo, CommitStep, AppliedTo

\* The function of the definition exists, for each length of a prefix.
LEMMA CommitExists ==
  ASSUME NEW data, NEW ops, Len(ops) \in Nat
  PROVE  \E f : f = [i \in 0..Len(ops) |-> CommitStep(data, ops, f, i)]
<1> DEFINE Body(f, i) == CommitStep(data, ops, f, i)
<1> DEFINE T == {n \in Nat : \E f : f = [i \in 0..n |-> Body(f, i)]}
<1>1. 0 \in T
  <2>1. [i \in 0..0 |-> data] = [i \in 0..0 |-> Body([j \in 0..0 |-> data], i)]
    BY DEF CommitStep
  <2> HIDE DEF Body
  <2> QED BY <2>1
<1>2. ASSUME NEW n \in Nat, n \in T
      PROVE  n + 1 \in T
  <2>1. PICK f : f = [i \in 0..n |-> Body(f, i)]
    BY <1>2
  <2> DEFINE g == [i \in 0..(n + 1) |-> IF i = n + 1 THEN Body(f, n + 1) ELSE f[i]]
  <2>2. ASSUME NEW i \in 0..(n + 1)
        PROVE  g[i] = Body(g, i)
    <3>1. CASE i = 0
      <4>1. g[i] = f[0] /\ f[0] = Body(f, 0)
        BY <2>1, <3>1
      <4> QED BY <4>1, <3>1 DEF CommitStep
    <3>2. CASE i # 0
      <4>1. i - 1 \in 0..n
        BY <3>2
      <4>2. g[i - 1] = f[i - 1]
        BY <4>1
      <4> HIDE DEF g
      <4>3. Body(g, i) = Body(f, i)
        BY <4>2, <3>2 DEF CommitStep
      <4>4. i # n + 1 => f[i] = Body(f, i)
        BY <2>1, <3>2
      <4> USE DEF g
      <4> HIDE DEF Body
      <4> QED BY <4>3, <4>4 DEF g
    <3> QED BY <3>1, <3>2
  <2>3. g = [i \in 0..(n + 1) |-> g[i]]
    OBVIOUS
  <2> HIDE DEF g, Body
  <2>4. g = [i \in 0..(n + 1) |-> Body(g, i)]
    BY <2>2, <2>3
  <2> QED BY <2>4
<1> HIDE DEF T
<1>3. Len(ops) \in T
  BY <1>1, <1>2, Induct
<1> QED BY <1>3 DEF T

\* So it is what its definition says.
LEMMA CommitSteps ==
  ASSUME NEW data, NEW ops, Len(ops) \in Nat
  PROVE  /\ CommitUpTo(data, ops)[0] = data
         /\ \A i \in 1..Len(ops) :
              CommitUpTo(data, ops)[i] = AppliedTo(CommitUpTo(data, ops)[i - 1], ops[i])
<1> DEFINE f == CommitUpTo(data, ops)
<1>1. f = [i \in 0..Len(ops) |-> CommitStep(data, ops, f, i)]
  BY CommitExists DEF CommitUpTo
<1> HIDE DEF f
<1>2. \A i \in 0..Len(ops) : f[i] = CommitStep(data, ops, f, i)
  BY <1>1
<1>3. f[0] = data
  BY <1>2 DEF CommitStep
<1>4. ASSUME NEW i \in 1..Len(ops)
      PROVE  f[i] = AppliedTo(f[i - 1], ops[i])
  <2>1. i # 0 /\ i \in 0..Len(ops)
    OBVIOUS
  <2>2. f[i] = CommitStep(data, ops, f, i)
    BY <1>2, <2>1
  <2> QED BY <2>1, <2>2, Zenon DEF CommitStep
<1> QED BY <1>3, <1>4 DEF f

\* A transaction keeps what each of its operations keeps.
LEMMA CommitKeeps ==
  ASSUME NEW data, NEW ops, Len(ops) \in Nat, NEW D, data \in D,
         \A d \in D, i \in 1..Len(ops) : AppliedTo(d, ops[i]) \in D
  PROVE  Committed(data, ops) \in D
<1> DEFINE f == CommitUpTo(data, ops)
           T == {n \in Nat : n <= Len(ops) => f[n] \in D}
<1>1. f[0] = data /\ \A i \in 1..Len(ops) : f[i] = AppliedTo(f[i - 1], ops[i])
  BY CommitSteps
<1> HIDE DEF f
<1>2. 0 \in T
  <2>1. f[0] \in D
    BY <1>1
  <2> QED BY <2>1
<1>3. ASSUME NEW n \in Nat, n \in T
      PROVE  n + 1 \in T
  <2>1. SUFFICES ASSUME n + 1 <= Len(ops) PROVE f[n + 1] \in D
    OBVIOUS
  <2>2. n + 1 \in 1..Len(ops) /\ (n + 1) - 1 = n /\ f[n] \in D
    BY <1>3, <2>1
  <2>3. f[n + 1] = AppliedTo(f[n], ops[n + 1])
    BY <1>1, <2>2
  <2> QED BY <2>2, <2>3
<1> HIDE DEF T
<1>4. Len(ops) \in T
  BY <1>2, <1>3, Induct
<1> QED BY <1>4, CommittedIs DEF T, f

\* A transaction of one operation does what that does.
LEMMA CommitOne ==
  ASSUME NEW data, NEW ops, Len(ops) = 1
  PROVE  Committed(data, ops) = AppliedTo(data, ops[1])
<1> DEFINE f == CommitUpTo(data, ops)
<1>1. f[0] = data /\ \A i \in 1..Len(ops) : f[i] = AppliedTo(f[i - 1], ops[i])
  BY CommitSteps
<1> HIDE DEF f
<1>2. f[1] = AppliedTo(f[0], ops[1])
  BY <1>1
<1> QED BY <1>1, <1>2, CommittedIs DEF f

----------------------------------------------------------------------------
(* Coalesced and Drain.                                                    *)

\* What a drain takes is a beginning of the queue, one operation or appends.
LEMMA CoalescedIs ==
  ASSUME NEW queue \in Seq(Ops), queue # <<>>
  PROVE  \E n \in 1..Len(queue) :
           /\ Coalesced(queue) = SubSeq(queue, 1, n)
           /\ n = 1 \/ \A i \in 1..n : queue[i].kind = "append"
<1> DEFINE Splits(k) == /\ \A i \in 1..k : queue[i].kind = "append"
                        /\ k < Len(queue) => queue[k + 1].kind # "append"
           batches == CHOOSE n \in 0..Len(queue) : Splits(n)
           n == IF batches = 0 THEN 1 ELSE batches
<1>1. Len(queue) \in Nat /\ Len(queue) > 0
  OBVIOUS
<1>2. \E m \in 0..Len(queue) : Splits(m)
  <2> DEFINE T == {i \in Nat : i < Len(queue) /\ queue[i + 1].kind # "append"}
  <2>1. CASE T = {}
    <3>1. ASSUME NEW i \in 1..Len(queue)
          PROVE  queue[i].kind = "append"
      <4>1. i - 1 \in Nat /\ i - 1 < Len(queue) /\ (i - 1) + 1 = i
        BY <1>1
      <4> QED BY <2>1, <4>1
    <3>2. Splits(Len(queue))
      BY <1>1, <3>1
    <3> HIDE DEF Splits
    <3> QED BY <1>1, <3>2
  <2>2. CASE T # {}
    <3>1. PICK m \in T : \A i \in T : m <= i
      <4> HIDE DEF T
      <4>1. T \subseteq Nat
        BY DEF T
      <4> QED BY <2>2, <4>1, Least
    <3>2. ASSUME NEW i \in 1..m
          PROVE  queue[i].kind = "append"
      <4>1. i - 1 \in Nat /\ i - 1 < m /\ i - 1 < Len(queue) /\ (i - 1) + 1 = i
        BY <1>1, <3>1
      <4>2. i - 1 \notin T
        <5> HIDE DEF T
        <5>1. m \in Nat
          BY <3>1 DEF T
        <5> QED BY <3>1, <4>1, <5>1
      <4> QED BY <4>1, <4>2
    <3>3. Splits(m) /\ m \in 0..Len(queue)
      BY <1>1, <3>1, <3>2
    <3> HIDE DEF Splits
    <3> QED BY <3>3
  <2> QED BY <2>1, <2>2
<1>3. batches \in 0..Len(queue) /\ Splits(batches)
  <2> HIDE DEF Splits
  <2> QED BY <1>2
<1>4. Coalesced(queue) = SubSeq(queue, 1, n)
  BY DEF Coalesced
<1> HIDE DEF batches
<1>5. n \in 1..Len(queue) /\ (n = 1 \/ \A i \in 1..n : queue[i].kind = "append")
  BY <1>1, <1>3
<1> HIDE DEF n
<1> QED BY <1>4, <1>5

----------------------------------------------------------------------------
(* The operations there are, and what enqueuing, loading and draining do.  *)

Kinds == {"append", "clear", "prepare", "load", "cleanup"}

\* The fields of an operation of the manager.
OpIs(op, kind, messages, topics, before, doomed) ==
  /\ op.kind = kind /\ op.messages = messages /\ op.topics = topics /\ op.before = before
  /\ op.doomed = doomed /\ op.attempt = 1 /\ op.live

\* A cut of the histories, of what kind soever.
LEMMA CuttingIs ==
  ASSUME NEW kind \in Kinds, NEW T \in SUBSET Topics, NEW before \in Int
  PROVE  /\ Cutting(kind, T, before) \in Ops
         /\ OpIs(Cutting(kind, T, before), kind, <<>>, T, before, {})
<1>1. 1 \in 1..MaxAttempts /\ <<>> \in Seq(1..MaxMessages)
  BY ReplayAssumption
<1>2. Cutting(kind, T, before) =
        [kind |-> kind, messages |-> <<>>, topics |-> T, before |-> before,
         doomed |-> {}, attempt |-> 1, live |-> TRUE]
  <2> DEFINE e == <<>>
             o == {}
             v == TRUE
  <2>1. NoOp = [kind |-> "none", messages |-> e, topics |-> o, before |-> 0,
                doomed |-> o, attempt |-> 1, live |-> v]
    BY Zenon DEF NoOp
  <2>2. Cutting(kind, T, before) = [NoOp EXCEPT !.kind = kind, !.topics = T, !.before = before]
    BY Zenon DEF Cutting
  <2> HIDE DEF e, o, v
  <2>3. Cutting(kind, T, before) =
          [kind |-> kind, messages |-> e, topics |-> T, before |-> before,
           doomed |-> o, attempt |-> 1, live |-> v]
    BY <2>1, <2>2
  <2> QED BY <2>3 DEF e, o, v
<1> QED BY <1>1, <1>2 DEF Ops, OpIs, Kinds

\* A load.
LEMMA LoadingIs == Loading \in Ops /\ OpIs(Loading, "load", <<>>, {}, 0, {})
<1>1. 1 \in 1..MaxAttempts /\ <<>> \in Seq(1..MaxMessages)
  BY ReplayAssumption
<1>2. Loading =
        [kind |-> "load", messages |-> <<>>, topics |-> {}, before |-> 0,
         doomed |-> {}, attempt |-> 1, live |-> TRUE]
  <2> DEFINE e == <<>>
             o == {}
             v == TRUE
  <2>1. NoOp = [kind |-> "none", messages |-> e, topics |-> o, before |-> 0,
                doomed |-> o, attempt |-> 1, live |-> v]
    BY Zenon DEF NoOp
  <2>2. Loading = [NoOp EXCEPT !.kind = "load"]
    BY Zenon DEF Loading
  <2> HIDE DEF e, o, v
  <2>3. Loading =
          [kind |-> "load", messages |-> e, topics |-> o, before |-> 0,
           doomed |-> o, attempt |-> 1, live |-> v]
    BY <2>1, <2>2
  <2> QED BY <2>3 DEF e, o, v
<1> QED BY <1>1, <1>2 DEF Ops, OpIs

\* A batch.
LEMMA AppendingIs ==
  ASSUME NEW messages \in Seq(1..MaxMessages)
  PROVE  Appending(messages) \in Ops /\ OpIs(Appending(messages), "append", messages, {}, 0, {})
<1>1. 1 \in 1..MaxAttempts
  BY ReplayAssumption
<1>2. Appending(messages) =
        [kind |-> "append", messages |-> messages, topics |-> {}, before |-> 0,
         doomed |-> {}, attempt |-> 1, live |-> TRUE]
  <2> DEFINE e == <<>>
             o == {}
             v == TRUE
  <2>1. NoOp = [kind |-> "none", messages |-> e, topics |-> o, before |-> 0,
                doomed |-> o, attempt |-> 1, live |-> v]
    BY Zenon DEF NoOp
  <2>2. Appending(messages) = [NoOp EXCEPT !.kind = "append", !.messages = messages]
    BY Zenon DEF Appending
  <2> HIDE DEF e, o, v
  <2>3. Appending(messages) =
          [kind |-> "append", messages |-> messages, topics |-> o, before |-> 0,
           doomed |-> o, attempt |-> 1, live |-> v]
    BY <2>1, <2>2
  <2> QED BY <2>3 DEF e, o, v
<1> QED BY <1>1, <1>2 DEF Ops, OpIs

\* A clear knows what it removes.
ClearOp(T, before, doomed) == [Cutting("clear", T, before) EXCEPT !.doomed = doomed]
\* Its fields.
LEMMA ClearOpIs ==
  ASSUME NEW T \in SUBSET Topics, NEW before \in Int, NEW doomed \in SUBSET (1..MaxMessages)
  PROVE  /\ ClearOp(T, before, doomed) \in Ops
         /\ OpIs(ClearOp(T, before, doomed), "clear", <<>>, T, before, doomed)
<1>1. 1 \in 1..MaxAttempts /\ <<>> \in Seq(1..MaxMessages)
  BY ReplayAssumption
<1>2. ClearOp(T, before, doomed) =
        [kind |-> "clear", messages |-> <<>>, topics |-> T, before |-> before,
         doomed |-> doomed, attempt |-> 1, live |-> TRUE]
  <2> DEFINE e == <<>>
             o == {}
             v == TRUE
  <2>1. NoOp = [kind |-> "none", messages |-> e, topics |-> o, before |-> 0,
                doomed |-> o, attempt |-> 1, live |-> v]
    BY Zenon DEF NoOp
  <2>2. ClearOp(T, before, doomed) =
          [[NoOp EXCEPT !.kind = "clear", !.topics = T, !.before = before]
            EXCEPT !.doomed = doomed]
    BY Zenon DEF ClearOp, Cutting
  <2> HIDE DEF e, o, v
  <2>3. ClearOp(T, before, doomed) =
          [kind |-> "clear", messages |-> e, topics |-> T, before |-> before,
           doomed |-> doomed, attempt |-> 1, live |-> v]
    BY <2>1, <2>2
  <2> QED BY <2>3 DEF e, o, v
<1> QED BY <1>1, <1>2 DEF Ops, OpIs

\* The states r in which nothing but the operations differs from s.
Alike(s, r) == r \in States /\ r.mgr = s.mgr /\ r.store.data = s.store.data /\ r.backoff = s.backoff

\* Enqueue.
LEMMA EnqueueIs ==
  ASSUME NEW s \in States, NEW op \in Ops
  PROVE  /\ Alike(s, Enqueue(s, op))
         /\ Enqueue(s, op).store.queue = Append(s.store.queue, op)
         /\ Enqueue(s, op).store.transactions = s.store.transactions
<1>1. s.store \in Stores /\ s.store.queue \in Seq(Ops)
  BY DEF States, Stores
<1>2. Append(s.store.queue, op) \in Seq(Ops)
  BY <1>1
<1> QED BY <1>1, <1>2 DEF Alike, Enqueue, States, Stores

\* Load.
LEMMA LoadIs ==
  ASSUME NEW s \in States, NEW op \in Ops
  PROVE  /\ Alike(s, Load(s, op))
         /\ Load(s, op).store.queue = s.store.queue
         /\ Load(s, op).store.transactions = Append(s.store.transactions, <<op>>)
<1>1. s.store \in Stores /\ s.store.transactions \in Seq(Transactions)
  BY DEF States, Stores
<1>2. <<op>> \in Transactions
  BY DEF Transactions
<1> HIDE DEF Transactions
<1>3. Append(s.store.transactions, <<op>>) \in Seq(Transactions)
  BY <1>1, <1>2
<1> QED BY <1>1, <1>3 DEF Alike, Load, States, Stores

\* Drain: a beginning of the queue becomes a transaction.
Moves(s, r, n) ==
  /\ n \in 1..Len(s.store.queue)
  /\ n = 1 \/ \A i \in 1..n : s.store.queue[i].kind = "append"
  /\ r.store.queue = SubSeq(s.store.queue, n + 1, Len(s.store.queue))
  /\ r.store.transactions = Append(s.store.transactions, SubSeq(s.store.queue, 1, n))
\* Either the queue is empty or a part of it moves.
LEMMA DrainIs ==
  ASSUME NEW s \in States
  PROVE  /\ Alike(s, Drain(s))
         /\ \/ Drain(s) = s
            \/ \E n \in 1..Len(s.store.queue) : Moves(s, Drain(s), n)
<1>1. /\ s.store \in Stores /\ s.store.transactions \in Seq(Transactions)
      /\ s.store.queue \in Seq(Ops)
  BY DEF States, Stores
<1>2. CASE s.store.queue = <<>>
  BY <1>2 DEF Drain, Alike
<1>3. CASE s.store.queue # <<>>
  <2> DEFINE q == s.store.queue
             ops == Coalesced(q)
             rest == SubSeq(q, Len(ops) + 1, Len(q))
  <2>1. PICK n \in 1..Len(q) : /\ ops = SubSeq(q, 1, n)
                               /\ n = 1 \/ \A i \in 1..n : q[i].kind = "append"
    BY <1>1, <1>3, CoalescedIs
  <2>2. Len(q) \in Nat /\ q \in Seq(Ops)
    BY <1>1
  <2>3. Drain(s) = [s EXCEPT !.store.queue = rest, !.store.transactions = Append(@, ops)]
    BY <1>3 DEF Drain
  <2> HIDE DEF q, ops
  <2>4. ops \in Seq(Ops) /\ Len(ops) = n
    BY <2>1, <2>2
  <2>5. ops \in Transactions
    BY <2>4 DEF Transactions
  <2>6. rest \in Seq(Ops)
    BY <2>2, <2>4
  <2>7. rest = SubSeq(q, n + 1, Len(q))
    BY <2>4
  <2> HIDE DEF rest
  <2>8. Append(s.store.transactions, ops) \in Seq(Transactions)
    BY <1>1, <2>5
  <2>9. /\ Alike(s, Drain(s)) /\ Drain(s).store.queue = rest
        /\ Drain(s).store.transactions = Append(s.store.transactions, ops)
    BY <1>1, <2>3, <2>6, <2>8 DEF Alike, States, Stores
  <2>10. Moves(s, Drain(s), n)
    BY <2>1, <2>7, <2>9 DEF Moves, q
  <2> QED BY <2>9, <2>10 DEF q
<1> QED BY <1>2, <1>3

----------------------------------------------------------------------------
(* What the functions of the manager do to a state.                        *)

\* The histories and what is remembered of clears are as before.
Quiet(s, r) ==
  /\ r \in States
  /\ r.mgr.ring = s.mgr.ring /\ r.mgr.pending = s.mgr.pending
  /\ r.mgr.clearedTopics = s.mgr.clearedTopics /\ r.mgr.clearBefore = s.mgr.clearBefore
  /\ r.store.data = s.store.data

\* An operation without messages that the manager begins.
Own(op) == /\ op \in Ops /\ op.kind \in {"prepare", "load", "cleanup"} /\ op.live
           /\ op.messages = <<>> /\ op.doomed = {}

\* The operations are as before, or there is one more.
Same(s, r) == /\ r.store.queue = s.store.queue /\ r.backoff = s.backoff
              /\ r.store.transactions = s.store.transactions
Queues(s, r, op) == /\ r.store.queue = Append(s.store.queue, op) /\ r.backoff = s.backoff
                    /\ r.store.transactions = s.store.transactions
Loads(s, r, op) == /\ r.store.queue = s.store.queue /\ r.backoff = s.backoff
                   /\ r.store.transactions = Append(s.store.transactions, <<op>>)

\* Nothing but flags, a cleanup, or a hydration.
Idles(s, r) == /\ Quiet(s, r) /\ Same(s, r) /\ r.mgr.hydration = s.mgr.hydration
               /\ Awaited(s) => Awaited(r)
Sweeps(s, r) == /\ Quiet(s, r) /\ r.mgr.hydration = s.mgr.hydration /\ Awaited(r)
                /\ \E op : Own(op) /\ op.kind = "cleanup" /\ Queues(s, r, op)
Begins(s, r) == /\ Quiet(s, r) /\ r.mgr.hydration = TRUE
                /\ Awaited(s) => Awaited(r)
                /\ \E op : Own(op) /\ op.kind # "cleanup" /\ (Queues(s, r, op) \/ Loads(s, r, op))

\* An operation of the manager is one of its own.
LEMMA OwnCut ==
  ASSUME NEW kind \in {"prepare", "cleanup"}, NEW before \in Int
  PROVE  Own(Cutting(kind, Topics, before)) /\ Cutting(kind, Topics, before).kind = kind
BY CuttingIs DEF Own, OpIs, Kinds

\* Hydrate begins a hydration.
LEMMA HydrateIs ==
  ASSUME NEW s \in States, Now \in Nat
  PROVE  Begins(s, Hydrate(s))
<1> DEFINE s1 == [s EXCEPT !.mgr.hydration = TRUE]
           op == Cutting("prepare", Topics, Later - s.mgr.retention)
<1>1. /\ s1 \in States /\ s1.mgr.hydration = TRUE
      /\ s1.mgr.ring = s.mgr.ring /\ s1.mgr.pending = s.mgr.pending
      /\ s1.mgr.clearedTopics = s.mgr.clearedTopics /\ s1.mgr.clearBefore = s.mgr.clearBefore
      /\ s1.mgr.cutoff = s.mgr.cutoff /\ s1.mgr.cleanup = s.mgr.cleanup
      /\ s1.store = s.store /\ s1.backoff = s.backoff
  BY DEF States, Managers
<1>2. s.mgr.retention \in Nat
  BY DEF States, Managers
<1>3. Own(op) /\ op.kind = "prepare"
  BY <1>2, OwnCut DEF Later
<1>4. Own(Loading) /\ Loading.kind = "load"
  BY LoadingIs DEF Own, OpIs
<1>5. Hydrate(s) = IF s.mgr.retention = 0 THEN Load(s1, Loading) ELSE Enqueue(s1, op)
  BY DEF Hydrate
<1> HIDE DEF s1, op
<1>6. /\ Alike(s1, Load(s1, Loading))
      /\ Load(s1, Loading).store.queue = s1.store.queue
      /\ Load(s1, Loading).store.transactions = Append(s1.store.transactions, <<Loading>>)
  BY <1>1, LoadingIs, LoadIs
<1>7. /\ Alike(s1, Enqueue(s1, op))
      /\ Enqueue(s1, op).store.queue = Append(s1.store.queue, op)
      /\ Enqueue(s1, op).store.transactions = s1.store.transactions
  BY <1>1, <1>3, EnqueueIs DEF Own
<1>8. CASE s.mgr.retention = 0
  <2>1. Quiet(s, Hydrate(s)) /\ Hydrate(s).mgr.hydration = TRUE
        /\ (Awaited(s) => Awaited(Hydrate(s))) /\ Loads(s, Hydrate(s), Loading)
    BY <1>1, <1>5, <1>6, <1>8 DEF Alike, Quiet, Awaited, Loads
  <2> QED BY <1>4, <2>1 DEF Begins
<1>9. CASE s.mgr.retention # 0
  <2>1. Quiet(s, Hydrate(s)) /\ Hydrate(s).mgr.hydration = TRUE
        /\ (Awaited(s) => Awaited(Hydrate(s))) /\ Queues(s, Hydrate(s), op)
    BY <1>1, <1>5, <1>7, <1>9 DEF Alike, Quiet, Awaited, Queues
  <2> QED BY <1>3, <2>1 DEF Begins
<1> QED BY <1>8, <1>9

\* It is requested when none is in flight.
LEMMA RequestIs ==
  ASSUME NEW s \in States, Now \in Nat
  PROVE  \/ RequestHydration(s) = s
         \/ ~s.mgr.hydration /\ Begins(s, RequestHydration(s))
BY HydrateIs DEF RequestHydration

\* start().
LEMMA StartedIs ==
  ASSUME NEW s \in States, Now \in Nat
  PROVE  \/ Idles(s, Started(s))
         \/ ~s.mgr.hydration /\ Begins(s, Started(s))
<1> DEFINE c == s.mgr.complete /\ ~s.mgr.failed
           w == s.mgr.retention > 0
           s1 == [s EXCEPT !.mgr.complete = c, !.mgr.failed = FALSE, !.mgr.sweeping = w]
<1>1. Started(s) = RequestHydration(s1)
  BY DEF Started
<1>2. c \in BOOLEAN /\ w \in BOOLEAN
  OBVIOUS
<1> HIDE DEF c, w
<1>3. Idles(s, s1) /\ s1 \in States
  BY <1>2 DEF Idles, Quiet, Same, Awaited, States, Managers
<1> HIDE DEF s1
<1>4. CASE RequestHydration(s1) = s1
  BY <1>1, <1>3, <1>4
<1>5. CASE ~s1.mgr.hydration /\ Begins(s1, RequestHydration(s1))
  BY <1>1, <1>3, <1>5 DEF Idles, Begins, Quiet, Same, Queues, Loads
<1> QED BY <1>3, <1>4, <1>5, RequestIs

\* A cleanup takes the cut-off that waits.
LEMMA CleanIs ==
  ASSUME NEW s \in States
  PROVE  Sweeps(s, Clean(s))
<1> DEFINE s1 == [s EXCEPT !.mgr.cutoff = None, !.mgr.cleanup = TRUE]
           op == Cutting("cleanup", Topics, s.mgr.cutoff)
<1>1. /\ s1 \in States /\ s1.mgr.hydration = s.mgr.hydration
      /\ s1.mgr.ring = s.mgr.ring /\ s1.mgr.pending = s.mgr.pending
      /\ s1.mgr.clearedTopics = s.mgr.clearedTopics /\ s1.mgr.clearBefore = s.mgr.clearBefore
      /\ s1.mgr.cleanup /\ s1.store = s.store /\ s1.backoff = s.backoff
  <2>1. None \in Int
    BY DEF None
  <2> QED BY <2>1 DEF States, Managers
<1>2. s.mgr.cutoff \in Int
  BY DEF States, Managers
<1>3. Own(op) /\ op.kind = "cleanup"
  BY <1>2, OwnCut
<1>4. Clean(s) = Enqueue(s1, op)
  BY DEF Clean
<1> HIDE DEF s1, op
<1>5. /\ Alike(s1, Enqueue(s1, op))
      /\ Enqueue(s1, op).store.queue = Append(s1.store.queue, op)
      /\ Enqueue(s1, op).store.transactions = s1.store.transactions
  BY <1>1, <1>3, EnqueueIs DEF Own
<1>6. /\ Quiet(s, Clean(s)) /\ Clean(s).mgr.hydration = s.mgr.hydration /\ Awaited(Clean(s))
      /\ Queues(s, Clean(s), op)
  BY <1>1, <1>4, <1>5 DEF Alike, Quiet, Awaited, Queues
<1> QED BY <1>3, <1>6 DEF Sweeps

\* scheduleRetentionCleanup.
LEMMA ScheduleIs ==
  ASSUME NEW s \in States, NEW cutoff \in Int
  PROVE  Idles(s, ScheduleCleanup(s, cutoff)) \/ Sweeps(s, ScheduleCleanup(s, cutoff))
<1> DEFINE c == IF s.mgr.cutoff = None \/ cutoff > s.mgr.cutoff THEN cutoff ELSE s.mgr.cutoff
           s1 == [s EXCEPT !.mgr.cutoff = c]
<1>1. ScheduleCleanup(s, cutoff) = IF s.mgr.cleanup THEN s1 ELSE Clean(s1)
  BY DEF ScheduleCleanup
<1>2. c \in Int
  BY DEF States, Managers
<1> HIDE DEF c
<1>3. Quiet(s, s1) /\ Same(s, s1) /\ s1.mgr.hydration = s.mgr.hydration /\ s1 \in States
      /\ s1.mgr.cleanup = s.mgr.cleanup
  BY <1>2 DEF Quiet, Same, States, Managers
<1> HIDE DEF s1
<1>4. CASE s.mgr.cleanup
  BY <1>1, <1>3, <1>4 DEF Idles, Awaited
<1>5. CASE ~s.mgr.cleanup
  <2>1. Sweeps(s1, Clean(s1))
    BY <1>3, CleanIs
  <2> QED BY <1>1, <1>3, <1>5, <2>1 DEF Sweeps, Quiet, Same, Queues
<1> QED BY <1>4, <1>5

\* The end of a cleanup.
LEMMA CleanedIs ==
  ASSUME NEW s \in States, NEW op
  PROVE  Idles(s, Cleaned(s, op)) \/ Sweeps(s, Cleaned(s, op))
<1>1. CASE s.mgr.cutoff # None
  BY <1>1, CleanIs DEF Cleaned
<1>2. CASE s.mgr.cutoff = None
  <2>1. Cleaned(s, op) = [s EXCEPT !.mgr.cleanup = FALSE]
    BY <1>2 DEF Cleaned
  <2> QED BY <1>2, <2>1 DEF Idles, Quiet, Same, Awaited, States, Managers
<1> QED BY <1>1, <1>2

\* A hydration that ends leaves the operations alone.
LEMMA FailedIs ==
  ASSUME NEW s \in States
  PROVE  /\ Quiet(s, HydrationFailed(s)) /\ Same(s, HydrationFailed(s))
         /\ HydrationFailed(s).mgr.hydration = FALSE
         /\ Awaited(s) => Awaited(HydrationFailed(s))
BY DEF HydrationFailed, Quiet, Same, Awaited, States, Managers

\* What a load adds to the histories.
NewRing(s) == [t \in Topics |-> Merged(s.mgr.ring[t], Loaded(s, t))]
\* The histories get what was loaded, and the hydration is over.
LEMMA HydratedIs ==
  ASSUME NEW s \in States, NewRing(s) \in [Topics -> Seq(Nat)]
  PROVE  LET r == Hydrated(s)
         IN /\ r \in States /\ Same(s, r)
            /\ r.mgr.ring = NewRing(s) /\ r.mgr.hydration = FALSE
            /\ r.mgr.pending = s.mgr.pending /\ r.store.data = s.store.data
            /\ r.mgr.clearedTopics = s.mgr.clearedTopics
            /\ r.mgr.clearBefore = s.mgr.clearBefore
            /\ Awaited(s) => Awaited(r)
<1>1. Hydrated(s) =
        [s EXCEPT !.mgr.ring = NewRing(s), !.mgr.hydration = FALSE,
                  !.mgr.complete = TRUE, !.mgr.failed = FALSE]
  BY DEF Hydrated, NewRing
<1> DEFINE ring == NewRing(s)
<1>2. ring \in [Topics -> Seq(Nat)]
  OBVIOUS
<1> HIDE DEF ring
<1> DEFINE s1 == [s EXCEPT !.mgr.ring = ring, !.mgr.hydration = FALSE]
           s2 == [s1 EXCEPT !.mgr.complete = TRUE, !.mgr.failed = FALSE]
<1>3. Hydrated(s) = s2
  BY <1>1 DEF ring
<1>4. /\ s1 \in States /\ Same(s, s1)
      /\ s1.mgr.ring = ring /\ s1.mgr.hydration = FALSE
      /\ s1.mgr.pending = s.mgr.pending /\ s1.store.data = s.store.data
      /\ s1.mgr.clearedTopics = s.mgr.clearedTopics
      /\ s1.mgr.clearBefore = s.mgr.clearBefore
      /\ s1.mgr.cutoff = s.mgr.cutoff /\ s1.mgr.cleanup = s.mgr.cleanup
  BY <1>2 DEF Same, States, Managers
<1> HIDE DEF s1
<1>5. /\ s2 \in States /\ Same(s1, s2)
      /\ s2.mgr.ring = ring /\ s2.mgr.hydration = FALSE
      /\ s2.mgr.pending = s1.mgr.pending /\ s2.store.data = s1.store.data
      /\ s2.mgr.clearedTopics = s1.mgr.clearedTopics
      /\ s2.mgr.clearBefore = s1.mgr.clearBefore
      /\ s2.mgr.cutoff = s1.mgr.cutoff /\ s2.mgr.cleanup = s1.mgr.cleanup
  BY <1>4 DEF Same, States, Managers
<1> HIDE DEF s2
<1> QED BY <1>3, <1>4, <1>5 DEF Same, Awaited, ring

\* suspend(): nothing is live any more.
Deaf(x) == [i \in 1..Len(x) |-> Dead(x[i])]
\* Every operation of a list stays as it is but for live.
LEMMA DeadIs ==
  ASSUME NEW q \in Seq(Ops)
  PROVE  /\ Dead(q) \in Seq(Ops) /\ Len(Dead(q)) = Len(q)
         /\ \A i \in 1..Len(q) :
              /\ Dead(q)[i].live = FALSE /\ Dead(q)[i].kind = q[i].kind
              /\ Dead(q)[i].messages = q[i].messages /\ Dead(q)[i].doomed = q[i].doomed
              /\ Dead(q)[i].topics = q[i].topics /\ Dead(q)[i].before = q[i].before
<1>1. Len(q) \in Nat /\ \A i \in 1..Len(q) : q[i] \in Ops
  OBVIOUS
<1>2. ASSUME NEW op \in Ops
      PROVE  LET d == [op EXCEPT !.live = FALSE]
             IN /\ d \in Ops /\ d.live = FALSE /\ d.kind = op.kind /\ d.messages = op.messages
                /\ d.doomed = op.doomed /\ d.topics = op.topics /\ d.before = op.before
  BY DEF Ops
<1> DEFINE e(i) == [q[i] EXCEPT !.live = FALSE]
<1>3. \A i \in 1..Len(q) :
        /\ e(i) \in Ops /\ e(i).live = FALSE /\ e(i).kind = q[i].kind
        /\ e(i).messages = q[i].messages /\ e(i).doomed = q[i].doomed
        /\ e(i).topics = q[i].topics /\ e(i).before = q[i].before
  BY <1>1, <1>2
<1>4. Dead(q) = [i \in 1..Len(q) |-> e(i)]
  BY DEF Dead
<1> HIDE DEF e
<1>5. Dead(q) \in Seq(Ops) /\ Len(Dead(q)) = Len(q) /\ \A i \in 1..Len(q) : Dead(q)[i] = e(i)
  BY <1>1, <1>3, <1>4
<1> QED BY <1>3, <1>5

\* The same of the transactions.
LEMMA DeafIs ==
  ASSUME NEW x \in Seq(Transactions)
  PROVE  /\ Deaf(x) \in Seq(Transactions) /\ Len(Deaf(x)) = Len(x)
         /\ \A i \in 1..Len(x) : Deaf(x)[i] = Dead(x[i])
<1>1. \A i \in 1..Len(x) : Dead(x[i]) \in Transactions
  <2>1. TAKE i \in 1..Len(x)
  <2>2. x[i] \in Transactions
    OBVIOUS
  <2>3. x[i] \in Seq(Ops) /\ Len(x[i]) > 0
    BY <2>2 DEF Transactions
  <2>4. Dead(x[i]) \in Seq(Ops) /\ Len(Dead(x[i])) > 0
    BY <2>3, DeadIs
  <2> QED BY <2>4 DEF Transactions
<1> HIDE DEF Transactions
<1> QED BY <1>1 DEF Deaf

\* The state a suspension leaves.
LEMMA SuspendedIs ==
  ASSUME NEW s \in States
  PROVE  LET r == Suspended(s)
         IN /\ r \in States
            /\ r.mgr.ring = s.mgr.ring /\ r.store.data = s.store.data
            /\ r.mgr.clearedTopics = s.mgr.clearedTopics
            /\ r.mgr.clearBefore = s.mgr.clearBefore
            /\ r.mgr.pending = <<>> /\ r.mgr.hydration = FALSE /\ Awaited(r)
            /\ r.store.queue = Dead(s.store.queue)
            /\ r.store.transactions = Deaf(s.store.transactions) /\ r.backoff = {}
<1> DEFINE c == s.mgr.complete /\ ~s.mgr.hydration
           g == [s EXCEPT !.mgr.hydration = FALSE, !.mgr.complete = c]
           e == <<>>
           q == Dead(s.store.queue)
           x == Deaf(s.store.transactions)
           g1 == [g EXCEPT !.mgr.pending = e, !.mgr.cutoff = None, !.mgr.sweeping = FALSE]
           g2 == [g1 EXCEPT !.store.queue = q, !.store.transactions = x, !.backoff = {}]
<1>1. s.store \in Stores /\ s.store.queue \in Seq(Ops) /\ s.store.transactions \in Seq(Transactions)
      /\ s.mgr \in Managers
  BY DEF States, Stores
<1>2. q \in Seq(Ops) /\ x \in Seq(Transactions) /\ e \in Seq(Nat) /\ c \in BOOLEAN /\ None \in Int
  <2>1. q \in Seq(Ops)
    BY <1>1, DeadIs
  <2>2. x \in Seq(Transactions)
    BY <1>1, DeafIs
  <2>3. e \in Seq(Nat) /\ None \in Int
    BY EmptySeq DEF None
  <2>4. c \in BOOLEAN
    OBVIOUS
  <2> QED BY <2>1, <2>2, <2>3, <2>4
<1>3. GiveUp(s) = g
  BY Zenon DEF GiveUp
<1> HIDE DEF c
<1>4. /\ g \in States /\ g.store = s.store /\ g.mgr.ring = s.mgr.ring /\ g.mgr.hydration = FALSE
      /\ g.mgr.clearedTopics = s.mgr.clearedTopics /\ g.mgr.clearBefore = s.mgr.clearBefore
  BY <1>2 DEF States, Managers
<1> HIDE DEF g
<1> DEFINE h == [g EXCEPT !.mgr.pending = e, !.mgr.cutoff = None, !.mgr.sweeping = FALSE,
                          !.store.queue = Dead(@),
                          !.store.transactions = [i \in 1..Len(@) |-> Dead(@[i])],
                          !.backoff = {}]
<1>5. Suspended(s) = h
  BY <1>3, Zenon DEF Suspended
<1>6. h = g2
  BY <1>4 DEF q, x, Deaf
<1> HIDE DEF h, q, x, e
<1>7. /\ g1 \in States /\ g1.store = g.store /\ g1.mgr.ring = g.mgr.ring /\ g1.mgr.hydration = FALSE
      /\ g1.mgr.clearedTopics = g.mgr.clearedTopics /\ g1.mgr.clearBefore = g.mgr.clearBefore
      /\ g1.mgr.pending = e /\ g1.mgr.cutoff = None
  BY <1>2, <1>4 DEF States, Managers
<1> HIDE DEF g1
<1>8. /\ g2 \in States /\ g2.mgr = g1.mgr /\ g2.store.data = g1.store.data
      /\ g2.store.queue = q /\ g2.store.transactions = x /\ g2.backoff = {}
  BY <1>2, <1>7 DEF States, Stores
<1> HIDE DEF g2
<1> QED BY <1>4, <1>5, <1>6, <1>7, <1>8 DEF Awaited, q, x, e

\* resetBuffers().
LEMMA ResetIs ==
  ASSUME NEW s \in States
  PROVE  LET r == Reset(s)
         IN /\ r \in States /\ Same(s, r)
            /\ r.mgr.ring = NoMessages /\ r.store.data = s.store.data
            /\ r.mgr.clearedTopics = {} /\ r.mgr.clearBefore = 0
            /\ r.mgr.pending = s.mgr.pending /\ r.mgr.hydration = FALSE
            /\ Awaited(s) => Awaited(r)
<1> DEFINE n == NoMessages
           s1 == [s EXCEPT !.mgr.ring = n, !.mgr.hydration = FALSE, !.mgr.complete = FALSE]
           s2 == [s1 EXCEPT !.mgr.failed = FALSE, !.mgr.clearedTopics = {}, !.mgr.clearBefore = 0]
<1>1. n \in [Topics -> Seq(Nat)]
  <2>1. <<>> \in Seq(Nat)
    OBVIOUS
  <2> QED BY <2>1 DEF NoMessages
<1>2. Reset(s) = s2
  BY DEF Reset
<1> HIDE DEF n
<1>3. /\ s1 \in States /\ s1.store = s.store /\ s1.backoff = s.backoff
      /\ s1.mgr.ring = n /\ s1.mgr.hydration = FALSE /\ s1.mgr.pending = s.mgr.pending
      /\ s1.mgr.cutoff = s.mgr.cutoff /\ s1.mgr.cleanup = s.mgr.cleanup
  BY <1>1 DEF States, Managers
<1> HIDE DEF s1
<1>4. /\ s2 \in States /\ s2.store = s1.store /\ s2.backoff = s1.backoff
      /\ s2.mgr.ring = s1.mgr.ring /\ s2.mgr.hydration = s1.mgr.hydration
      /\ s2.mgr.pending = s1.mgr.pending /\ s2.mgr.clearedTopics = {} /\ s2.mgr.clearBefore = 0
      /\ s2.mgr.cutoff = s1.mgr.cutoff /\ s2.mgr.cleanup = s1.mgr.cleanup
  BY <1>3 DEF States, Managers
<1> HIDE DEF s2
<1> QED BY <1>2, <1>3, <1>4 DEF Same, Awaited, n

----------------------------------------------------------------------------
(* The places of a hydration.                                              *)

\* One more operation in the queue, or one more transaction.
LEMMA QueuedAppend ==
  ASSUME NEW q \in Seq(Ops), NEW op
  PROVE  Queued(Append(q, op)) = IF Hydrating(op) THEN Queued(q) \cup {Len(q) + 1} ELSE Queued(q)
<1>1. /\ Len(Append(q, op)) = Len(q) + 1 /\ Append(q, op)[Len(q) + 1] = op /\ Len(q) \in Nat
      /\ \A i \in 1..Len(q) : Append(q, op)[i] = q[i]
  OBVIOUS
<1> QED BY <1>1 DEF Queued

\* The same of the transactions.
LEMMA BegunAppend ==
  ASSUME NEW x \in Seq(Transactions), NEW ops
  PROVE  Begun(Append(x, ops)) = IF Hydrating(ops[1]) THEN Begun(x) \cup {Len(x) + 1} ELSE Begun(x)
<1>1. /\ Len(Append(x, ops)) = Len(x) + 1 /\ Append(x, ops)[Len(x) + 1] = ops /\ Len(x) \in Nat
      /\ \A i \in 1..Len(x) : Append(x, ops)[i] = x[i]
  BY DEF Transactions
<1> QED BY <1>1 DEF Begun

\* Another operation is enqueued or begun.
LEMMA OneMore ==
  ASSUME NEW q \in Seq(Ops), NEW x \in Seq(Transactions), NEW b, NEW op, NEW known \in BOOLEAN,
         OnePlace(known, q, x, b), ~Hydrating(op)
  PROVE  OnePlace(known, Append(q, op), x, b) /\ OnePlace(known, q, Append(x, <<op>>), b)
<1>1. <<op>>[1] = op
  OBVIOUS
<1>2. Queued(Append(q, op)) = Queued(q) /\ Begun(Append(x, <<op>>)) = Begun(x)
  BY <1>1, QueuedAppend, BegunAppend
<1>3. /\ Len(Append(q, op)) = Len(q) + 1 /\ Len(Append(x, <<op>>)) = Len(x) + 1
      /\ Len(q) \in Nat /\ Len(x) \in Nat
  BY DEF Transactions
<1>4. 1..Len(q) \subseteq 1..Len(Append(q, op)) /\ 1..Len(x) \subseteq 1..Len(Append(x, <<op>>))
  BY <1>3
<1> QED BY <1>2, <1>4 DEF OnePlace

\* A hydration is enqueued or begun where there is none.
LEMMA OneNew ==
  ASSUME NEW q \in Seq(Ops), NEW x \in Seq(Transactions), NEW b, NEW op,
         OnePlace(FALSE, q, x, b), Hydrating(op)
  PROVE  OnePlace(TRUE, Append(q, op), x, b) /\ OnePlace(TRUE, q, Append(x, <<op>>), b)
<1>1. <<op>>[1] = op
  OBVIOUS
<1>2. Queued(q) = {} /\ Begun(x) = {} /\ Delayed(b) = {}
  BY DEF OnePlace
<1>3. Queued(Append(q, op)) = {Len(q) + 1} /\ Begun(Append(x, <<op>>)) = {Len(x) + 1}
  BY <1>1, <1>2, QueuedAppend, BegunAppend
<1>4. /\ Len(q) + 1 \in 1..Len(Append(q, op)) /\ Len(x) + 1 \in 1..Len(Append(x, <<op>>))
  BY DEF Transactions
<1> QED BY <1>2, <1>3, <1>4 DEF OnePlace

\* The beginning of the queue becomes a transaction.
LEMMA OneDrained ==
  ASSUME NEW q \in Seq(Ops), NEW x \in Seq(Transactions), NEW b, NEW known \in BOOLEAN,
         NEW n \in 1..Len(q), n = 1 \/ \A i \in 1..n : q[i].kind = "append",
         OnePlace(known, q, x, b)
  PROVE  OnePlace(known, SubSeq(q, n + 1, Len(q)), Append(x, SubSeq(q, 1, n)), b)
<1> DEFINE rest == SubSeq(q, n + 1, Len(q))
           ops == SubSeq(q, 1, n)
           y == Append(x, ops)
<1>1. /\ Len(q) \in Nat /\ Len(rest) = Len(q) - n /\ ops[1] = q[1]
      /\ \A i \in 1..Len(rest) : rest[i] = q[n + i] /\ n + i \in 1..Len(q)
  OBVIOUS
<1>2. Begun(y) = IF Hydrating(q[1]) THEN Begun(x) \cup {Len(x) + 1} ELSE Begun(x)
  BY <1>1, BegunAppend
<1>3. Len(y) = Len(x) + 1 /\ Len(x) \in Nat
  BY DEF Transactions
<1> HIDE DEF rest, ops, y
<1>4. CASE Hydrating(q[1])
  <2>1. 1 \in Queued(q)
    BY <1>1, <1>4 DEF Queued
  <2>2. known /\ Queued(q) = {1} /\ Begun(x) = {} /\ Delayed(b) = {}
    BY <2>1 DEF OnePlace
  <2>3. Queued(rest) = {}
    <3>1. SUFFICES ASSUME NEW i \in 1..Len(rest), Hydrating(rest[i]) PROVE FALSE
      BY DEF Queued
    <3>2. n + i \in Queued(q)
      BY <1>1, <3>1 DEF Queued
    <3> QED BY <2>2, <3>2
  <2>4. Begun(y) = {Len(x) + 1} /\ Len(x) + 1 \in 1..Len(y)
    BY <1>2, <1>3, <1>4, <2>2
  <2> QED BY <2>2, <2>3, <2>4 DEF OnePlace, y, ops, rest
<1>5. CASE ~Hydrating(q[1])
  <2>1. \A i \in 1..n : ~Hydrating(q[i])
    BY <1>5 DEF Hydrating
  <2>2. Begun(y) = Begun(x) /\ 1..Len(x) \subseteq 1..Len(y)
    BY <1>2, <1>3, <1>5
  <2>3. ASSUME NEW i \in Queued(q)
        PROVE  i - n \in 1..Len(rest) /\ i - n \in Queued(rest)
    <3>1. i \in 1..Len(q) /\ Hydrating(q[i]) /\ i \notin 1..n
      BY <2>1 DEF Queued
    <3>2. i - n \in 1..Len(rest) /\ n + (i - n) = i
      BY <1>1, <3>1
    <3> QED BY <1>1, <3>1, <3>2 DEF Queued
  <2>4. ASSUME NEW i \in Queued(rest)
        PROVE  n + i \in Queued(q)
    BY <1>1 DEF Queued
  <2>5. CASE Queued(q) = {}
    <3>1. Queued(rest) = {}
      BY <2>4, <2>5
    <3> QED BY <2>2, <2>5, <3>1 DEF OnePlace, y, ops, rest
  <2>6. CASE Queued(q) # {}
    <3>1. PICK j \in 1..Len(q) : known /\ Queued(q) = {j} /\ Begun(x) = {} /\ Delayed(b) = {}
      BY <2>6 DEF OnePlace
    <3>2. j - n \in 1..Len(rest) /\ j - n \in Queued(rest)
      BY <2>3, <3>1
    <3>3. ASSUME NEW i \in Queued(rest)
          PROVE  i = j - n
      <4>1. n + i = j /\ i \in Int
        BY <2>4, <3>1 DEF Queued
      <4> QED BY <4>1
    <3>4. Queued(rest) = {j - n}
      BY <3>2, <3>3
    <3> QED BY <2>2, <3>1, <3>2, <3>4 DEF OnePlace, y, ops, rest
  <2> QED BY <2>5, <2>6
<1> QED BY <1>4, <1>5

\* The oldest transaction ends: a hydration has no place then.
LEMMA OneEnded ==
  ASSUME NEW q, NEW x \in Seq(Transactions), x # <<>>, NEW b, NEW known \in BOOLEAN,
         OnePlace(known, q, x, b)
  PROVE  IF Hydrating(Head(x)[1]) THEN known /\ OnePlace(FALSE, q, Tail(x), b)
         ELSE OnePlace(known, q, Tail(x), b)
<1> DEFINE y == Tail(x)
<1>1. /\ Len(x) \in Nat /\ Len(x) > 0 /\ Len(y) = Len(x) - 1 /\ Head(x) = x[1]
      /\ \A i \in 1..Len(y) : y[i] = x[i + 1] /\ i + 1 \in 1..Len(x)
  BY DEF Transactions
<1> HIDE DEF y
<1>2. \A i \in Begun(y) : i + 1 \in Begun(x) /\ i \in 1..Len(y)
  BY <1>1 DEF Begun
<1>3. CASE Hydrating(Head(x)[1])
  <2>1. 1 \in Begun(x)
    BY <1>1, <1>3 DEF Begun
  <2>2. known /\ Queued(q) = {} /\ Begun(x) = {1} /\ Delayed(b) = {}
    BY <2>1 DEF OnePlace
  <2>3. Begun(y) = {}
    BY <1>2, <2>2
  <2> QED BY <1>3, <2>2, <2>3 DEF OnePlace, y
<1>4. CASE ~Hydrating(Head(x)[1])
  <2>1. \A i \in Begun(x) : i - 1 \in Begun(y) /\ i - 1 \in 1..Len(y)
    <3>1. TAKE i \in Begun(x)
    <3>2. i \in 1..Len(x) /\ Hydrating(x[i][1]) /\ i # 1
      BY <1>1, <1>4 DEF Begun
    <3>3. i - 1 \in 1..Len(y) /\ (i - 1) + 1 = i
      BY <1>1, <3>2
    <3> QED BY <1>1, <3>2, <3>3 DEF Begun
  <2>2. CASE Begun(x) = {}
    <3>1. Begun(y) = {}
      BY <1>2, <2>2
    <3> QED BY <1>4, <2>2, <3>1 DEF OnePlace, y
  <2>3. CASE Begun(x) # {}
    <3>1. PICK j \in 1..Len(x) : known /\ Queued(q) = {} /\ Begun(x) = {j} /\ Delayed(b) = {}
      BY <2>3 DEF OnePlace
    <3>2. j - 1 \in 1..Len(y) /\ j - 1 \in Begun(y)
      BY <2>1, <3>1
    <3>3. ASSUME NEW i \in Begun(y)
          PROVE  i = j - 1
      <4>1. i + 1 = j /\ i \in Int
        BY <1>2, <3>1
      <4> QED BY <4>1
    <3>4. Begun(y) = {j - 1}
      BY <3>2, <3>3
    <3> QED BY <1>4, <3>1, <3>2, <3>4 DEF OnePlace, y
  <2> QED BY <2>2, <2>3
<1> QED BY <1>3, <1>4

\* Operations that are not live are nobody's hydration.
LEMMA OneDead ==
  ASSUME NEW q \in Seq(Ops), NEW x \in Seq(Transactions)
  PROVE  OnePlace(FALSE, Dead(q), Deaf(x), {})
<1>1. Queued(Dead(q)) = {}
  BY DeadIs DEF Queued, Hydrating
<1>2. ASSUME NEW i \in 1..Len(Deaf(x))
      PROVE  ~Hydrating(Deaf(x)[i][1])
  <2>1. i \in 1..Len(x) /\ Deaf(x)[i] = Dead(x[i])
    BY DeafIs
  <2>2. x[i] \in Seq(Ops) /\ 1 \in 1..Len(x[i])
    BY <2>1 DEF Transactions
  <2>3. Dead(x[i])[1].live = FALSE
    BY <2>2, DeadIs
  <2> QED BY <2>1, <2>3 DEF Hydrating
<1>3. Begun(Deaf(x)) = {}
  BY <1>2 DEF Begun
<1>4. Delayed({}) = {}
  BY DEF Delayed
<1> QED BY <1>1, <1>3, <1>4 DEF OnePlace

----------------------------------------------------------------------------
(* The order of clears and appends.                                        *)

\* An operation is enqueued.
LEMMA OrderQueued ==
  ASSUME NEW q \in Seq(Ops), NEW x \in Seq(Transactions), NEW p, NEW op,
         InOrder(q, x, p),
         \A i \in 1..Len(q) : Apart(q[i], op, p),
         \A i \in 1..Len(x) : Apart(x[i][1], op, p)
  PROVE  InOrder(Append(q, op), x, p)
<1> DEFINE r == Append(q, op)
<1>1. /\ Len(r) = Len(q) + 1 /\ r[Len(q) + 1] = op /\ Len(q) \in Nat
      /\ \A i \in 1..Len(q) : r[i] = q[i]
  OBVIOUS
<1> HIDE DEF r
<1>2. ASSUME NEW i \in 1..Len(r), NEW j \in 1..Len(r), i < j
      PROVE  Apart(r[i], r[j], p)
  <2>1. i \in 1..Len(q) /\ r[i] = q[i]
    BY <1>1, <1>2
  <2>2. CASE j = Len(q) + 1
    BY <1>1, <2>1, <2>2
  <2>3. CASE j # Len(q) + 1
    <3>1. j \in 1..Len(q) /\ r[j] = q[j]
      BY <1>1, <2>3
    <3> QED BY <1>2, <2>1, <3>1 DEF InOrder
  <2> QED BY <2>2, <2>3
<1>3. ASSUME NEW i \in 1..Len(x), NEW j \in 1..Len(r)
      PROVE  Apart(x[i][1], r[j], p)
  <2>1. CASE j = Len(q) + 1
    BY <1>1, <2>1
  <2>2. CASE j # Len(q) + 1
    <3>1. j \in 1..Len(q) /\ r[j] = q[j]
      BY <1>1, <2>2
    <3> QED BY <3>1 DEF InOrder
  <2> QED BY <2>1, <2>2
<1> QED BY <1>2, <1>3 DEF InOrder, r

\* A transaction is created.
LEMMA OrderBegun ==
  ASSUME NEW q, NEW x \in Seq(Transactions), NEW p, NEW ops,
         InOrder(q, x, p),
         \A j \in 1..Len(q) : Apart(ops[1], q[j], p),
         \A i \in 1..Len(x), k \in 1..Len(ops) : Apart(x[i][1], ops[k], p)
  PROVE  InOrder(q, Append(x, ops), p)
<1> DEFINE y == Append(x, ops)
<1>1. /\ Len(y) = Len(x) + 1 /\ y[Len(x) + 1] = ops /\ Len(x) \in Nat
      /\ \A i \in 1..Len(x) : y[i] = x[i]
  BY DEF Transactions
<1> HIDE DEF y
<1>2. ASSUME NEW i \in 1..Len(y), NEW j \in 1..Len(y), i < j, NEW k \in 1..Len(y[j])
      PROVE  Apart(y[i][1], y[j][k], p)
  <2>1. i \in 1..Len(x) /\ y[i] = x[i]
    BY <1>1, <1>2
  <2>2. CASE j = Len(x) + 1
    BY <1>1, <2>1, <2>2
  <2>3. CASE j # Len(x) + 1
    <3>1. j \in 1..Len(x) /\ y[j] = x[j]
      BY <1>1, <2>3
    <3> QED BY <1>2, <2>1, <3>1 DEF InOrder
  <2> QED BY <2>2, <2>3
<1>3. ASSUME NEW i \in 1..Len(y), NEW j \in 1..Len(q)
      PROVE  Apart(y[i][1], q[j], p)
  <2>1. CASE i = Len(x) + 1
    BY <1>1, <2>1
  <2>2. CASE i # Len(x) + 1
    <3>1. i \in 1..Len(x) /\ y[i] = x[i]
      BY <1>1, <2>2
    <3> QED BY <3>1 DEF InOrder
  <2> QED BY <2>1, <2>2
<1> QED BY <1>2, <1>3 DEF InOrder, y

\* The beginning of the queue becomes a transaction.
LEMMA OrderDrained ==
  ASSUME NEW q \in Seq(Ops), NEW x \in Seq(Transactions), NEW p, NEW n \in 1..Len(q),
         InOrder(q, x, p)
  PROVE  InOrder(SubSeq(q, n + 1, Len(q)), Append(x, SubSeq(q, 1, n)), p)
<1> DEFINE rest == SubSeq(q, n + 1, Len(q))
           ops == SubSeq(q, 1, n)
<1>1. /\ Len(q) \in Nat /\ Len(rest) = Len(q) - n /\ ops[1] = q[1] /\ Len(ops) = n
      /\ \A i \in 1..Len(rest) : rest[i] = q[n + i] /\ n + i \in 1..Len(q)
      /\ \A i \in 1..n : ops[i] = q[i] /\ i \in 1..Len(q)
  OBVIOUS
<1> HIDE DEF rest, ops
<1>2. InOrder(rest, x, p)
  <2>1. ASSUME NEW i \in 1..Len(rest), NEW j \in 1..Len(rest), i < j
        PROVE  Apart(rest[i], rest[j], p)
    <3>1. n + i \in 1..Len(q) /\ n + j \in 1..Len(q) /\ n + i < n + j
      BY <1>1, <2>1
    <3> QED BY <1>1, <3>1 DEF InOrder
  <2>2. ASSUME NEW i \in 1..Len(x), NEW j \in 1..Len(rest)
        PROVE  Apart(x[i][1], rest[j], p)
    BY <1>1 DEF InOrder
  <2> QED BY <2>1, <2>2 DEF InOrder
<1>3. ASSUME NEW j \in 1..Len(rest)
      PROVE  Apart(ops[1], rest[j], p)
  <2>1. n + j \in 1..Len(q) /\ 1 \in 1..Len(q) /\ 1 < n + j
    BY <1>1
  <2> QED BY <1>1, <2>1 DEF InOrder
<1>4. ASSUME NEW i \in 1..Len(x), NEW k \in 1..Len(ops)
      PROVE  Apart(x[i][1], ops[k], p)
  BY <1>1 DEF InOrder
<1> QED BY <1>2, <1>3, <1>4, OrderBegun DEF rest, ops

\* The oldest transaction ends.
LEMMA OrderEnded ==
  ASSUME NEW q, NEW x \in Seq(Transactions), x # <<>>, NEW p, InOrder(q, x, p)
  PROVE  InOrder(q, Tail(x), p)
<1> DEFINE y == Tail(x)
<1>1. /\ Len(x) \in Nat /\ Len(x) > 0 /\ Len(y) = Len(x) - 1
      /\ \A i \in 1..Len(y) : y[i] = x[i + 1] /\ i + 1 \in 1..Len(x)
  BY DEF Transactions
<1> HIDE DEF y
<1>2. ASSUME NEW i \in 1..Len(y), NEW j \in 1..Len(y), i < j, NEW k \in 1..Len(y[j])
      PROVE  Apart(y[i][1], y[j][k], p)
  <2>1. i + 1 \in 1..Len(x) /\ j + 1 \in 1..Len(x) /\ i + 1 < j + 1
    BY <1>1, <1>2
  <2>2. y[i] = x[i + 1] /\ y[j] = x[j + 1]
    BY <1>1
  <2> QED BY <2>1, <2>2 DEF InOrder
<1>3. ASSUME NEW i \in 1..Len(y), NEW j \in 1..Len(q)
      PROVE  Apart(y[i][1], q[j], p)
  BY <1>1 DEF InOrder
<1> QED BY <1>2, <1>3 DEF InOrder, y

\* Operations that are not live bind nobody.
LEMMA OrderDead ==
  ASSUME NEW q \in Seq(Ops), NEW x \in Seq(Transactions), NEW p
  PROVE  InOrder(Dead(q), Deaf(x), p)
<1>1. \A i \in 1..Len(Dead(q)) : Dead(q)[i].live = FALSE
  BY DeadIs
<1>2. ASSUME NEW i \in 1..Len(Deaf(x))
      PROVE  Deaf(x)[i][1].live = FALSE
  <2>1. i \in 1..Len(x) /\ Deaf(x)[i] = Dead(x[i])
    BY DeafIs
  <2>2. x[i] \in Seq(Ops) /\ 1 \in 1..Len(x[i])
    BY <2>1 DEF Transactions
  <2>3. Dead(x[i])[1].live = FALSE
    BY <2>2, DeadIs
  <2> QED BY <2>1, <2>3
<1> QED BY <1>1, <1>2 DEF InOrder, Apart

\* More was tried again.
LEMMA OrderPast ==
  ASSUME NEW q, NEW x, NEW p \in Pasts, NEW r \in Pasts, p.retried \subseteq r.retried,
         InOrder(q, x, p)
  PROVE  InOrder(q, x, r)
<1>1. ASSUME NEW op, NEW later, Apart(op, later, p)
      PROVE  Apart(op, later, r)
  <2>1. p.retried \cup (Nat \ op.doomed) \subseteq r.retried \cup (Nat \ op.doomed)
    OBVIOUS
  <2>2. \A messages : messages \in Seq(p.retried \cup (Nat \ op.doomed))
                        => messages \in Seq(r.retried \cup (Nat \ op.doomed))
    BY <2>1, SeqMonotonic
  <2> QED BY <1>1, <2>2 DEF Apart
<1> QED BY <1>1, Zenon DEF InOrder

----------------------------------------------------------------------------
(* Sets of operations.                                                     *)

\* What is not live stays in a set that does not ask for it.
Mortal(G) == G \subseteq Ops /\ \A op \in G : [op EXCEPT !.live = FALSE] \in G
\* A list of such a set stays one when nothing is live any more.
LEMMA DeadOf ==
  ASSUME NEW G, Mortal(G), NEW q \in Seq(G)
  PROVE  Dead(q) \in Seq(G)
<1>1. \A i \in 1..Len(q) : [q[i] EXCEPT !.live = FALSE] \in G
  BY DEF Mortal
<1> DEFINE e(i) == [q[i] EXCEPT !.live = FALSE]
<1>2. Dead(q) = [i \in 1..Len(q) |-> e(i)] /\ \A i \in 1..Len(q) : e(i) \in G
  BY <1>1 DEF Dead
<1> HIDE DEF e
<1> QED BY <1>2

\* The operations whose fields agree are such a set.
LEMMA MeantMortal ==
  ASSUME NEW l
  PROVE  Mortal(Meant(l))
<1>1. ASSUME NEW op \in Ops
      PROVE  LET d == [op EXCEPT !.live = FALSE]
             IN /\ d \in Ops /\ d.live = FALSE /\ d.kind = op.kind /\ d.messages = op.messages
                /\ d.doomed = op.doomed /\ d.topics = op.topics /\ d.before = op.before
  BY DEF Ops
<1> QED BY <1>1 DEF Mortal, Meant

\* So are those that keep to the order of the clears.
LEMMA SentMortal ==
  ASSUME NEW p
  PROVE  Mortal(Sent(p))
<1>1. ASSUME NEW op \in Ops
      PROVE  LET d == [op EXCEPT !.live = FALSE]
             IN /\ d \in Ops /\ d.live = FALSE /\ d.kind = op.kind /\ d.messages = op.messages
  BY DEF Ops
<1> QED BY <1>1 DEF Mortal, Sent, OfSession

\* The same of transactions.
LEMMA DeafFits ==
  ASSUME NEW l, NEW x \in Seq(Fitting(l))
  PROVE  Deaf(x) \in Seq(Fitting(l))
<1>1. ASSUME NEW ops \in Fitting(l)
      PROVE  Dead(ops) \in Fitting(l)
  <2>1. ops \in Seq(Meant(l)) /\ Meant(l) \subseteq Ops
    BY DEF Fitting, Meant
  <2>2. ops \in Seq(Ops)
    BY <2>1, SeqMonotonic
  <2>3. /\ Len(Dead(ops)) = Len(ops)
        /\ \A i \in 1..Len(ops) : Dead(ops)[i].kind = ops[i].kind
    BY <2>2, DeadIs
  <2>4. Dead(ops) \in Seq(Meant(l))
    BY <2>1, DeadOf, MeantMortal
  <2> QED BY <2>3, <2>4 DEF Fitting
<1>2. \A i \in 1..Len(x) : Dead(x[i]) \in Fitting(l)
  BY <1>1
<1> QED BY <1>2 DEF Deaf

\* And of transactions of operations that keep to the order.
LEMMA DeafSent ==
  ASSUME NEW p, NEW x \in Seq(Seq(Sent(p)))
  PROVE  Deaf(x) \in Seq(Seq(Sent(p)))
<1>1. ASSUME NEW i \in 1..Len(x)
      PROVE  Dead(x[i]) \in Seq(Sent(p))
  <2>1. x[i] \in Seq(Sent(p))
    OBVIOUS
  <2> QED BY <2>1, DeadOf, SentMortal
<1> DEFINE e(i) == Dead(x[i])
<1>2. Deaf(x) = [i \in 1..Len(x) |-> e(i)] /\ \A i \in 1..Len(x) : e(i) \in Seq(Sent(p))
  BY <1>1 DEF Deaf
<1> HIDE DEF e
<1> QED BY <1>2

----------------------------------------------------------------------------
(* What keeps the invariant.                                               *)

\* The fields of a typed state.
LEMMA TypedParts ==
  ASSUME NEW s, NEW l, NEW p, Typed(s, l, p)
  PROVE  /\ s \in States /\ s.store.queue \in Seq(Ops)
         /\ s.store.transactions \in Seq(Transactions)
         /\ s.backoff \subseteq Ops /\ s.mgr.hydration \in BOOLEAN
         /\ s.mgr.ring \in [Topics -> Seq(Nat)] /\ s.store.data \in [Topics -> Seq(Nat)]
         /\ s.mgr.pending \in Seq(Nat) /\ s.mgr.retention \in Nat /\ s.mgr.clearBefore \in Nat
         /\ Len(l) \in Nat /\ p \in Pasts
<1>1. s \in States /\ s.store \in Stores /\ s.mgr \in Managers /\ s.backoff \subseteq Ops
      /\ Len(l) \in Nat /\ p \in Pasts
  BY DEF Typed, States, Logged
<1> QED BY <1>1 DEF Managers, Stores

\* An operation of the manager means and sends nothing.
LEMMA OwnIs ==
  ASSUME NEW op, Own(op), NEW l, NEW p
  PROVE  /\ op \in Meant(l) /\ <<op>> \in Fitting(l)
         /\ op \in Sent(p) /\ <<op>> \in Seq(Sent(p))
         /\ \A o : Apart(o, op, p) /\ Apart(op, o, p)
<1>1. op.messages = <<>> /\ op.doomed = {} /\ op \in Ops /\ op.kind # "append" /\ op.kind # "clear"
  BY DEF Own
<1>2. op.messages \in Seq(All(l)) /\ op.messages \in Seq(Stored(p))
  BY <1>1, EmptySeq, Zenon
<1>3. op \in Meant(l) /\ op \in Sent(p)
  BY <1>1, <1>2 DEF Meant, Sent, OfSession
<1>4. <<op>> \in Fitting(l)
  <2> HIDE DEF Meant
  <2>1. <<op>> \in Seq(Meant(l)) /\ Len(<<op>>) = 1
    BY <1>3
  <2> QED BY <2>1 DEF Fitting
<1>5. <<op>> \in Seq(Sent(p))
  BY <1>3
<1>6. \A o : Apart(o, op, p) /\ Apart(op, o, p)
  BY <1>1 DEF Apart
<1> QED BY <1>3, <1>4, <1>5, <1>6

\* Flags do not matter.
LEMMA IdleKeeps ==
  ASSUME NEW s, NEW r, NEW l, NEW p, Good(s, l, p), Idles(s, r)
  PROVE  Good(r, l, p)
<1>1. /\ Quiet(s, r) /\ Same(s, r) /\ r.mgr.hydration = s.mgr.hydration
      /\ Awaited(s) => Awaited(r)
  BY DEF Idles
<1>2. Typed(r, l, p)
  BY <1>1 DEF Good, Typed, OnTopic, Quiet, Same
<1>3. Busy(r)
  BY <1>1 DEF Good, Busy, Same
<1>4. Cleared(r, l, p)
  BY <1>1 DEF Good, Cleared, Remembered, Quiet, Same
<1>5. Tailed(r, p)
  BY <1>1 DEF Good, Tailed, Quiet
<1> QED BY <1>2, <1>3, <1>4, <1>5 DEF Good

\* What does not depend on the jobs, when the manager begins an operation.
Sound(s, l, p) == Typed(s, l, p) /\ Cleared(s, l, p) /\ Tailed(s, p)
\* It is kept.
LEMMA OwnKeeps ==
  ASSUME NEW s, NEW r, NEW l, NEW p, NEW op, Sound(s, l, p), Quiet(s, r), Own(op),
         Queues(s, r, op) \/ Loads(s, r, op)
  PROVE  Sound(r, l, p)
<1>1. /\ op \in Meant(l) /\ <<op>> \in Fitting(l)
      /\ op \in Sent(p) /\ <<op>> \in Seq(Sent(p))
      /\ \A o : Apart(o, op, p) /\ Apart(op, o, p)
  BY OwnIs
<1>2. Typed(s, l, p) /\ Cleared(s, l, p) /\ Tailed(s, p)
  BY DEF Sound
<1>3. s.store.queue \in Seq(Ops) /\ s.store.transactions \in Seq(Transactions)
  BY <1>2, TypedParts
<1>4. Typed(r, l, p)
  <2> DEFINE G == Meant(l)
             F == Fitting(l)
  <2>1. /\ s.store.queue \in Seq(G) /\ s.store.transactions \in Seq(F)
        /\ op \in G /\ <<op>> \in F
    BY <1>1, <1>2 DEF Typed
  <2> HIDE DEF G, F
  <2>2. /\ Append(s.store.queue, op) \in Seq(G)
        /\ Append(s.store.transactions, <<op>>) \in Seq(F)
    BY <2>1
  <2>3. r.store.queue \in Seq(G) /\ r.store.transactions \in Seq(F) /\ r.backoff = s.backoff
    BY <2>1, <2>2 DEF Queues, Loads
  <2> QED BY <1>2, <2>3 DEF Typed, OnTopic, Quiet, G, F
<1>5. Cleared(r, l, p)
  <2> DEFINE G == Sent(p)
             F == Seq(Sent(p))
  <2>1. /\ s.store.queue \in Seq(G) /\ s.store.transactions \in Seq(F)
        /\ op \in G /\ <<op>> \in F /\ InOrder(s.store.queue, s.store.transactions, p)
    BY <1>1, <1>2 DEF Cleared
  <2> HIDE DEF G, F
  <2>2. /\ Append(s.store.queue, op) \in Seq(G)
        /\ Append(s.store.transactions, <<op>>) \in Seq(F)
    BY <2>1
  <2>3. InOrder(Append(s.store.queue, op), s.store.transactions, p)
    BY <1>1, <1>3, <2>1, OrderQueued
  <2>4. InOrder(s.store.queue, Append(s.store.transactions, <<op>>), p)
    <3>1. <<op>>[1] = op /\ \A k \in 1..Len(<<op>>) : <<op>>[k] = op
      OBVIOUS
    <3> QED BY <1>1, <1>3, <2>1, <3>1, OrderBegun
  <2>5. /\ r.store.queue \in Seq(G) /\ r.store.transactions \in Seq(F) /\ r.backoff = s.backoff
        /\ InOrder(r.store.queue, r.store.transactions, p)
    BY <2>1, <2>2, <2>3, <2>4 DEF Queues, Loads
  <2> QED BY <1>2, <2>5 DEF Cleared, Remembered, Quiet, G, F
<1>6. Tailed(r, p)
  BY <1>2 DEF Tailed, Quiet
<1> QED BY <1>4, <1>5, <1>6 DEF Sound

\* A cleanup.
LEMMA SweepKeeps ==
  ASSUME NEW s, NEW r, NEW l, NEW p, Good(s, l, p), Sweeps(s, r)
  PROVE  Good(r, l, p)
<1>1. PICK op : Own(op) /\ op.kind = "cleanup" /\ Queues(s, r, op)
  BY DEF Sweeps
<1>2. Quiet(s, r) /\ r.mgr.hydration = s.mgr.hydration /\ Awaited(r)
  BY DEF Sweeps
<1>3. /\ s.store.queue \in Seq(Ops) /\ s.store.transactions \in Seq(Transactions)
      /\ s.mgr.hydration \in BOOLEAN
  BY TypedParts DEF Good
<1>4. OnePlace(s.mgr.hydration, s.store.queue, s.store.transactions, s.backoff)
  BY DEF Good, Busy
<1>5. ~Hydrating(op)
  BY <1>1 DEF Hydrating
<1>6. Busy(r)
  BY <1>1, <1>2, <1>3, <1>4, <1>5, OneMore DEF Busy, Queues
<1>7. Sound(r, l, p)
  BY <1>1, <1>2, OwnKeeps DEF Good, Sound
<1> QED BY <1>6, <1>7 DEF Good, Sound

\* A hydration, where there is none.
LEMMA BeginKeeps ==
  ASSUME NEW s, NEW r, NEW l, NEW p, Good(s, l, p), ~s.mgr.hydration, Begins(s, r)
  PROVE  Good(r, l, p)
<1>1. PICK op : Own(op) /\ op.kind # "cleanup" /\ (Queues(s, r, op) \/ Loads(s, r, op))
  BY DEF Begins
<1>2. Quiet(s, r) /\ r.mgr.hydration = TRUE /\ (Awaited(s) => Awaited(r))
  BY DEF Begins
<1>3. /\ s.store.queue \in Seq(Ops) /\ s.store.transactions \in Seq(Transactions)
      /\ s.mgr.hydration = FALSE
  BY TypedParts DEF Good
<1>4. OnePlace(FALSE, s.store.queue, s.store.transactions, s.backoff) /\ Awaited(s)
  BY <1>3 DEF Good, Busy
<1>5. Hydrating(op)
  BY <1>1 DEF Hydrating, Own
<1>6. /\ OnePlace(TRUE, Append(s.store.queue, op), s.store.transactions, s.backoff)
      /\ OnePlace(TRUE, s.store.queue, Append(s.store.transactions, <<op>>), s.backoff)
  BY <1>3, <1>4, <1>5, OneNew
<1>7. Busy(r)
  <2>1. CASE Queues(s, r, op)
    BY <1>2, <1>4, <1>6, <2>1 DEF Busy, Queues
  <2>2. CASE Loads(s, r, op)
    BY <1>2, <1>4, <1>6, <2>2 DEF Busy, Loads
  <2> QED BY <1>1, <2>1, <2>2
<1>8. Sound(r, l, p)
  BY <1>1, <1>2, OwnKeeps DEF Good, Sound
<1> QED BY <1>7, <1>8 DEF Good, Sound

\* start() and the requests for a hydration.
LEMMA StartKeeps ==
  ASSUME NEW s, NEW l, NEW p, Good(s, l, p), Now \in Nat
  PROVE  Good(Started(s), l, p) /\ Good(RequestHydration(s), l, p)
<1>1. s \in States
  BY TypedParts DEF Good
<1> QED BY <1>1, StartedIs, RequestIs, IdleKeeps, BeginKeeps

\* suspend().
LEMMA SuspendKeeps ==
  ASSUME NEW s, NEW l, NEW p, Good(s, l, p)
  PROVE  Good(Suspended(s), l, p)
<1> DEFINE r == Suspended(s)
<1>1. /\ s \in States /\ s.store.queue \in Seq(Ops) /\ s.store.transactions \in Seq(Transactions)
  BY TypedParts DEF Good
<1>2. /\ r \in States
      /\ r.mgr.ring = s.mgr.ring /\ r.store.data = s.store.data
      /\ r.mgr.clearedTopics = s.mgr.clearedTopics
      /\ r.mgr.clearBefore = s.mgr.clearBefore
      /\ r.mgr.pending = <<>> /\ r.mgr.hydration = FALSE /\ Awaited(r)
      /\ r.store.queue = Dead(s.store.queue)
      /\ r.store.transactions = Deaf(s.store.transactions) /\ r.backoff = {}
  BY <1>1, SuspendedIs
<1> HIDE DEF r
<1>3. Typed(r, l, p)
  <2>1. Dead(s.store.queue) \in Seq(Meant(l)) /\ Deaf(s.store.transactions) \in Seq(Fitting(l))
    BY DeadOf, MeantMortal, DeafFits DEF Good, Typed
  <2>2. <<>> \in Seq(All(l))
    OBVIOUS
  <2>3. Logged(l, p) /\ OnTopic(s, l)
    BY DEF Good, Typed
  <2>4. OnTopic(r, l)
    BY <1>2, <2>2, <2>3 DEF OnTopic
  <2> QED BY <1>2, <2>1, <2>3, <2>4 DEF Typed
<1>4. Busy(r)
  BY <1>1, <1>2, OneDead DEF Busy
<1>5. Cleared(r, l, p)
  <2>1. Dead(s.store.queue) \in Seq(Sent(p)) /\ Deaf(s.store.transactions) \in Seq(Seq(Sent(p)))
    BY DeadOf, SentMortal, DeafSent DEF Good, Cleared
  <2>2. <<>> \in Seq(Waiting(p))
    OBVIOUS
  <2>3. InOrder(Dead(s.store.queue), Deaf(s.store.transactions), p)
    BY <1>1, OrderDead
  <2>4. /\ \A t \in Topics : /\ s.mgr.ring[t] \in Seq(Shown(p))
                             /\ s.store.data[t] \in Seq(Stored(p))
        /\ Remembered(s, l, p)
    BY DEF Good, Cleared
  <2>5. Remembered(r, l, p)
    BY <1>2, <2>4 DEF Remembered
  <2> QED BY <1>2, <2>1, <2>2, <2>3, <2>4, <2>5 DEF Cleared
<1>6. Tailed(r, p)
  BY <1>2 DEF Good, Tailed
<1> QED BY <1>3, <1>4, <1>5, <1>6 DEF Good, r

----------------------------------------------------------------------------
(* The steps of the lifecycle.                                             *)

\* The state a step becomes.
LEMMA HereIs ==
  ASSUME NEW s \in States, Become(s)
  PROVE  Here' = s
BY DEF Become, Here, States

\* A step to a state of the invariant keeps it.
LEMMA StepKeeps ==
  ASSUME NEW s, Become(s), Good(s, log', past'), phase' \in {"stopped", "running", "suspended"}
  PROVE  IInv'
<1>1. s \in States
  BY TypedParts DEF Good
<1>2. Here' = s
  BY <1>1, HereIs
<1>3. Good(Here', log', past')
  BY <1>2
<1> QED BY <1>3 DEF IInv

\* The parts of the invariant of the present state.
LEMMA HereGood ==
  ASSUME IInv
  PROVE  /\ Good(Here, log, past) /\ Here \in States /\ Now \in Nat
         /\ Here.mgr = mgr /\ Here.store = store /\ Here.backoff = backoff
<1>1. Good(Here, log, past)
  BY DEF IInv
<1>2. Here \in States /\ Len(log) \in Nat
  BY <1>1, TypedParts DEF Good
<1> QED BY <1>1, <1>2 DEF Now, Here

\* Start, Show, Subscribe, Hide and Sweep.
LEMMA StartInv == ASSUME IInv, Start PROVE IInv'
BY HereGood, StartKeeps, StepKeeps DEF Start
\* pageshow keeps the invariant.
LEMMA ShowInv == ASSUME IInv, Show PROVE IInv'
BY HereGood, StartKeeps, StepKeeps DEF Show
\* So does a request for a hydration.
LEMMA SubscribeInv == ASSUME IInv, Subscribe PROVE IInv'
BY HereGood, StartKeeps, StepKeeps DEF Subscribe, IInv
\* So does pagehide.
LEMMA HideInv == ASSUME IInv, Hide PROVE IInv'
BY HereGood, SuspendKeeps, StepKeeps DEF Hide
\* So does the interval of start().
LEMMA SweepInv == ASSUME IInv, Sweep PROVE IInv'
<1> DEFINE c == Later - mgr.retention
<1>1. mgr.retention \in Nat /\ c \in Int
  BY HereGood, TypedParts DEF Good, Later
<1> HIDE DEF c
<1>2. Good(ScheduleCleanup(Here, c), log, past)
  BY <1>1, HereGood, ScheduleIs, IdleKeeps, SweepKeeps
<1> QED BY <1>2, StepKeeps DEF Sweep, IInv, c

\* A stop forgets the session.
Forgotten(p) == [p EXCEPT !.kept = NoMessages, !.cleared = {}]
\* The state and the past of a stop are good again.
LEMMA StopKeeps ==
  ASSUME NEW s, NEW l, NEW p, Good(s, l, p)
  PROVE  Good(Reset(Suspended(s)), l, Forgotten(p))
<1> DEFINE g == Suspended(s)
           r == Reset(g)
           f == Forgotten(p)
<1>1. /\ s \in States /\ s.store.queue \in Seq(Ops) /\ s.store.transactions \in Seq(Transactions)
      /\ p \in Pasts
  BY TypedParts DEF Good
<1>2. /\ g \in States /\ g.mgr.pending = <<>> /\ Awaited(g) /\ g.store.data = s.store.data
      /\ g.store.queue = Dead(s.store.queue)
      /\ g.store.transactions = Deaf(s.store.transactions) /\ g.backoff = {}
  BY <1>1, SuspendedIs
<1>3. Good(g, l, p)
  BY SuspendKeeps
<1> HIDE DEF g
<1>4. /\ r \in States /\ Same(g, r)
      /\ r.mgr.ring = NoMessages /\ r.store.data = g.store.data
      /\ r.mgr.pending = <<>> /\ r.mgr.hydration = FALSE /\ Awaited(r)
  BY <1>2, ResetIs
<1> HIDE DEF r
<1>5. /\ f \in Pasts /\ f.kept = NoMessages /\ f.cleared = {} /\ f.gone = p.gone
      /\ f.retried = p.retried
  <2> DEFINE n == NoMessages
  <2>1. n \in [Topics -> Seq(Nat)]
    <3>1. <<>> \in Seq(Nat)
      OBVIOUS
    <3> QED BY <3>1 DEF NoMessages
  <2>2. f = [p EXCEPT !.kept = n, !.cleared = {}]
    BY DEF Forgotten
  <2> HIDE DEF n, f
  <2>3. f \in Pasts /\ f.kept = n /\ f.cleared = {} /\ f.gone = p.gone /\ f.retried = p.retried
    BY <1>1, <2>1, <2>2 DEF Pasts
  <2> QED BY <2>3 DEF n
<1> HIDE DEF f
<1>6. \A t \in Topics : NoMessages[t] = <<>>
  BY DEF NoMessages
<1>7. Len(<<>>) = 0 /\ MaxPerTopic \in Nat /\ \A S : <<>> \in Seq(S)
  BY EmptySeq, ReplayAssumption
<1>8. Typed(r, l, f)
  <2>1. Logged(l, f)
    <3>1. Logged(l, p)
      BY DEF Good, Typed
    <3>2. \A t \in Topics : f.kept[t] \in Seq(Of(l, t))
      BY <1>5, <1>6, <1>7
    <3> QED BY <1>5, <3>1, <3>2 DEF Logged
  <2>2. OnTopic(r, l)
    <3>1. ASSUME NEW t \in Topics
          PROVE  r.mgr.ring[t] \in Seq(Of(l, t)) /\ Len(r.mgr.ring[t]) <= MaxPerTopic
      <4>1. r.mgr.ring[t] = <<>>
        BY <1>4, <1>6
      <4>2. <<>> \in Seq(Of(l, t)) /\ Len(<<>>) <= MaxPerTopic
        BY <1>7
      <4> QED BY <4>1, <4>2
    <3>2. \A t \in Topics : /\ r.store.data[t] \in Seq(Of(l, t))
                            /\ Len(r.store.data[t]) <= MaxPerTopic
      BY <1>3, <1>4 DEF Good, Typed, OnTopic
    <3>3. r.mgr.pending \in Seq(All(l))
      BY <1>4, <1>7
    <3> QED BY <3>1, <3>2, <3>3 DEF OnTopic
  <2> QED BY <1>3, <1>4, <2>1, <2>2 DEF Good, Typed, Same
<1>9. Busy(r)
  BY <1>1, <1>2, <1>4, OneDead DEF Busy, Same
<1>10. Cleared(r, l, f)
  <2>1. Stored(f) = Stored(p)
    BY <1>5 DEF Stored
  <2>2. \A t \in Topics : r.mgr.ring[t] \in Seq(Shown(f)) /\ r.store.data[t] \in Seq(Stored(f))
    BY <1>3, <1>4, <1>6, <1>7, <2>1 DEF Good, Cleared
  <2>3. r.mgr.pending \in Seq(Waiting(f)) /\ Remembered(r, l, f)
    BY <1>4, <1>5, <1>7 DEF Remembered
  <2>4. InOrder(r.store.queue, r.store.transactions, f)
    BY <1>1, <1>2, <1>4, OrderDead DEF Same
  <2>5. ASSUME NEW op \in Sent(p), op.live = FALSE
        PROVE  op \in Sent(f)
    BY <2>1, <2>5 DEF Sent, OfSession
  <2>6. r.store.queue \in Seq(Sent(f))
    <3>1. r.store.queue \in Seq(Sent(p)) /\ r.store.queue = Dead(s.store.queue)
      BY <1>2, <1>3, <1>4 DEF Good, Cleared, Same
    <3>2. ASSUME NEW i \in 1..Len(r.store.queue)
          PROVE  r.store.queue[i].live = FALSE
      <4>1. i \in 1..Len(s.store.queue)
        BY <1>1, <3>1, DeadIs
      <4>2. Dead(s.store.queue)[i].live = FALSE
        BY <1>1, <4>1, DeadIs
      <4> QED BY <3>1, <4>2
    <3>3. ASSUME NEW i \in 1..Len(r.store.queue)
          PROVE  r.store.queue[i] \in Sent(f)
      <4>1. r.store.queue[i] \in Sent(p)
        BY <3>1
      <4> QED BY <2>5, <3>2, <4>1
    <3> QED BY <3>1, <3>3, ListOf
  <2>7. r.store.transactions \in Seq(Seq(Sent(f)))
    <3> DEFINE x == r.store.transactions
    <3>1. x \in Seq(Seq(Sent(p))) /\ x = Deaf(s.store.transactions)
      BY <1>2, <1>3, <1>4 DEF Good, Cleared, Same
    <3>2. ASSUME NEW i \in 1..Len(x)
          PROVE  x[i] \in Seq(Sent(f))
      <4>1. i \in 1..Len(s.store.transactions) /\ x[i] = Dead(s.store.transactions[i])
        BY <1>1, <3>1, DeafIs
      <4>2. s.store.transactions[i] \in Seq(Ops)
        BY <1>1, <4>1 DEF Transactions
      <4>3. x[i] \in Seq(Sent(p))
        BY <3>1
      <4>4. ASSUME NEW k \in 1..Len(x[i])
            PROVE  x[i][k].live = FALSE
        <5>1. k \in 1..Len(s.store.transactions[i])
          BY <4>1, <4>2, DeadIs
        <5>2. Dead(s.store.transactions[i])[k].live = FALSE
          BY <4>2, <5>1, DeadIs
        <5> QED BY <4>1, <5>2
      <4>5. ASSUME NEW k \in 1..Len(x[i])
            PROVE  x[i][k] \in Sent(f)
        <5>1. x[i][k] \in Sent(p)
          BY <4>3
        <5> QED BY <2>5, <4>4, <5>1
      <4> QED BY <4>3, <4>5, ListOf
    <3> HIDE DEF x
    <3>3. x \in Seq(Seq(Sent(f)))
      BY <3>1, <3>2, ListOf
    <3> QED BY <3>3 DEF x
  <2>8. r.backoff \subseteq OfSession(f)
    BY <1>2, <1>4 DEF Same
  <2> QED BY <2>2, <2>3, <2>4, <2>6, <2>7, <2>8 DEF Cleared
<1>11. Tailed(r, f)
  <2>1. Pruned(<<>>) = <<>>
    <3>1. <<>> \in Seq(Nat) /\ Len(<<>>) <= MaxPerTopic
      BY <1>7
    <3> QED BY <3>1, PrunedShort
  <2>2. Ends(<<>>, <<>>) /\ Ascending(<<>>)
    BY DEF Ends, Ascending
  <2> QED BY <1>4, <1>5, <1>6, <2>1, <2>2 DEF Tailed
<1> QED BY <1>8, <1>9, <1>10, <1>11 DEF Good, r, f, g

\* A stop keeps the invariant.
LEMMA StopInv == ASSUME IInv, Stop PROVE IInv'
<1>1. Good(Reset(Suspended(Here)), log, Forgotten(past))
  BY HereGood, StopKeeps
<1> QED BY <1>1, StepKeeps DEF Stop, Forgotten


----------------------------------------------------------------------------
(* A message is recorded.                                                  *)

\* The log has one more message: what was of it still is.
LEMMA LogGrows ==
  ASSUME NEW l \in Seq(Topics), NEW t \in Topics
  PROVE  LET k == Append(l, t)
         IN /\ k \in Seq(Topics) /\ Len(k) = Len(l) + 1 /\ Len(l) \in Nat
            /\ All(l) \subseteq All(k) /\ Len(k) \in Of(k, t)
            /\ \A m \in All(l) : k[m] = l[m]
            /\ \A u \in Topics : Of(l, u) \subseteq Of(k, u)
<1> DEFINE k == Append(l, t)
<1>1. /\ k \in Seq(Topics) /\ Len(k) = Len(l) + 1 /\ Len(l) \in Nat /\ k[Len(l) + 1] = t
      /\ \A m \in 1..Len(l) : k[m] = l[m]
  OBVIOUS
<1> HIDE DEF k
<1> QED BY <1>1 DEF All, Of, k

\* The operations of a log are operations of a longer one.
LEMMA MeantGrows ==
  ASSUME NEW l \in Seq(Topics), NEW t \in Topics
  PROVE  LET k == Append(l, t)
         IN Meant(l) \subseteq Meant(k) /\ Again(l) \subseteq Again(k)
<1> DEFINE k == Append(l, t)
<1>1. All(l) \subseteq All(k) /\ \A m \in All(l) : k[m] = l[m]
  BY LogGrows
<1> HIDE DEF k
<1>2. \A messages \in Seq(All(l)) : messages \in Seq(All(k))
  BY <1>1, SeqMonotonic
<1>3. Meant(l) \subseteq Meant(k)
  BY <1>1, <1>2 DEF Meant
<1> QED BY <1>3 DEF Again, k

\* So are its transactions.
LEMMA FittingGrows ==
  ASSUME NEW l \in Seq(Topics), NEW t \in Topics
  PROVE  Fitting(l) \subseteq Fitting(Append(l, t))
<1>1. Meant(l) \subseteq Meant(Append(l, t))
  BY MeantGrows
<1>2. \A ops \in Seq(Meant(l)) : ops \in Seq(Meant(Append(l, t)))
  BY <1>1, SeqMonotonic
<1> QED BY <1>2, Zenon DEF Fitting

\* A message behind an ascending list of older ones.
LEMMA AscendsOn ==
  ASSUME NEW messages \in Seq(Nat), NEW m \in Nat, Ascending(messages),
         \A i \in 1..Len(messages) : messages[i] < m
  PROVE  Ascending(Append(messages, m))
<1> DEFINE r == Append(messages, m)
<1>1. /\ Len(r) = Len(messages) + 1 /\ r[Len(messages) + 1] = m /\ Len(messages) \in Nat
      /\ \A i \in 1..Len(messages) : r[i] = messages[i]
  OBVIOUS
<1> HIDE DEF r
<1>2. ASSUME NEW i \in 1..Len(r), NEW j \in 1..Len(r), i < j
      PROVE  r[i] < r[j]
  <2>1. i \in 1..Len(messages) /\ r[i] = messages[i]
    BY <1>1, <1>2
  <2>2. CASE j = Len(messages) + 1
    BY <1>1, <2>1, <2>2
  <2>3. CASE j # Len(messages) + 1
    <3>1. j \in 1..Len(messages) /\ r[j] = messages[j]
      BY <1>1, <2>3
    <3> QED BY <1>2, <2>1, <3>1 DEF Ascending
  <2> QED BY <2>2, <2>3
<1> QED BY <1>2 DEF Ascending, r

\* The fields of the state and of the past.
Recorded(s, t, m) ==
  [s EXCEPT !.mgr.ring[t] = Pruned(Append(@, m)),
            !.mgr.pending = Append(@, m), !.mgr.flushing = TRUE]
RingWith(ring, t, m) == [ring EXCEPT ![t] = Pruned(Append(@, m))]
\* What recording changes is the history, the pending messages and a flag.
LEMMA RecordedIs ==
  ASSUME NEW s \in States, NEW t \in Topics, NEW m \in Nat
  PROVE  LET r == Recorded(s, t, m)
         IN /\ r \in States /\ Same(s, r) /\ r.store.data = s.store.data
            /\ r.mgr.ring = RingWith(s.mgr.ring, t, m) /\ r.mgr.pending = Append(s.mgr.pending, m)
            /\ r.mgr.hydration = s.mgr.hydration
            /\ Awaited(s) => Awaited(r)
            /\ r.mgr.clearedTopics = s.mgr.clearedTopics
            /\ r.mgr.clearBefore = s.mgr.clearBefore
<1> DEFINE ring == RingWith(s.mgr.ring, t, m)
           pending == Append(s.mgr.pending, m)
           r == [s EXCEPT !.mgr.ring = ring, !.mgr.pending = pending, !.mgr.flushing = TRUE]
<1>1. s.mgr \in Managers /\ s.mgr.ring \in [Topics -> Seq(Nat)] /\ s.mgr.pending \in Seq(Nat)
  BY DEF States, Managers
<1>2. ring \in [Topics -> Seq(Nat)]
  <2>1. s.mgr.ring[t] \in Seq(Nat)
    BY <1>1
  <2>2. Append(s.mgr.ring[t], m) \in Seq(Nat)
    BY <2>1
  <2>3. Pruned(Append(s.mgr.ring[t], m)) \in Seq(Nat)
    BY <2>2, PrunedType
  <2> QED BY <1>1, <2>3 DEF RingWith
<1>3. pending \in Seq(Nat)
  BY <1>1
<1>4. Recorded(s, t, m) = r
  BY DEF Recorded, RingWith, States, Managers
<1> HIDE DEF ring, pending
<1>5. /\ r \in States /\ Same(s, r) /\ r.store.data = s.store.data
      /\ r.mgr.ring = ring /\ r.mgr.pending = pending
      /\ r.mgr.hydration = s.mgr.hydration
      /\ r.mgr.cutoff = s.mgr.cutoff /\ r.mgr.cleanup = s.mgr.cleanup
      /\ r.mgr.clearedTopics = s.mgr.clearedTopics
      /\ r.mgr.clearBefore = s.mgr.clearBefore
  BY <1>2, <1>3 DEF Same, States, Managers
<1> HIDE DEF r
<1> QED BY <1>4, <1>5 DEF Awaited, ring, pending

PastWith(p, t, m) == [p EXCEPT !.kept[t] = Append(@, m)]
\* What is past is longer by the message.
LEMMA PastWithIs ==
  ASSUME NEW p \in Pasts, NEW t \in Topics, NEW m \in Nat
  PROVE  LET f == PastWith(p, t, m)
         IN /\ f \in Pasts /\ f.cleared = p.cleared /\ f.gone = p.gone /\ f.retried = p.retried
            /\ f.kept[t] = Append(p.kept[t], m)
            /\ \A u \in Topics : u # t => f.kept[u] = p.kept[u]
<1>1. p.kept \in [Topics -> Seq(Nat)] /\ Append(p.kept[t], m) \in Seq(Nat)
  BY DEF Pasts
<1> DEFINE a == Append(p.kept[t], m)
<1>2. PastWith(p, t, m) = [p EXCEPT !.kept = [p.kept EXCEPT ![t] = a]]
  BY DEF PastWith, Pasts
<1> HIDE DEF a
<1> QED BY <1>1, <1>2 DEF Pasts, a

\* record(), but for the cleanup it schedules.
LEMMA RecordKeeps ==
  ASSUME NEW s, NEW l, NEW p, NEW t \in Topics, Good(s, l, p), Len(l) + 1 <= MaxMessages
  PROVE  Good(Recorded(s, t, Len(l) + 1), Append(l, t), PastWith(p, t, Len(l) + 1))
<1> DEFINE m == Len(l) + 1
           k == Append(l, t)
           f == PastWith(p, t, m)
           r == Recorded(s, t, m)
<1>1. /\ s \in States /\ p \in Pasts /\ Len(l) \in Nat /\ l \in Seq(Topics)
      /\ s.mgr.ring \in [Topics -> Seq(Nat)] /\ s.mgr.pending \in Seq(Nat)
  BY TypedParts DEF Good, Typed, Logged
<1>2. /\ k \in Seq(Topics) /\ Len(k) = m /\ m \in Nat
      /\ All(l) \subseteq All(k) /\ m \in Of(k, t) /\ Len(k) <= MaxMessages
      /\ \A n \in All(l) : k[n] = l[n]
      /\ \A u \in Topics : Of(l, u) \subseteq Of(k, u)
  BY <1>1, LogGrows
<1>3. /\ Meant(l) \subseteq Meant(k) /\ Again(l) \subseteq Again(k)
      /\ Fitting(l) \subseteq Fitting(k)
  BY <1>1, MeantGrows, FittingGrows
<1> HIDE DEF k
<1>4. /\ f \in Pasts /\ f.cleared = p.cleared /\ f.gone = p.gone /\ f.retried = p.retried
      /\ f.kept[t] = Append(p.kept[t], m)
      /\ \A u \in Topics : u # t => f.kept[u] = p.kept[u]
  BY <1>1, <1>2, PastWithIs
<1> HIDE DEF f
<1>5. /\ r \in States /\ Same(s, r) /\ r.store.data = s.store.data
      /\ r.mgr.ring = RingWith(s.mgr.ring, t, m) /\ r.mgr.pending = Append(s.mgr.pending, m)
      /\ r.mgr.hydration = s.mgr.hydration
      /\ Awaited(s) => Awaited(r)
      /\ r.mgr.clearedTopics = s.mgr.clearedTopics
      /\ r.mgr.clearBefore = s.mgr.clearBefore
  BY <1>1, <1>2, RecordedIs
<1> HIDE DEF r
<1>6. /\ r.mgr.ring[t] = Pruned(Append(s.mgr.ring[t], m))
      /\ \A u \in Topics : u # t => r.mgr.ring[u] = s.mgr.ring[u]
  BY <1>1, <1>5 DEF RingWith
<1>7. /\ m \notin All(l) /\ p.cleared \subseteq All(l) /\ p.gone \subseteq All(l)
      /\ m \in All(k)
  BY <1>1, <1>2 DEF Good, Typed, Logged, All
<1> HIDE DEF m
<1>8. Typed(r, k, f)
  <2>1. Logged(k, f)
    <3>1. Logged(l, p)
      BY DEF Good, Typed
    <3>2. ASSUME NEW u \in Topics
          PROVE  f.kept[u] \in Seq(Of(k, u))
      <4>1. p.kept[u] \in Seq(Of(k, u))
        BY <1>2, <3>1, SeqMonotonic DEF Logged
      <4>2. CASE u = t
        <5>1. Append(p.kept[t], m) \in Seq(Of(k, t))
          BY <1>2, <4>1, <4>2
        <5> QED BY <1>4, <4>2, <5>1
      <4>3. CASE u # t
        BY <1>4, <4>1, <4>3
      <4> QED BY <4>2, <4>3
    <3> QED BY <1>2, <1>4, <1>7, <3>1, <3>2 DEF Logged
  <2>2. OnTopic(r, k)
    <3>1. OnTopic(s, l)
      BY DEF Good, Typed
    <3>2. ASSUME NEW u \in Topics
          PROVE  /\ r.mgr.ring[u] \in Seq(Of(k, u)) /\ r.store.data[u] \in Seq(Of(k, u))
                 /\ Len(r.mgr.ring[u]) <= MaxPerTopic /\ Len(r.store.data[u]) <= MaxPerTopic
      <4>1. /\ s.mgr.ring[u] \in Seq(Of(k, u)) /\ s.store.data[u] \in Seq(Of(k, u))
            /\ Len(s.mgr.ring[u]) <= MaxPerTopic /\ Len(s.store.data[u]) <= MaxPerTopic
        BY <1>2, <3>1, SeqMonotonic DEF OnTopic
      <4>2. CASE u = t
        <5>1. Append(s.mgr.ring[t], m) \in Seq(Of(k, t))
          BY <1>2, <4>1, <4>2
        <5> DEFINE b == Append(s.mgr.ring[t], m)
        <5>2. /\ Pruned(b) \in Seq(Of(k, t))
              /\ Len(Pruned(b)) <= MaxPerTopic
          <6>1. /\ Len(Pruned(b)) = IF Len(b) > MaxPerTopic THEN MaxPerTopic ELSE Len(b)
                /\ Pruned(b) \in Seq(Of(k, t))
            BY <5>1, PrunedType
          <6>2. Len(b) \in Nat /\ MaxPerTopic \in Nat
            BY <5>1, ReplayAssumption
          <6> HIDE DEF b
          <6> QED BY <6>1, <6>2
        <5> QED BY <1>5, <1>6, <4>1, <4>2, <5>2
      <4> QED BY <1>5, <1>6, <4>1, <4>2
    <3>3. r.mgr.pending \in Seq(All(k))
      <4>1. s.mgr.pending \in Seq(All(k))
        BY <1>2, <3>1, SeqMonotonic DEF OnTopic
      <4> QED BY <1>5, <1>7, <4>1
    <3> QED BY <3>2, <3>3 DEF OnTopic
  <2>3. /\ s.store.queue \in Seq(Meant(k)) /\ s.store.transactions \in Seq(Fitting(k))
        /\ s.backoff \subseteq Again(k)
    BY <1>3, SeqMonotonic DEF Good, Typed
  <2> QED BY <1>5, <2>1, <2>2, <2>3 DEF Typed, Same
<1>9. Busy(r)
  BY <1>5 DEF Good, Busy, Same
<1>10. Cleared(r, k, f)
  <2>1. Cleared(s, l, p)
    BY DEF Good
  <2>2. /\ Stored(f) = Stored(p) /\ Shown(f) = Shown(p) /\ Waiting(f) = Waiting(p)
        /\ OfSession(f) = OfSession(p) /\ Sent(f) = Sent(p)
    BY <1>4 DEF Stored, Shown, Waiting, OfSession, Sent
  <2>3. m \in Shown(f) /\ m \in Waiting(f)
    BY <1>2, <1>4, <1>7 DEF Stored, Shown, Waiting
  <2>4. ASSUME NEW u \in Topics
        PROVE  r.mgr.ring[u] \in Seq(Shown(f)) /\ r.store.data[u] \in Seq(Stored(f))
    <3>1. s.mgr.ring[u] \in Seq(Shown(f)) /\ s.store.data[u] \in Seq(Stored(f))
      BY <2>1, <2>2 DEF Cleared
    <3>2. CASE u = t
      <4>1. Append(s.mgr.ring[t], m) \in Seq(Shown(f))
        BY <2>3, <3>1, <3>2
      <4>2. Pruned(Append(s.mgr.ring[t], m)) \in Seq(Shown(f))
        BY <4>1, PrunedType
      <4> QED BY <1>5, <1>6, <3>1, <3>2, <4>2
    <3> QED BY <1>5, <1>6, <3>1, <3>2
  <2>5. r.mgr.pending \in Seq(Waiting(f))
    <3>1. s.mgr.pending \in Seq(Waiting(f))
      BY <2>1, <2>2 DEF Cleared
    <3> QED BY <1>5, <2>3, <3>1
  <2>6. Remembered(r, k, f)
    BY <1>2, <1>4, <1>5, <1>7, <2>1 DEF Cleared, Remembered
  <2>7. InOrder(r.store.queue, r.store.transactions, f)
    <3>1. p.retried \subseteq f.retried /\ InOrder(s.store.queue, s.store.transactions, p)
      BY <1>4, <2>1 DEF Cleared
    <3> QED BY <1>1, <1>4, <1>5, <3>1, OrderPast DEF Same
  <2> QED BY <1>5, <2>1, <2>2, <2>4, <2>5, <2>6, <2>7 DEF Cleared, Same
<1>11. Tailed(r, f)
  <2>1. ASSUME NEW u \in Topics
        PROVE  Ascending(f.kept[u]) /\ Ends(Pruned(f.kept[u]), r.mgr.ring[u])
    <3>1. Ascending(p.kept[u]) /\ Ends(Pruned(p.kept[u]), s.mgr.ring[u])
      BY DEF Good, Tailed
    <3>2. CASE u = t
      <4>1. p.kept[t] \in Seq(Nat) /\ p.kept[t] \in Seq(Of(l, t)) /\ s.mgr.ring[t] \in Seq(Nat)
        BY <1>1 DEF Good, Typed, Logged, Pasts
      <4>2. \A i \in 1..Len(p.kept[t]) : p.kept[t][i] < m
        <5>1. \A i \in 1..Len(p.kept[t]) : p.kept[t][i] \in Of(l, t)
          BY <4>1
        <5> QED BY <1>1, <5>1 DEF Of, All, m
      <4>3. Ascending(Append(p.kept[t], m))
        BY <1>2, <3>1, <3>2, <4>1, <4>2, AscendsOn
      <4>4. Ends(Pruned(Append(p.kept[t], m)), Pruned(Append(s.mgr.ring[t], m)))
        BY <1>2, <3>1, <3>2, <4>1, EndsAppend
      <4> QED BY <1>4, <1>6, <3>2, <4>3, <4>4
    <3> QED BY <1>4, <1>6, <3>1, <3>2
  <2> QED BY <2>1 DEF Tailed
<1> QED BY <1>8, <1>9, <1>10, <1>11 DEF Good, r, f, k, m

\* Recording keeps the invariant, with the cleanup that it schedules.
LEMMA RecordInv ==
  ASSUME IInv, NEW t \in Topics, Record(t)
  PROVE  IInv'
<1> DEFINE m == Now + 1
           s == Recorded(Here, t, m)
           c == m - mgr.retention
<1>1. /\ log' = Append(log, t) /\ past' = PastWith(past, t, m) /\ m <= MaxMessages
      /\ Become(IF mgr.retention = 0 THEN s ELSE ScheduleCleanup(s, c))
      /\ phase' \in {"stopped", "running", "suspended"}
  BY Zenon DEF Record, Recorded, PastWith, IInv
<1>2. Good(s, log', past')
  BY <1>1, HereGood, RecordKeeps DEF Now
<1>3. mgr.retention \in Nat /\ c \in Int
  BY HereGood, TypedParts DEF Good
<1>4. s \in States
  BY <1>2, TypedParts DEF Good
<1> HIDE DEF s, c
<1>5. Good(ScheduleCleanup(s, c), log', past')
  BY <1>2, <1>3, <1>4, ScheduleIs, IdleKeeps, SweepKeeps
<1> QED BY <1>1, <1>2, <1>5, StepKeeps

----------------------------------------------------------------------------
(* A batch is enqueued.                                                    *)

\* What an operation that joins the queue has to keep to.
LEMMA EnqueueSound ==
  ASSUME NEW s, NEW l, NEW p, NEW op, Sound(s, l, p), op \in Meant(l), op \in Sent(p),
         \A o \in Sent(p) : Apart(o, op, p)
  PROVE  Sound(Enqueue(s, op), l, p)
<1> DEFINE r == Enqueue(s, op)
<1>1. Typed(s, l, p) /\ Cleared(s, l, p) /\ Tailed(s, p)
  BY DEF Sound
<1>2. /\ s \in States /\ s.store.queue \in Seq(Ops) /\ s.store.transactions \in Seq(Transactions)
      /\ op \in Ops
  BY <1>1, TypedParts DEF Meant
<1>3. /\ r \in States /\ r.mgr = s.mgr /\ r.store.data = s.store.data /\ r.backoff = s.backoff
      /\ r.store.queue = Append(s.store.queue, op)
      /\ r.store.transactions = s.store.transactions
  BY <1>2, EnqueueIs DEF Alike
<1> HIDE DEF r
<1>4. Typed(r, l, p)
  <2> DEFINE G == Meant(l)
  <2>1. s.store.queue \in Seq(G) /\ op \in G
    BY <1>1 DEF Typed
  <2> HIDE DEF G
  <2>2. Append(s.store.queue, op) \in Seq(G)
    BY <2>1
  <2> QED BY <1>1, <1>3, <2>2 DEF Typed, OnTopic, G
<1>5. Cleared(r, l, p)
  <2> DEFINE G == Sent(p)
  <2>1. s.store.queue \in Seq(G) /\ op \in G /\ InOrder(s.store.queue, s.store.transactions, p)
    BY <1>1 DEF Cleared
  <2>2. \A i \in 1..Len(s.store.queue) : Apart(s.store.queue[i], op, p)
    BY <2>1
  <2>3. ASSUME NEW i \in 1..Len(s.store.transactions)
        PROVE  Apart(s.store.transactions[i][1], op, p)
    <3>1. s.store.transactions[i] \in Seq(Sent(p)) /\ 1 \in 1..Len(s.store.transactions[i])
      BY <1>1, <1>2 DEF Cleared, Transactions
    <3>2. s.store.transactions[i][1] \in Sent(p)
      BY <3>1
    <3> QED BY <3>2
  <2> HIDE DEF G
  <2>4. Append(s.store.queue, op) \in Seq(G)
    BY <2>1
  <2>5. InOrder(Append(s.store.queue, op), s.store.transactions, p)
    BY <1>2, <2>1, <2>2, <2>3, OrderQueued
  <2> QED BY <1>1, <1>3, <2>4, <2>5 DEF Cleared, Remembered, G
<1>6. Tailed(r, p)
  BY <1>1, <1>3 DEF Tailed
<1> QED BY <1>4, <1>5, <1>6 DEF Sound, r

\* If it is no hydration, the jobs are as before.
LEMMA EnqueueBusy ==
  ASSUME NEW s, NEW l, NEW p, NEW op \in Ops, Typed(s, l, p), Busy(s), ~Hydrating(op)
  PROVE  Busy(Enqueue(s, op))
<1> DEFINE r == Enqueue(s, op)
<1>1. /\ s \in States /\ s.store.queue \in Seq(Ops) /\ s.store.transactions \in Seq(Transactions)
      /\ s.mgr.hydration \in BOOLEAN
  BY TypedParts
<1>2. /\ r.mgr = s.mgr /\ r.backoff = s.backoff
      /\ r.store.queue = Append(s.store.queue, op)
      /\ r.store.transactions = s.store.transactions
  BY <1>1, EnqueueIs DEF Alike
<1> HIDE DEF r
<1>3. OnePlace(s.mgr.hydration, s.store.queue, s.store.transactions, s.backoff) /\ Awaited(s)
  BY DEF Busy
<1>4. OnePlace(s.mgr.hydration, Append(s.store.queue, op), s.store.transactions, s.backoff)
  BY <1>1, <1>3, OneMore
<1> QED BY <1>2, <1>3, <1>4 DEF Busy, Awaited, r

\* Nothing is pending any more.
Flushed(s) == [s EXCEPT !.mgr.flushing = FALSE, !.mgr.pending = <<>>]
\* The fields of the state.
LEMMA FlushedIs ==
  ASSUME NEW s \in States
  PROVE  LET r == Flushed(s)
         IN /\ r \in States /\ r.store = s.store /\ r.backoff = s.backoff
            /\ r.mgr.ring = s.mgr.ring /\ r.mgr.pending = <<>>
            /\ r.mgr.hydration = s.mgr.hydration
            /\ Awaited(s) => Awaited(r)
            /\ r.mgr.clearedTopics = s.mgr.clearedTopics
            /\ r.mgr.clearBefore = s.mgr.clearBefore
<1> DEFINE e == <<>>
           r == [s EXCEPT !.mgr.flushing = FALSE, !.mgr.pending = e]
<1>1. e \in Seq(Nat) /\ Flushed(s) = r
  BY DEF Flushed
<1>2. e = <<>>
  OBVIOUS
<1> HIDE DEF e
<1>3. /\ r \in States /\ r.store = s.store /\ r.backoff = s.backoff
      /\ r.mgr.ring = s.mgr.ring /\ r.mgr.pending = e
      /\ r.mgr.hydration = s.mgr.hydration
      /\ r.mgr.cutoff = s.mgr.cutoff /\ r.mgr.cleanup = s.mgr.cleanup
      /\ r.mgr.clearedTopics = s.mgr.clearedTopics
      /\ r.mgr.clearBefore = s.mgr.clearBefore
  BY <1>1 DEF States, Managers
<1> HIDE DEF r
<1> QED BY <1>1, <1>2, <1>3 DEF Awaited

\* The invariant does not need what is pending.
LEMMA FlushedKeeps ==
  ASSUME NEW s, NEW l, NEW p, Good(s, l, p)
  PROVE  Good(Flushed(s), l, p)
<1> DEFINE r == Flushed(s)
<1>1. /\ r \in States /\ r.store = s.store /\ r.backoff = s.backoff
      /\ r.mgr.ring = s.mgr.ring /\ r.mgr.pending = <<>>
      /\ r.mgr.hydration = s.mgr.hydration
      /\ Awaited(s) => Awaited(r)
      /\ r.mgr.clearedTopics = s.mgr.clearedTopics
      /\ r.mgr.clearBefore = s.mgr.clearBefore
  BY FlushedIs, TypedParts DEF Good
<1> HIDE DEF r
<1>2. r.mgr.pending \in Seq(All(l)) /\ r.mgr.pending \in Seq(Waiting(p))
  BY <1>1, EmptySeq
<1>3. Typed(r, l, p)
  BY <1>1, <1>2 DEF Good, Typed, OnTopic
<1>4. Busy(r)
  BY <1>1 DEF Good, Busy
<1>5. Cleared(r, l, p)
  BY <1>1, <1>2 DEF Good, Cleared, Remembered
<1>6. Tailed(r, p)
  BY <1>1 DEF Good, Tailed
<1> QED BY <1>3, <1>4, <1>5, <1>6 DEF Good, r

\* The microtask of schedulePersistenceFlush.
LEMMA FlushInv ==
  ASSUME IInv, Flush
  PROVE  IInv'
<1> DEFINE s == Flushed(Here)
           op == Appending(mgr.pending)
           r == Enqueue(s, op)
<1>1. /\ Become(IF mgr.pending = <<>> THEN s ELSE r)
      /\ UNCHANGED <<phase, log, past>>
  BY Zenon DEF Flush, Flushed
<1>2. Good(s, log, past) /\ Good(Here, log, past)
  BY HereGood, FlushedKeeps
<1>3. mgr.pending \in Seq(All(log)) /\ mgr.pending \in Seq(Waiting(past))
  BY <1>2, HereGood DEF Good, Typed, OnTopic, Cleared
<1>4. op \in Ops /\ OpIs(op, "append", mgr.pending, {}, 0, {})
  <2>1. Len(log) \in Nat /\ Len(log) <= MaxMessages /\ MaxMessages \in Nat
    BY <1>2, TypedParts, ReplayAssumption DEF Good, Typed, Logged
  <2>2. All(log) \subseteq 1..MaxMessages
    BY <2>1 DEF All
  <2>3. mgr.pending \in Seq(1..MaxMessages)
    BY <1>3, <2>2, SeqMonotonic
  <2> QED BY <2>3, AppendingIs
<1>5. op \in Meant(log) /\ ~Hydrating(op)
  BY <1>3, <1>4 DEF Meant, OpIs, Hydrating
<1>6. op \in Sent(past)
  <2>1. Waiting(past) \subseteq Stored(past)
    BY DEF Waiting, Stored
  <2>2. mgr.pending \in Seq(Stored(past))
    BY <1>3, <2>1, SeqMonotonic
  <2> QED BY <1>4, <2>2 DEF Sent, OfSession, OpIs
<1>7. ASSUME NEW o \in Sent(past)
      PROVE  Apart(o, op, past)
  <2>1. CASE o.kind = "clear" /\ o.live
    <3>1. Waiting(past) \subseteq past.retried \cup (Nat \ o.doomed)
      BY <2>1 DEF Sent, OfSession, Waiting
    <3>2. mgr.pending \in Seq(past.retried \cup (Nat \ o.doomed))
      BY <1>3, <3>1, SeqMonotonic
    <3> QED BY <1>4, <3>2 DEF Apart, OpIs
  <2>2. CASE ~(o.kind = "clear" /\ o.live)
    BY <2>2 DEF Apart
  <2> QED BY <2>1, <2>2
<1> HIDE DEF s, op
<1>8. Good(r, log, past)
  <2>1. Sound(r, log, past)
    BY <1>2, <1>5, <1>6, <1>7, EnqueueSound DEF Good, Sound
  <2>2. Busy(r)
    BY <1>2, <1>4, <1>5, EnqueueBusy DEF Good
  <2> QED BY <2>1, <2>2 DEF Good, Sound
<1> HIDE DEF r
<1> QED BY <1>1, <1>2, <1>8, StepKeeps DEF IInv

----------------------------------------------------------------------------
(* A clear.                                                                *)

\* What is left of a list has none of the doomed.
LEMMA WithoutIs ==
  ASSUME NEW T, NEW before, NEW S, NEW messages \in Seq(S)
  PROVE  /\ Without(T, before, messages) \in Seq(S \ Doomed(T, before))
         /\ Len(Without(T, before, messages)) <= Len(messages)
         /\ Without(T, before, messages) \in Seq(S)
<1> DEFINE those == 1..Now \ Doomed(T, before)
<1>1. /\ Kept(messages, those) \in Seq(S \cap those)
      /\ Len(Kept(messages, those)) <= Len(messages)
  BY KeptType
<1>2. S \cap those \subseteq S \ Doomed(T, before) /\ S \cap those \subseteq S
  OBVIOUS
<1> HIDE DEF those
<1>3. Kept(messages, those) \in Seq(S \ Doomed(T, before)) /\ Kept(messages, those) \in Seq(S)
  BY <1>1, <1>2, SeqMonotonic
<1> QED BY <1>1, <1>3 DEF Without, those

\* The fields of the manager but for the operation, and of the past.
WithoutAll(histories, T, before) == [t \in Topics |-> Without(T, before, histories[t])]
ClearedTopics(s, T, before) ==
  IF before = Forever THEN s.mgr.clearedTopics \cup T ELSE s.mgr.clearedTopics
ClearBefore(s, before) ==
  IF before # Forever /\ before > s.mgr.clearBefore THEN before ELSE s.mgr.clearBefore
Emptied(s, T, before) ==
  [s EXCEPT !.mgr.ring = WithoutAll(@, T, before),
            !.mgr.pending = Without(T, before, @),
            !.mgr.clearedTopics = IF before = Forever THEN @ \cup T ELSE @,
            !.mgr.clearBefore = IF before # Forever /\ before > @ THEN before ELSE @]
\* What a clear changes of the manager.
LEMMA EmptiedIs ==
  ASSUME NEW s \in States, NEW T \in SUBSET Topics, NEW before \in Nat
  PROVE  LET r == Emptied(s, T, before)
         IN /\ r \in States /\ r.store = s.store /\ r.backoff = s.backoff
            /\ r.mgr.ring = WithoutAll(s.mgr.ring, T, before)
            /\ r.mgr.pending = Without(T, before, s.mgr.pending)
            /\ r.mgr.clearedTopics = ClearedTopics(s, T, before)
            /\ r.mgr.clearBefore = ClearBefore(s, before)
            /\ r.mgr.hydration = s.mgr.hydration
            /\ Awaited(s) => Awaited(r)
<1> DEFINE ring == WithoutAll(s.mgr.ring, T, before)
           pending == Without(T, before, s.mgr.pending)
           c == ClearedTopics(s, T, before)
           b == ClearBefore(s, before)
           q == [s EXCEPT !.mgr.ring = ring, !.mgr.pending = pending]
           r == [q EXCEPT !.mgr.clearedTopics = c, !.mgr.clearBefore = b]
<1>1. /\ s.mgr \in Managers /\ s.mgr.ring \in [Topics -> Seq(Nat)] /\ s.mgr.pending \in Seq(Nat)
      /\ s.mgr.clearedTopics \in SUBSET Topics /\ s.mgr.clearBefore \in Nat
  BY DEF States, Managers
<1>2. ring \in [Topics -> Seq(Nat)]
  <2>1. ASSUME NEW t \in Topics
        PROVE  Without(T, before, s.mgr.ring[t]) \in Seq(Nat)
    <3>1. s.mgr.ring[t] \in Seq(Nat)
      BY <1>1
    <3> QED BY <3>1, WithoutIs
  <2> QED BY <2>1 DEF WithoutAll
<1>3. pending \in Seq(Nat)
  BY <1>1, WithoutIs
<1>4. c \in SUBSET Topics /\ b \in Nat
  BY <1>1 DEF ClearedTopics, ClearBefore
<1>5. Emptied(s, T, before) = r
  BY DEF Emptied, ClearedTopics, ClearBefore, States, Managers
<1> HIDE DEF ring, pending, c, b
<1>6. /\ q \in States /\ q.store = s.store /\ q.backoff = s.backoff
      /\ q.mgr.ring = ring /\ q.mgr.pending = pending
      /\ q.mgr.hydration = s.mgr.hydration
      /\ q.mgr.cutoff = s.mgr.cutoff /\ q.mgr.cleanup = s.mgr.cleanup
  BY <1>2, <1>3 DEF States, Managers
<1> HIDE DEF q
<1>7. /\ r \in States /\ r.store = s.store /\ r.backoff = s.backoff
      /\ r.mgr.ring = ring /\ r.mgr.pending = pending
      /\ r.mgr.hydration = s.mgr.hydration
      /\ r.mgr.cutoff = s.mgr.cutoff /\ r.mgr.cleanup = s.mgr.cleanup
      /\ r.mgr.clearedTopics = c /\ r.mgr.clearBefore = b
  BY <1>4, <1>6 DEF States, Managers
<1> HIDE DEF r
<1> QED BY <1>5, <1>7 DEF Awaited, ring, pending, c, b

PastWithout(p, T, before) ==
  [p EXCEPT !.kept = WithoutAll(@, T, before), !.cleared = @ \cup Doomed(T, before)]
\* What a clear changes of the past.
LEMMA PastWithoutIs ==
  ASSUME NEW p \in Pasts, NEW T, NEW before, Now \in Nat
  PROVE  LET f == PastWithout(p, T, before)
         IN /\ f \in Pasts /\ f.gone = p.gone /\ f.retried = p.retried
            /\ f.cleared = p.cleared \cup Doomed(T, before)
            /\ \A t \in Topics : f.kept[t] = Without(T, before, p.kept[t])
<1> DEFINE kept == WithoutAll(p.kept, T, before)
           cleared == p.cleared \cup Doomed(T, before)
<1>1. kept \in [Topics -> Seq(Nat)]
  <2>1. ASSUME NEW t \in Topics
        PROVE  Without(T, before, p.kept[t]) \in Seq(Nat)
    <3>1. p.kept[t] \in Seq(Nat)
      BY DEF Pasts
    <3> QED BY <3>1, WithoutIs
  <2> QED BY <2>1 DEF WithoutAll
<1>2. cleared \in SUBSET Nat
  BY DEF Pasts, Doomed
<1>3. PastWithout(p, T, before) = [p EXCEPT !.kept = kept, !.cleared = cleared]
  BY DEF PastWithout, Pasts
<1>4. \A t \in Topics : kept[t] = Without(T, before, p.kept[t])
  BY DEF WithoutAll
<1> HIDE DEF kept, cleared
<1>5. LET f == PastWithout(p, T, before)
      IN /\ f \in Pasts /\ f.gone = p.gone /\ f.retried = p.retried
         /\ f.cleared = cleared /\ f.kept = kept
  BY <1>1, <1>2, <1>3 DEF Pasts
<1> QED BY <1>4, <1>5 DEF cleared

\* A clear, but for its operation.
LEMMA EmptiedKeeps ==
  ASSUME NEW s, NEW p, Good(s, log, p), NEW T \in SUBSET Topics, NEW before \in Nat
  PROVE  Good(Emptied(s, T, before), log, PastWithout(p, T, before))
<1> DEFINE r == Emptied(s, T, before)
           f == PastWithout(p, T, before)
           doomed == Doomed(T, before)
<1>1. /\ s \in States /\ p \in Pasts /\ Now \in Nat /\ All(log) = 1..Now
      /\ s.mgr.ring \in [Topics -> Seq(Nat)] /\ s.mgr.pending \in Seq(Nat)
      /\ s.mgr.clearBefore \in Nat
  BY TypedParts DEF Good, Now, All
<1>2. /\ r \in States /\ r.store = s.store /\ r.backoff = s.backoff
      /\ r.mgr.ring = WithoutAll(s.mgr.ring, T, before)
      /\ r.mgr.pending = Without(T, before, s.mgr.pending)
      /\ r.mgr.clearedTopics = ClearedTopics(s, T, before)
      /\ r.mgr.clearBefore = ClearBefore(s, before)
      /\ r.mgr.hydration = s.mgr.hydration
      /\ Awaited(s) => Awaited(r)
  BY <1>1, EmptiedIs
<1> HIDE DEF r
<1>3. /\ f \in Pasts /\ f.gone = p.gone /\ f.retried = p.retried
      /\ f.cleared = p.cleared \cup doomed
      /\ \A t \in Topics : f.kept[t] = Without(T, before, p.kept[t])
  BY <1>1, PastWithoutIs
<1> HIDE DEF f
<1>4. \A t \in Topics : r.mgr.ring[t] = Without(T, before, s.mgr.ring[t])
  BY <1>2 DEF WithoutAll
<1>5. doomed \subseteq All(log) /\ \A m \in doomed : log[m] \in T /\ m < before
  BY <1>1 DEF Doomed
<1> HIDE DEF doomed
<1>6. Typed(r, log, f)
  <2>1. Logged(log, p) /\ OnTopic(s, log)
    BY DEF Good, Typed
  <2>2. \A t \in Topics : f.kept[t] \in Seq(Of(log, t))
    <3>1. \A t \in Topics : p.kept[t] \in Seq(Of(log, t))
      BY <2>1 DEF Logged
    <3>2. \A t \in Topics : Without(T, before, p.kept[t]) \in Seq(Of(log, t))
      BY <3>1, WithoutIs
    <3> QED BY <1>3, <3>2
  <2>3. Logged(log, f)
    BY <1>3, <1>5, <2>1, <2>2 DEF Logged
  <2>4. ASSUME NEW t \in Topics
        PROVE  r.mgr.ring[t] \in Seq(Of(log, t)) /\ Len(r.mgr.ring[t]) <= MaxPerTopic
    <3>1. s.mgr.ring[t] \in Seq(Of(log, t)) /\ Len(s.mgr.ring[t]) <= MaxPerTopic
      BY <2>1 DEF OnTopic
    <3> DEFINE a == s.mgr.ring[t]
               b == Without(T, before, a)
    <3>2. b \in Seq(Of(log, t)) /\ Len(b) <= Len(a)
      BY <3>1, WithoutIs
    <3>3. Len(a) \in Nat /\ Len(b) \in Nat /\ MaxPerTopic \in Nat
      BY <3>1, <3>2, ReplayAssumption
    <3> HIDE DEF b
    <3>4. Len(b) <= MaxPerTopic
      BY <3>1, <3>2, <3>3
    <3> QED BY <1>4, <3>2, <3>4 DEF b
  <2>5. r.mgr.pending \in Seq(All(log))
    <3>1. s.mgr.pending \in Seq(All(log))
      BY <2>1 DEF OnTopic
    <3>2. Without(T, before, s.mgr.pending) \in Seq(All(log))
      BY <3>1, WithoutIs
    <3> QED BY <1>2, <3>2
  <2>6. OnTopic(r, log)
    BY <1>2, <2>1, <2>4, <2>5 DEF OnTopic
  <2> QED BY <1>2, <2>3, <2>6 DEF Good, Typed
<1>7. Busy(r)
  BY <1>2 DEF Good, Busy
<1>8. Cleared(r, log, f)
  <2>1. Cleared(s, log, p)
    BY DEF Good
  <2>2. /\ Stored(f) = Stored(p) /\ Shown(p) \ doomed = Shown(f)
        /\ Waiting(p) \ doomed = Waiting(f) /\ OfSession(p) \subseteq OfSession(f)
    BY <1>3 DEF Stored, Shown, Waiting, OfSession
  <2>3. Sent(p) \subseteq Sent(f)
    BY <2>2 DEF Sent
  <2>4. ASSUME NEW t \in Topics
        PROVE  r.mgr.ring[t] \in Seq(Shown(f)) /\ r.store.data[t] \in Seq(Stored(f))
    <3>1. s.mgr.ring[t] \in Seq(Shown(p)) /\ s.store.data[t] \in Seq(Stored(p))
      BY <2>1 DEF Cleared
    <3>2. Without(T, before, s.mgr.ring[t]) \in Seq(Shown(p) \ doomed)
      BY <3>1, WithoutIs DEF doomed
    <3> QED BY <1>2, <1>4, <2>2, <3>1, <3>2
  <2>5. r.mgr.pending \in Seq(Waiting(f))
    <3>1. s.mgr.pending \in Seq(Waiting(p))
      BY <2>1 DEF Cleared
    <3>2. Without(T, before, s.mgr.pending) \in Seq(Waiting(p) \ doomed)
      BY <3>1, WithoutIs DEF doomed
    <3> QED BY <1>2, <2>2, <3>2
  <2>6. Remembered(r, log, f)
    <3>1. /\ s.mgr.clearedTopics \subseteq r.mgr.clearedTopics
          /\ s.mgr.clearBefore <= r.mgr.clearBefore /\ r.mgr.clearBefore \in Nat
          /\ before = Forever => T \subseteq r.mgr.clearedTopics
          /\ before # Forever => before <= r.mgr.clearBefore
      BY <1>1, <1>2 DEF ClearedTopics, ClearBefore
    <3>2. ASSUME NEW m \in p.cleared
          PROVE  log[m] \in r.mgr.clearedTopics \/ m < r.mgr.clearBefore
      <4>1. m \in Nat
        BY <1>1 DEF Pasts
      <4>2. log[m] \in s.mgr.clearedTopics \/ m < s.mgr.clearBefore
        BY <2>1 DEF Cleared, Remembered
      <4> QED BY <1>1, <3>1, <4>1, <4>2
    <3>3. ASSUME NEW m \in doomed
          PROVE  log[m] \in r.mgr.clearedTopics \/ m < r.mgr.clearBefore
      <4>1. m \in Nat /\ log[m] \in T /\ m < before
        BY <1>1, <1>5
      <4> QED BY <3>1, <4>1
    <3> QED BY <1>3, <3>2, <3>3 DEF Remembered
  <2>7. InOrder(r.store.queue, r.store.transactions, f)
    <3>1. p.retried \subseteq f.retried /\ InOrder(s.store.queue, s.store.transactions, p)
      BY <1>3, <2>1 DEF Cleared
    <3> QED BY <1>1, <1>2, <1>3, <3>1, OrderPast
  <2>8. s.store.queue \in Seq(Sent(f))
    BY <2>1, <2>3, SeqMonotonic DEF Cleared
  <2>9. s.store.transactions \in Seq(Seq(Sent(f)))
    <3>1. Seq(Sent(p)) \subseteq Seq(Sent(f))
      BY <2>3, SeqMonotonic
    <3> QED BY <2>1, <3>1, SeqMonotonic DEF Cleared
  <2>10. s.backoff \subseteq OfSession(f)
    BY <2>1, <2>2 DEF Cleared
  <2> QED BY <1>2, <2>4, <2>5, <2>6, <2>7, <2>8, <2>9, <2>10 DEF Cleared
<1>9. Tailed(r, f)
  <2>1. ASSUME NEW t \in Topics
        PROVE  Ascending(f.kept[t]) /\ Ends(Pruned(f.kept[t]), r.mgr.ring[t])
    <3> DEFINE those == 1..Now \ Doomed(T, before)
               S == Of(log, t)
    <3>1. /\ p.kept[t] \in Seq(S) /\ s.mgr.ring[t] \in Seq(S) /\ S \subseteq Nat
          /\ Ascending(p.kept[t]) /\ Ends(Pruned(p.kept[t]), s.mgr.ring[t])
      BY <1>1 DEF Good, Typed, Logged, OnTopic, Tailed, Of
    <3>2. \A m \in S \cap those, n \in S : m < n => n \in those
      BY <1>1 DEF Doomed, Of
    <3> HIDE DEF those, S
    <3>3. Ascending(Kept(p.kept[t], those))
      BY <3>1, KeptAscends
    <3>4. Ends(Pruned(Kept(p.kept[t], those)), Kept(s.mgr.ring[t], those))
      BY <3>1, <3>2, EndsKept
    <3> QED BY <1>3, <1>4, <3>3, <3>4 DEF Without, those
  <2> QED BY <2>1 DEF Tailed
<1> QED BY <1>6, <1>7, <1>8, <1>9 DEF Good, r, f

\* clearAll, clearTopic, onTopicUnsubscribed and clearBefore.
LEMMA ClearInv ==
  ASSUME IInv, NEW T \in SUBSET Topics, NEW before \in Nat, Clear(T, before)
  PROVE  IInv'
<1> DEFINE doomed == Doomed(T, before)
           op == ClearOp(T, before, doomed)
           s == Emptied(Here, T, before)
           f == PastWithout(past, T, before)
           r == Enqueue(s, op)
           q == Enqueue(Here, op)
           e == [q EXCEPT !.mgr.ring = WithoutAll(@, T, before),
                          !.mgr.pending = Without(T, before, mgr.pending),
                          !.mgr.clearedTopics = IF before = Forever THEN @ \cup T ELSE @,
                          !.mgr.clearBefore = IF before # Forever /\ before > @ THEN before
                                              ELSE @]
<1>1. Become(e) /\ past' = f /\ log' = log /\ phase' = phase
  BY Zenon DEF Clear, ClearOp, StillPending, WithoutAll, PastWithout
<1>2. Good(Here, log, past) /\ Good(s, log, f) /\ Here \in States /\ past \in Pasts /\ Now \in Nat
  BY HereGood, EmptiedKeeps, TypedParts DEF Good
<1>3. doomed \subseteq All(log) /\ \A m \in doomed : log[m] \in T /\ m < before
  BY <1>2 DEF Doomed, All, Now
<1>4. doomed \subseteq f.cleared
  BY <1>2, PastWithoutIs
<1>5. op \in Ops /\ OpIs(op, "clear", <<>>, T, before, doomed)
  <2>1. Len(log) \in Nat /\ Len(log) <= MaxMessages /\ MaxMessages \in Nat
    BY <1>2, TypedParts, ReplayAssumption DEF Good, Typed, Logged
  <2>2. doomed \in SUBSET (1..MaxMessages)
    BY <1>3, <2>1 DEF All
  <2> QED BY <2>2, ClearOpIs
<1>6. e = r
  <2> DEFINE a == WithoutAll(mgr.ring, T, before)
             b == Without(T, before, mgr.pending)
             c == IF before = Forever THEN mgr.clearedTopics \cup T ELSE mgr.clearedTopics
             d == IF before # Forever /\ before > mgr.clearBefore THEN before
                  ELSE mgr.clearBefore
             m == [mgr EXCEPT !.ring = a, !.pending = b, !.clearedTopics = c, !.clearBefore = d]
             t == [store EXCEPT !.queue = Append(@, op)]
  <2>1. q = [mgr |-> mgr, store |-> t, backoff |-> backoff]
    BY DEF Enqueue, Here
  <2>2. s = [mgr |-> m, store |-> store, backoff |-> backoff]
    <3>1. s = [Here EXCEPT !.mgr.ring = a, !.mgr.pending = b, !.mgr.clearedTopics = c,
                           !.mgr.clearBefore = d]
      BY <1>2 DEF Emptied, Here
    <3> HIDE DEF a, b, c, d
    <3> QED BY <3>1 DEF Here
  <2>3. r = [mgr |-> m, store |-> t, backoff |-> backoff]
    BY <2>2 DEF Enqueue
  <2>4. e = [mgr |-> m, store |-> t, backoff |-> backoff]
    <3>1. e = [q EXCEPT !.mgr.ring = a, !.mgr.pending = b, !.mgr.clearedTopics = c,
                        !.mgr.clearBefore = d]
      BY <1>2, <2>1
    <3> HIDE DEF a, b, c, d, q, t, e
    <3> QED BY <2>1, <3>1
  <2> HIDE DEF r
  <2> QED BY <2>3, <2>4
<1> HIDE DEF doomed, op, s, f, e
<1>7. op.messages \in Seq(All(log)) /\ op.messages \in Seq(Stored(f))
  BY <1>5, EmptySeq DEF OpIs
<1>8. op \in Meant(log) /\ ~Hydrating(op) /\ \A o \in Sent(f) : Apart(o, op, f)
  BY <1>3, <1>5, <1>7 DEF Meant, OpIs, Hydrating, Apart
<1>9. op \in Sent(f)
  BY <1>4, <1>5, <1>7 DEF Sent, OfSession, OpIs
<1>10. Good(r, log, f)
  <2>1. Sound(r, log, f)
    BY <1>2, <1>8, <1>9, EnqueueSound DEF Good, Sound
  <2>2. Busy(r)
    BY <1>2, <1>5, <1>8, EnqueueBusy DEF Good
  <2> QED BY <2>1, <2>2 DEF Good, Sound
<1> HIDE DEF r
<1> QED BY <1>1, <1>6, <1>10, StepKeeps DEF IInv

----------------------------------------------------------------------------
(* A transaction is created.                                               *)

\* What the queue has, its parts have.
LEMMA PartsOf ==
  ASSUME NEW G, NEW q \in Seq(G), NEW n \in 1..Len(q)
  PROVE  /\ SubSeq(q, n + 1, Len(q)) \in Seq(G) /\ SubSeq(q, 1, n) \in Seq(G)
         /\ Len(SubSeq(q, 1, n)) = n
         /\ \A i \in 1..n : SubSeq(q, 1, n)[i] = q[i]
OBVIOUS

\* A transaction that is created keeps what does not depend on the jobs.
LEMMA DrainSound ==
  ASSUME NEW s, NEW l, NEW p, Sound(s, l, p)
  PROVE  Sound(Drain(s), l, p)
<1> DEFINE r == Drain(s)
<1>1. Typed(s, l, p) /\ Cleared(s, l, p) /\ Tailed(s, p)
  BY DEF Sound
<1>2. s \in States /\ s.store.queue \in Seq(Ops) /\ s.store.transactions \in Seq(Transactions)
  BY <1>1, TypedParts
<1>3. /\ Alike(s, r)
      /\ \/ r = s
         \/ \E n \in 1..Len(s.store.queue) : Moves(s, r, n)
  BY <1>2, DrainIs
<1> HIDE DEF r
<1>4. SUFFICES ASSUME NEW n \in 1..Len(s.store.queue), Moves(s, r, n)
               PROVE  Sound(r, l, p)
  BY <1>3 DEF r
<1> DEFINE rest == SubSeq(s.store.queue, n + 1, Len(s.store.queue))
           ops == SubSeq(s.store.queue, 1, n)
<1>5. /\ r \in States /\ r.mgr = s.mgr /\ r.store.data = s.store.data /\ r.backoff = s.backoff
      /\ r.store.queue = rest /\ r.store.transactions = Append(s.store.transactions, ops)
  BY <1>3, <1>4 DEF Alike, Moves
<1>6. n = 1 \/ \A i \in 1..n : s.store.queue[i].kind = "append"
  BY <1>4 DEF Moves
<1>7. Typed(r, l, p)
  <2> DEFINE G == Meant(l)
             F == Fitting(l)
  <2>1. s.store.queue \in Seq(G) /\ s.store.transactions \in Seq(F)
    BY <1>1 DEF Typed
  <2> HIDE DEF G, F
  <2>2. /\ rest \in Seq(G) /\ ops \in Seq(G) /\ Len(ops) = n
        /\ \A i \in 1..n : ops[i] = s.store.queue[i]
    BY <2>1, PartsOf
  <2> HIDE DEF rest, ops
  <2>3. ops \in F
    <3>1. n \in Nat /\ n >= 1
      BY <1>2
    <3> QED BY <1>6, <2>2, <3>1 DEF F, Fitting, G
  <2>4. Append(s.store.transactions, ops) \in Seq(F)
    BY <2>1, <2>3
  <2> QED BY <1>1, <1>5, <2>2, <2>4 DEF Typed, OnTopic, G, F
<1>8. Cleared(r, l, p)
  <2> DEFINE G == Sent(p)
             F == Seq(G)
  <2>1. /\ s.store.queue \in Seq(G) /\ s.store.transactions \in Seq(F)
        /\ InOrder(s.store.queue, s.store.transactions, p)
    BY <1>1 DEF Cleared
  <2> HIDE DEF G
  <2>2. rest \in Seq(G) /\ ops \in F
    BY <2>1, PartsOf
  <2>3. InOrder(rest, Append(s.store.transactions, ops), p)
    BY <1>2, <2>1, OrderDrained
  <2> HIDE DEF rest, ops
  <2> HIDE DEF F
  <2>4. Append(s.store.transactions, ops) \in Seq(F)
    BY <2>1, <2>2
  <2> QED BY <1>1, <1>5, <2>2, <2>3, <2>4 DEF Cleared, Remembered, G, F
<1>9. Tailed(r, p)
  BY <1>1, <1>5 DEF Tailed
<1> QED BY <1>7, <1>8, <1>9 DEF Sound

\* The place of a hydration moves along.
LEMMA DrainPlace ==
  ASSUME NEW s, NEW l, NEW p, Typed(s, l, p), NEW known \in BOOLEAN,
         OnePlace(known, s.store.queue, s.store.transactions, s.backoff)
  PROVE  LET r == Drain(s)
         IN OnePlace(known, r.store.queue, r.store.transactions, r.backoff) /\ r.mgr = s.mgr
<1> DEFINE r == Drain(s)
<1>1. s \in States /\ s.store.queue \in Seq(Ops) /\ s.store.transactions \in Seq(Transactions)
  BY TypedParts
<1>2. /\ Alike(s, r)
      /\ \/ r = s
         \/ \E n \in 1..Len(s.store.queue) : Moves(s, r, n)
  BY <1>1, DrainIs
<1> HIDE DEF r
<1>3. CASE r = s
  BY <1>3 DEF r
<1>4. CASE \E n \in 1..Len(s.store.queue) : Moves(s, r, n)
  <2>1. PICK n \in 1..Len(s.store.queue) : Moves(s, r, n)
    BY <1>4
  <2>2. n = 1 \/ \A i \in 1..n : s.store.queue[i].kind = "append"
    BY <2>1 DEF Moves
  <2>3. OnePlace(known, SubSeq(s.store.queue, n + 1, Len(s.store.queue)),
                 Append(s.store.transactions, SubSeq(s.store.queue, 1, n)), s.backoff)
    BY <1>1, <2>2, OneDrained
  <2> QED BY <1>2, <2>1, <2>3 DEF Moves, Alike, r
<1> QED BY <1>2, <1>3, <1>4

\* The first microtask of a drain.
LEMMA BeginDrainInv ==
  ASSUME IInv, BeginDrain
  PROVE  IInv'
<1> DEFINE r == Drain(Here)
<1>1. Become(r) /\ UNCHANGED <<phase, log, past>>
  BY DEF BeginDrain
<1>2. Good(Here, log, past)
  BY HereGood
<1>3. Sound(r, log, past)
  BY <1>2, DrainSound DEF Good, Sound
<1>4. Busy(r)
  <2>1. /\ Typed(Here, log, past) /\ Here.mgr.hydration \in BOOLEAN /\ Awaited(Here)
        /\ OnePlace(Here.mgr.hydration, Here.store.queue, Here.store.transactions, Here.backoff)
    BY <1>2, TypedParts DEF Good, Busy
  <2>2. /\ OnePlace(Here.mgr.hydration, r.store.queue, r.store.transactions, r.backoff)
        /\ r.mgr = Here.mgr
    BY <2>1, DrainPlace
  <2> QED BY <2>1, <2>2 DEF Busy, Awaited
<1> HIDE DEF r
<1> QED BY <1>1, <1>3, <1>4, StepKeeps DEF IInv, Good, Sound

----------------------------------------------------------------------------
(* The oldest transaction ends.                                            *)

\* What the store may hold.
Histories(p) ==
  {d \in [Topics -> Seq(Nat)] :
     \A t \in Topics : /\ d[t] \in Seq(Of(log, t)) /\ d[t] \in Seq(Stored(p))
                       /\ Len(d[t]) <= MaxPerTopic}

\* A list of two sets is one of their intersection.
LEMMA ListOfBoth ==
  ASSUME NEW S, NEW R, NEW messages \in Seq(S), messages \in Seq(R)
  PROVE  messages \in Seq(S \cap R)
<1>1. \A i \in 1..Len(messages) : messages[i] \in S \cap R
  OBVIOUS
<1> QED BY <1>1, ListOf

\* An operation leaves such histories.
LEMMA AppliedKeeps ==
  ASSUME NEW p, Now \in Nat, NEW d \in Histories(p), NEW op \in Meant(log), op \in Sent(p)
  PROVE  AppliedTo(d, op) \in Histories(p)
<1>1. ASSUME NEW t \in Topics
      PROVE  /\ Applied(t, d[t], op) \in Seq(Of(log, t)) /\ Applied(t, d[t], op) \in Seq(Stored(p))
             /\ Len(Applied(t, d[t], op)) <= MaxPerTopic
  <2> DEFINE S == Of(log, t) \cap Stored(p)
  <2>1. d[t] \in Seq(S) /\ Len(d[t]) <= MaxPerTopic
    BY ListOfBoth DEF Histories
  <2>2. op.messages \in Seq(All(log) \cap Stored(p))
    BY ListOfBoth DEF Meant, Sent
  <2>3. OnTopics({t}, op.messages) \in Seq(S)
    <3> DEFINE those == {m \in 1..Now : log[m] \in {t}}
    <3>1. Kept(op.messages, those) \in Seq(All(log) \cap Stored(p) \cap those)
      BY <2>2, KeptType
    <3>2. All(log) \cap Stored(p) \cap those \subseteq S
      BY DEF Of, All
    <3> HIDE DEF those, S
    <3>3. Kept(op.messages, those) \in Seq(S)
      BY <3>1, <3>2, SeqMonotonic
    <3> QED BY <3>3 DEF OnTopics, those
  <2>4. Applied(t, d[t], op) \in Seq(S) /\ Len(Applied(t, d[t], op)) <= MaxPerTopic
    <3> DEFINE a == d[t]
               b == OnTopics({t}, op.messages)
               c == a \o b
               k == Kept(a, op.before..Now)
    <3>1. a \in Seq(S) /\ b \in Seq(S) /\ Len(a) <= MaxPerTopic
      BY <2>1, <2>3
    <3> HIDE DEF S
    <3>2. Applied(t, a, op) =
            IF op.kind = "append" THEN Pruned(c) ELSE IF t \in op.topics THEN k ELSE a
      BY DEF Applied
    <3> HIDE DEF a, b
    <3>3. c \in Seq(S)
      BY <3>1
    <3> HIDE DEF c
    <3>4. /\ Pruned(c) \in Seq(S)
          /\ Len(Pruned(c)) = IF Len(c) > MaxPerTopic THEN MaxPerTopic ELSE Len(c)
      BY <3>3, PrunedType
    <3>5. k \in Seq(S \cap (op.before..Now)) /\ Len(k) <= Len(a)
      BY <3>1, KeptType
    <3>6. S \cap (op.before..Now) \subseteq S
      OBVIOUS
    <3> HIDE DEF k
    <3>7. k \in Seq(S)
      BY <3>5, <3>6, SeqMonotonic
    <3>8. Len(a) \in Nat /\ Len(c) \in Nat /\ Len(k) \in Nat /\ MaxPerTopic \in Nat
      BY <3>1, <3>3, <3>7, ReplayAssumption
    <3>9. CASE op.kind = "append"
      <4>1. Applied(t, a, op) = Pruned(c)
        BY <3>2, <3>9
      <4>2. Len(Pruned(c)) <= MaxPerTopic
        BY <3>4, <3>8
      <4> QED BY <3>4, <4>1, <4>2 DEF a
    <3>10. CASE op.kind # "append" /\ t \in op.topics
      <4>1. Applied(t, a, op) = k
        BY <3>2, <3>10
      <4>2. Len(k) <= MaxPerTopic
        BY <3>1, <3>5, <3>8
      <4> QED BY <3>7, <4>1, <4>2 DEF a
    <3>11. CASE op.kind # "append" /\ t \notin op.topics
      BY <3>1, <3>2, <3>11 DEF a
    <3> QED BY <3>9, <3>10, <3>11
  <2>5. S \subseteq Of(log, t) /\ S \subseteq Stored(p)
    OBVIOUS
  <2> HIDE DEF S
  <2> QED BY <2>4, <2>5, SeqMonotonic
<1>2. \A t \in Topics : Of(log, t) \subseteq Nat
  BY DEF Of, All, Now
<1>3. \A t \in Topics : Applied(t, d[t], op) \in Seq(Nat)
  BY <1>1, <1>2, SeqMonotonic
<1>4. /\ AppliedTo(d, op) \in [Topics -> Seq(Nat)]
      /\ \A t \in Topics : AppliedTo(d, op)[t] = Applied(t, d[t], op)
  BY <1>3 DEF AppliedTo
<1> QED BY <1>1, <1>4 DEF Histories

\* A clear leaves nothing of what it removes.
LEMMA AppliedClears ==
  ASSUME NEW p, NEW d \in Histories(p), NEW op \in Meant(log), op.kind = "clear", NEW t \in Topics
  PROVE  AppliedTo(d, op)[t] \in Seq(Nat \ op.doomed)
<1>1. d[t] \in Seq(Of(log, t)) /\ \A m \in Of(log, t) : m \in Nat /\ log[m] = t
  BY DEF Histories, Of, All
<1>2. op.before \in Int /\ \A m \in op.doomed : log[m] \in op.topics /\ m < op.before
  BY DEF Meant, Ops
<1>3. AppliedTo(d, op)[t] = IF t \in op.topics THEN Kept(d[t], op.before..Now) ELSE d[t]
  BY DEF AppliedTo, Applied
<1>4. CASE t \in op.topics
  <2>1. Kept(d[t], op.before..Now) \in Seq(Of(log, t) \cap (op.before..Now))
    BY <1>1, KeptType
  <2>2. ASSUME NEW m \in Of(log, t) \cap (op.before..Now)
        PROVE  m \in Nat \ op.doomed
    <3>1. m \in Nat /\ m >= op.before /\ m \in Int
      BY <1>1
    <3>2. ~(m < op.before)
      BY <1>2, <3>1
    <3> QED BY <1>2, <3>1, <3>2
  <2>3. Of(log, t) \cap (op.before..Now) \subseteq Nat \ op.doomed
    BY <2>2
  <2> QED BY <1>3, <1>4, <2>1, <2>3, SeqMonotonic
<1>5. CASE t \notin op.topics
  <2>1. Of(log, t) \subseteq Nat \ op.doomed
    BY <1>1, <1>2, <1>5
  <2> QED BY <1>1, <1>3, <1>5, <2>1, SeqMonotonic
<1> QED BY <1>4, <1>5

\* The fields of the state.
Oldest(s) == Head(s.store.transactions)
DataAfter(s, ok) == IF ok THEN Committed(s.store.data, Oldest(s)) ELSE s.store.data
Ended(s, ok) ==
  [s EXCEPT !.store.transactions = Tail(@),
            !.store.data = IF ok THEN Committed(@, Oldest(s)) ELSE @]
\* The transaction is gone, and the data are what it left.
LEMMA EndedIs ==
  ASSUME NEW s \in States, s.store.transactions # <<>>, NEW ok \in BOOLEAN,
         DataAfter(s, ok) \in [Topics -> Seq(Nat)]
  PROVE  LET r == Ended(s, ok)
         IN /\ r \in States /\ r.mgr = s.mgr /\ r.backoff = s.backoff
            /\ r.store.queue = s.store.queue
            /\ r.store.transactions = Tail(s.store.transactions)
            /\ r.store.data = DataAfter(s, ok)
<1> DEFINE x == Tail(s.store.transactions)
           d == DataAfter(s, ok)
           r == [s EXCEPT !.store.transactions = x, !.store.data = d]
<1>1. x \in Seq(Transactions)
  <2>1. s.store.transactions \in Seq(Transactions)
    BY DEF States, Stores
  <2> QED BY <2>1
<1>2. d \in [Topics -> Seq(Nat)]
  OBVIOUS
<1>3. Ended(s, ok) = r
  BY DEF Ended, DataAfter, States, Stores
<1> HIDE DEF x, d
<1>4. /\ r \in States /\ r.mgr = s.mgr /\ r.backoff = s.backoff
      /\ r.store.queue = s.store.queue
      /\ r.store.transactions = x /\ r.store.data = d
  BY <1>1, <1>2 DEF States, Stores
<1> QED BY <1>3, <1>4 DEF x, d

\* What the store confirmed as gone.
Lost(ops, ok) == IF ok /\ ops[1].live THEN ops[1].doomed ELSE {}
PastGone(p, lost) == [p EXCEPT !.gone = @ \cup lost]
\* More is gone.
LEMMA PastGoneIs ==
  ASSUME NEW p \in Pasts, NEW lost \in SUBSET Nat
  PROVE  LET f == PastGone(p, lost)
         IN /\ f \in Pasts /\ f.kept = p.kept /\ f.cleared = p.cleared
            /\ f.gone = p.gone \cup lost /\ f.retried = p.retried
BY DEF PastGone, Pasts

\* What is behind a clear keeps to the order.
LEMMA SentOn ==
  ASSUME NEW p \in Pasts, NEW lost \in SUBSET p.cleared,
         NEW o \in Sent(p), o \in Meant(log), NEW op,
         \/ lost = {}
         \/ op.kind = "clear" /\ op.live /\ lost = op.doomed /\ Apart(op, o, p)
  PROVE  o \in Sent(PastGone(p, lost))
<1> DEFINE f == PastGone(p, lost)
<1>1. /\ f.cleared = p.cleared /\ f.gone = p.gone \cup lost /\ f.retried = p.retried
  BY PastGoneIs DEF Pasts
<1> HIDE DEF f
<1>2. o.messages \in Seq(Stored(p)) /\ o \in OfSession(p) /\ OfSession(f) = OfSession(p)
  BY <1>1 DEF Sent, OfSession
<1>3. Stored(p) \cap (p.retried \cup (Nat \ lost)) \subseteq Stored(f)
  BY <1>1 DEF Stored
<1>4. o.messages \in Seq(p.retried \cup (Nat \ lost)) \/ o.messages = <<>>
  <2>1. CASE lost = {}
    <3>1. Stored(p) \subseteq p.retried \cup (Nat \ lost)
      BY <2>1 DEF Stored
    <3> QED BY <1>2, <3>1, SeqMonotonic
  <2>2. CASE lost # {}
    BY <2>2 DEF Apart, Meant
  <2> QED BY <2>1, <2>2
<1>5. o.messages \in Seq(Stored(f))
  <2>1. CASE o.messages = <<>>
    BY <2>1, EmptySeq
  <2>2. CASE o.messages \in Seq(p.retried \cup (Nat \ lost))
    <3>1. o.messages \in Seq(Stored(p) \cap (p.retried \cup (Nat \ lost)))
      BY <1>2, <2>2, ListOfBoth
    <3> QED BY <1>3, <3>1, SeqMonotonic
  <2> QED BY <1>4, <2>1, <2>2
<1> QED BY <1>2, <1>5 DEF Sent, f

\* The oldest transaction, and what a clear in it removes.
LEMMA OldestIs ==
  ASSUME NEW s, NEW p, Sound(s, log, p), s.store.transactions # <<>>
  PROVE  LET ops == Oldest(s)
         IN /\ s.store.transactions[1] = ops /\ 1 \in 1..Len(s.store.transactions)
            /\ ops \in Fitting(log) /\ ops \in Seq(Meant(log)) /\ ops \in Seq(Sent(p))
            /\ 1 \in 1..Len(ops) /\ Len(ops) \in Nat
            /\ ops[1] \in Meant(log) /\ ops[1] \in Sent(p)
            /\ ops[1].kind # "append" => Len(ops) = 1
<1> DEFINE x == s.store.transactions
           ops == Oldest(s)
           G == Meant(log)
           H == Sent(p)
           F == Fitting(log)
<1>1. x \in Seq(F) /\ x \in Seq(Seq(H))
  BY DEF Sound, Typed, Cleared
<1>2. ops = x[1] /\ 1 \in 1..Len(x)
  BY <1>1 DEF Oldest
<1> HIDE DEF F, H, x, ops
<1>3. ops \in F /\ ops \in Seq(H)
  BY <1>1, <1>2
<1> HIDE DEF G
<1>4. ops \in Seq(G) /\ (ops[1].kind # "append" => Len(ops) = 1) /\ Len(ops) >= 1
  <2>1. /\ ops \in Seq(G)
        /\ \/ Len(ops) = 1
           \/ Len(ops) > 1 /\ \A k \in 1..Len(ops) : ops[k].kind = "append"
    BY <1>3 DEF F, Fitting, G
  <2>2. CASE Len(ops) = 1
    BY <2>1, <2>2
  <2>3. CASE Len(ops) > 1 /\ \A k \in 1..Len(ops) : ops[k].kind = "append"
    <3>1. Len(ops) \in Nat /\ 1 \in 1..Len(ops)
      BY <2>1, <2>3
    <3> QED BY <2>1, <2>3, <3>1
  <2> QED BY <2>1, <2>2, <2>3
<1>5. 1 \in 1..Len(ops) /\ Len(ops) \in Nat /\ ops[1] \in G /\ ops[1] \in H
  BY <1>3, <1>4
<1> QED BY <1>2, <1>3, <1>4, <1>5 DEF F, G, H, x, ops

\* What is lost was cleared in this session.
LEMMA LostIs ==
  ASSUME NEW p, NEW op \in Meant(log), op \in Sent(p), NEW ops, ops[1] = op, NEW ok \in BOOLEAN
  PROVE  /\ Lost(ops, ok) \subseteq p.cleared
         /\ Lost(ops, ok) # {} => ok /\ op.kind = "clear" /\ op.live /\ Lost(ops, ok) = op.doomed
<1>1. op.kind = "clear" /\ op.live => op.doomed \subseteq p.cleared
  BY DEF Sent, OfSession
<1>2. op.kind # "clear" => op.doomed = {}
  BY DEF Meant
<1> QED BY <1>1, <1>2 DEF Lost

\* The histories the store is left with.
LEMMA DataKeeps ==
  ASSUME NEW s, NEW p, Sound(s, log, p), s.store.transactions # <<>>, NEW ok \in BOOLEAN
  PROVE  /\ DataAfter(s, ok) \in Histories(p)
         /\ \A t \in Topics : DataAfter(s, ok)[t] \in Seq(Nat \ Lost(Oldest(s), ok))
<1> DEFINE ops == Oldest(s)
           op == ops[1]
           d == s.store.data
           lost == Lost(ops, ok)
<1>1. /\ ops \in Seq(Meant(log)) /\ ops \in Seq(Sent(p)) /\ 1 \in 1..Len(ops) /\ Len(ops) \in Nat
      /\ op \in Meant(log) /\ op \in Sent(p) /\ op.kind # "append" => Len(ops) = 1
  BY OldestIs
<1>2. /\ Now \in Nat /\ d \in [Topics -> Seq(Nat)]
  BY TypedParts DEF Sound, Now
<1>3. d \in Histories(p)
  BY <1>2 DEF Sound, Typed, OnTopic, Cleared, Histories
<1>4. ok => DataAfter(s, ok) = Committed(d, ops)
  BY DEF DataAfter
<1>5. ~ok => DataAfter(s, ok) = d
  BY DEF DataAfter
<1>6. lost # {} => ok /\ op.kind = "clear" /\ lost = op.doomed
  BY <1>1, LostIs
<1> HIDE DEF ops, d, lost
<1>7. Committed(d, ops) \in Histories(p)
  <2> DEFINE D == Histories(p)
  <2>1. \A e \in D, i \in 1..Len(ops) : AppliedTo(e, ops[i]) \in D
    BY <1>1, <1>2, AppliedKeeps
  <2> HIDE DEF D
  <2>2. Committed(d, ops) \in D
    BY <1>1, <1>3, <2>1, CommitKeeps DEF D
  <2> QED BY <2>2 DEF D
<1>8. ASSUME NEW t \in Topics
      PROVE  DataAfter(s, ok)[t] \in Seq(Nat \ lost)
  <2>1. CASE lost = {}
    <3>1. DataAfter(s, ok)[t] \in Seq(Nat)
      BY <1>3, <1>4, <1>5, <1>7 DEF Histories
    <3>2. Nat \ lost = Nat
      BY <2>1
    <3> QED BY <3>1, <3>2
  <2>2. CASE lost # {}
    <3>1. Len(ops) = 1 /\ DataAfter(s, ok) = Committed(d, ops) /\ op.kind = "clear"
      BY <1>1, <1>4, <1>6, <2>2
    <3>2. Committed(d, ops) = AppliedTo(d, op)
      BY <3>1, CommitOne
    <3>3. AppliedTo(d, op)[t] \in Seq(Nat \ op.doomed)
      BY <1>1, <1>3, <3>1, AppliedClears
    <3> QED BY <1>6, <2>2, <3>1, <3>2, <3>3
  <2> QED BY <2>1, <2>2
<1> QED BY <1>3, <1>4, <1>5, <1>7, <1>8 DEF ops, lost

\* The end of a transaction, but for what its callers do.
LEMMA EndedSound ==
  ASSUME NEW s, NEW p, Sound(s, log, p), s.store.transactions # <<>>, NEW ok \in BOOLEAN
  PROVE  Sound(Ended(s, ok), log, PastGone(p, Lost(Oldest(s), ok)))
<1> DEFINE r == Ended(s, ok)
           ops == Oldest(s)
           op == ops[1]
           lost == Lost(ops, ok)
           f == PastGone(p, lost)
           x == s.store.transactions
           y == Tail(x)
<1>1. /\ x[1] = ops /\ 1 \in 1..Len(x)
      /\ op \in Meant(log) /\ op \in Sent(p)
  BY OldestIs
<1>2. /\ DataAfter(s, ok) \in Histories(p)
      /\ \A t \in Topics : DataAfter(s, ok)[t] \in Seq(Nat \ lost)
  BY DataKeeps
<1>3. lost \subseteq p.cleared
      /\ (lost # {} => ok /\ op.kind = "clear" /\ op.live /\ lost = op.doomed)
  BY <1>1, LostIs
<1>4. /\ Typed(s, log, p) /\ Cleared(s, log, p) /\ Tailed(s, p) /\ p \in Pasts
      /\ s \in States /\ s.store.queue \in Seq(Ops) /\ x \in Seq(Transactions)
  BY TypedParts DEF Sound
<1> HIDE DEF lost, op
<1>5. /\ f \in Pasts /\ f.kept = p.kept /\ f.cleared = p.cleared
      /\ f.gone = p.gone \cup lost /\ f.retried = p.retried
  BY <1>3, <1>4, PastGoneIs DEF Pasts
<1>6. /\ r \in States /\ r.mgr = s.mgr /\ r.backoff = s.backoff
      /\ r.store.queue = s.store.queue /\ r.store.transactions = y
      /\ r.store.data = DataAfter(s, ok)
  <2>1. DataAfter(s, ok) \in [Topics -> Seq(Nat)]
    BY <1>2 DEF Histories
  <2> QED BY <1>4, <2>1, EndedIs
<1> HIDE DEF f, r
<1>7. /\ Len(y) = Len(x) - 1 /\ Len(x) \in Nat
      /\ \A j \in 1..Len(y) : y[j] = x[j + 1] /\ j + 1 \in 1..Len(x) /\ 1 < j + 1
  BY <1>4
<1> HIDE DEF x, y
<1>8. Typed(r, log, f)
  <2>1. Logged(log, p) /\ OnTopic(s, log)
    BY <1>4 DEF Typed
  <2>2. p.cleared \subseteq All(log)
    BY <2>1 DEF Logged
  <2>3. Logged(log, f)
    BY <1>3, <1>5, <2>1, <2>2 DEF Logged
  <2>4. OnTopic(r, log)
    BY <1>2, <1>6, <2>1 DEF OnTopic, Histories
  <2>5. y \in Seq(Fitting(log))
    <3> DEFINE F == Fitting(log)
    <3>1. x \in Seq(F) /\ x # <<>>
      BY <1>4 DEF Typed, x
    <3> HIDE DEF F
    <3>2. Tail(x) \in Seq(F)
      BY <3>1
    <3> QED BY <3>2 DEF y, F
  <2> QED BY <1>4, <1>6, <2>3, <2>4, <2>5 DEF Typed
<1>9. Cleared(r, log, f)
  <2>1. Stored(p) \cap (Nat \ lost) \subseteq Stored(f) /\ Shown(p) \subseteq Shown(f)
        /\ Waiting(p) \subseteq Waiting(f) /\ OfSession(p) = OfSession(f)
    BY <1>3, <1>5 DEF Stored, Shown, Waiting, OfSession
  <2>2. ASSUME NEW t \in Topics
        PROVE  r.mgr.ring[t] \in Seq(Shown(f)) /\ r.store.data[t] \in Seq(Stored(f))
    <3>1. s.mgr.ring[t] \in Seq(Shown(f))
      BY <1>4, <2>1, SeqMonotonic DEF Cleared
    <3>2. DataAfter(s, ok)[t] \in Seq(Stored(p) \cap (Nat \ lost))
      BY <1>2, ListOfBoth DEF Histories
    <3>3. DataAfter(s, ok)[t] \in Seq(Stored(f))
      BY <2>1, <3>2, SeqMonotonic
    <3> QED BY <1>6, <3>1, <3>3
  <2>3. r.mgr.pending \in Seq(Waiting(f))
    BY <1>4, <1>6, <2>1, SeqMonotonic DEF Cleared
  <2>4. Remembered(r, log, f)
    BY <1>4, <1>5, <1>6 DEF Cleared, Remembered
  <2>5. InOrder(s.store.queue, x, p)
    BY <1>4 DEF Cleared, x
  <2>6. InOrder(s.store.queue, y, f)
    <3>1. InOrder(s.store.queue, y, p)
      BY <1>4, <2>5, OrderEnded DEF x, y
    <3> QED BY <1>4, <1>5, <3>1, OrderPast
  <2>7. ASSUME NEW o \in Sent(p), o \in Meant(log), Apart(op, o, p)
        PROVE  o \in Sent(f)
    <3>1. \/ lost = {}
          \/ op.kind = "clear" /\ op.live /\ lost = op.doomed /\ Apart(op, o, p)
      BY <1>3, <2>7
    <3> QED BY <1>3, <1>4, <2>7, <3>1, SentOn DEF f
  <2>8. s.store.queue \in Seq(Sent(f))
    <3> DEFINE q == s.store.queue
               G == Sent(f)
               H == Sent(p)
               M == Meant(log)
    <3>1. q \in Seq(H) /\ q \in Seq(M)
      BY <1>4 DEF Cleared, Typed
    <3>2. \A i \in 1..Len(q) : Apart(op, q[i], p)
      BY <1>1, <2>5 DEF InOrder, op
    <3> HIDE DEF q, G, H, M
    <3>3. ASSUME NEW i \in 1..Len(q)
          PROVE  q[i] \in G
      <4>1. q[i] \in H /\ q[i] \in M
        BY <3>1
      <4> QED BY <2>7, <3>2, <4>1 DEF G, H, M
    <3>4. q \in Seq(G)
      BY <3>1, <3>3, ListOf
    <3> QED BY <3>4 DEF q, G
  <2>9. y \in Seq(Seq(Sent(f)))
    <3> DEFINE G == Sent(f)
               H == Sent(p)
               M == Meant(log)
    <3>1. x \in Seq(Seq(H)) /\ x \in Seq(Seq(M))
      <4>1. Fitting(log) \subseteq Seq(M)
        BY DEF Fitting
      <4>2. x \in Seq(Fitting(log)) /\ x \in Seq(Seq(H))
        BY <1>4 DEF Cleared, Typed, x
      <4> QED BY <4>1, <4>2, SeqMonotonic
    <3>2. y \in Seq(Seq(H))
      <4>1. x # <<>>
        BY <1>4 DEF x
      <4> HIDE DEF H
      <4> QED BY <3>1, <4>1 DEF y
    <3>3. ASSUME NEW j \in 1..Len(y)
          PROVE  y[j] \in Seq(G)
      <4>1. y[j] = x[j + 1] /\ j + 1 \in 1..Len(x) /\ 1 < j + 1
        BY <1>7
      <4>2. \A k \in 1..Len(y[j]) : Apart(op, y[j][k], p)
        BY <1>1, <2>5, <4>1 DEF InOrder, op
      <4> DEFINE z == y[j]
      <4>3. z \in Seq(H) /\ z \in Seq(M)
        BY <3>1, <4>1
      <4> HIDE DEF z, G, H, M
      <4>4. ASSUME NEW k \in 1..Len(z)
            PROVE  z[k] \in G
        <5>1. z[k] \in H /\ z[k] \in M
          BY <4>3
        <5> QED BY <2>7, <4>2, <5>1 DEF G, H, M, z
      <4>5. z \in Seq(G)
        BY <4>3, <4>4, ListOf
      <4> QED BY <4>5 DEF z
    <3> HIDE DEF G
    <3>4. y \in Seq(Seq(G))
      BY <3>2, <3>3, ListOf
    <3> QED BY <3>4 DEF G
  <2> QED BY <1>4, <1>6, <2>1, <2>2, <2>3, <2>4, <2>6, <2>8, <2>9 DEF Cleared
<1>10. Tailed(r, f)
  BY <1>4, <1>5, <1>6 DEF Tailed
<1> QED BY <1>8, <1>9, <1>10 DEF Sound, r, f, lost

\* A load brings in what is left of the history.
LEMMA HydratedKeeps ==
  ASSUME NEW s, NEW p, Sound(s, log, p), Awaited(s),
         OnePlace(FALSE, s.store.queue, s.store.transactions, s.backoff)
  PROVE  Good(Hydrated(s), log, p)
<1> DEFINE r == Hydrated(s)
<1>1. /\ Typed(s, log, p) /\ Cleared(s, log, p) /\ Tailed(s, p)
      /\ s \in States /\ s.mgr.clearBefore \in Nat /\ Now \in Nat /\ p \in Pasts
  BY TypedParts DEF Sound, Now
<1>2. \A t \in Topics : Of(log, t) \subseteq Nat /\ Of(log, t) \subseteq 1..Now
  BY <1>1 DEF Of, All, Now
<1>3. ASSUME NEW t \in Topics
      PROVE  Loaded(s, t) \in Seq(Of(log, t) \cap Shown(p))
  <2> DEFINE S == Of(log, t) \cap Stored(p)
             those == s.mgr.clearBefore..Now
  <2>1. CASE t \in s.mgr.clearedTopics
    BY <2>1, EmptySeq DEF Loaded
  <2>2. CASE t \notin s.mgr.clearedTopics
    <3>1. s.store.data[t] \in Seq(S)
      BY <1>1, ListOfBoth DEF Typed, OnTopic, Cleared
    <3>2. Kept(s.store.data[t], those) \in Seq(S \cap those)
      BY <3>1, KeptType
    <3>3. ASSUME NEW m \in S \cap those
          PROVE  m \in Of(log, t) \cap Shown(p)
      <4>1. m \in Nat /\ log[m] = t /\ m >= s.mgr.clearBefore
        BY <1>1, <1>2 DEF Of
      <4>2. m \notin p.cleared
        BY <1>1, <2>2, <4>1 DEF Cleared, Remembered
      <4> QED BY <4>2 DEF Shown
    <3>4. S \cap those \subseteq Of(log, t) \cap Shown(p)
      BY <3>3
    <3>5. Loaded(s, t) = Kept(s.store.data[t], those)
      BY <2>2 DEF Loaded
    <3> HIDE DEF S, those
    <3> QED BY <3>2, <3>4, <3>5, SeqMonotonic
  <2> QED BY <2>1, <2>2
<1>4. ASSUME NEW t \in Topics
      PROVE  /\ NewRing(s)[t] \in Seq(Of(log, t)) /\ NewRing(s)[t] \in Seq(Shown(p))
             /\ NewRing(s)[t] \in Seq(Nat)
             /\ Len(NewRing(s)[t]) <= MaxPerTopic
             /\ \A a \in Seq(Nat) : Ends(a, s.mgr.ring[t]) /\ Len(a) <= MaxPerTopic
                                      => Ends(a, NewRing(s)[t])
  <2> DEFINE S == Of(log, t) \cap Shown(p)
             b == s.mgr.ring[t]
             c == Loaded(s, t)
  <2>1. b \in Seq(S) /\ c \in Seq(S)
    BY <1>1, <1>3, ListOfBoth DEF Typed, OnTopic, Cleared
  <2>2. NewRing(s)[t] = Pruned(c \o b)
    BY DEF NewRing, Merged
  <2>3. S \subseteq Of(log, t) /\ S \subseteq Shown(p) /\ S \subseteq Nat
    BY <1>2
  <2> HIDE DEF S, b, c
  <2>4. c \o b \in Seq(S)
    BY <2>1
  <2>5. b \in Seq(Nat) /\ c \in Seq(Nat)
    BY <2>1, <2>3, SeqMonotonic
  <2>6. \A a \in Seq(Nat) : Ends(a, b) /\ Len(a) <= MaxPerTopic => Ends(a, Pruned(c \o b))
    BY <2>5, EndsMerged
  <2> DEFINE n == c \o b
  <2>7. /\ Pruned(n) \in Seq(S)
        /\ Len(Pruned(n)) = IF Len(n) > MaxPerTopic THEN MaxPerTopic ELSE Len(n)
    BY <2>4, PrunedType
  <2>8. Len(n) \in Nat /\ MaxPerTopic \in Nat
    BY <2>4, ReplayAssumption
  <2> HIDE DEF n
  <2>9. Len(Pruned(n)) <= MaxPerTopic
    BY <2>7, <2>8
  <2>10. /\ Pruned(n) \in Seq(Of(log, t)) /\ Pruned(n) \in Seq(Shown(p))
         /\ Pruned(n) \in Seq(Nat)
    BY <2>3, <2>7, SeqMonotonic
  <2> QED BY <2>2, <2>6, <2>9, <2>10 DEF n, b
<1>5. NewRing(s) \in [Topics -> Seq(Nat)]
  <2>1. \A t \in Topics : NewRing(s)[t] \in Seq(Nat)
    BY <1>4
  <2> QED BY <2>1 DEF NewRing
<1>6. /\ r \in States /\ Same(s, r)
      /\ r.mgr.ring = NewRing(s) /\ r.mgr.hydration = FALSE
      /\ r.mgr.pending = s.mgr.pending /\ r.store.data = s.store.data
      /\ r.mgr.clearedTopics = s.mgr.clearedTopics
      /\ r.mgr.clearBefore = s.mgr.clearBefore
      /\ Awaited(s) => Awaited(r)
  BY <1>1, <1>5, HydratedIs
<1> HIDE DEF r
<1>7. Typed(r, log, p)
  BY <1>1, <1>4, <1>6 DEF Typed, OnTopic, Same
<1>8. Busy(r)
  BY <1>6 DEF Busy, Same
<1>9. Cleared(r, log, p)
  BY <1>1, <1>4, <1>6 DEF Cleared, Remembered, Same
<1>10. Tailed(r, p)
  <2>1. ASSUME NEW t \in Topics
        PROVE  Ascending(p.kept[t]) /\ Ends(Pruned(p.kept[t]), NewRing(s)[t])
    <3> DEFINE a == Pruned(p.kept[t])
    <3>1. Ascending(p.kept[t]) /\ Ends(a, s.mgr.ring[t]) /\ p.kept[t] \in Seq(Nat)
      BY <1>1 DEF Tailed, Pasts
    <3>2. /\ a \in Seq(Nat)
          /\ Len(a) = IF Len(p.kept[t]) > MaxPerTopic THEN MaxPerTopic ELSE Len(p.kept[t])
      BY <3>1, PrunedType
    <3>3. Len(p.kept[t]) \in Nat /\ MaxPerTopic \in Nat
      BY <3>1, ReplayAssumption
    <3> HIDE DEF a
    <3>4. Len(a) <= MaxPerTopic
      BY <3>2, <3>3
    <3>5. Ends(a, NewRing(s)[t])
      BY <1>4, <3>1, <3>2, <3>4
    <3> QED BY <3>1, <3>5 DEF a
  <2> QED BY <1>6, <2>1 DEF Tailed
<1> QED BY <1>7, <1>8, <1>9, <1>10 DEF Good, r

\* Operations that failed wait for another attempt.
Waits(s, ops) == [s EXCEPT !.backoff = @ \cup TriedAgain(ToSet(ops))]
\* Each is what it was, with one more attempt.
LEMMA TriedAgainIs ==
  ASSUME NEW p, NEW ops, ops \in Seq(Meant(log)), ops \in Seq(Sent(p)),
         NEW op \in TriedAgain(ToSet(ops))
  PROVE  /\ op \in Meant(log) /\ op \in OfSession(p) /\ op.live
         /\ \E k \in 1..Len(ops) : /\ op = [ops[k] EXCEPT !.attempt = @ + 1]
                                   /\ op.kind = ops[k].kind /\ Hydrating(op) = Hydrating(ops[k])
                                   /\ ops[k].live /\ ops[k].attempt < MaxAttempts
<1>1. PICK k \in 1..Len(ops) : /\ op = [ops[k] EXCEPT !.attempt = @ + 1]
                               /\ ops[k].live /\ ops[k].attempt < MaxAttempts
  BY DEF TriedAgain, ToSet
<1> DEFINE o == ops[k]
<1>2. o \in Meant(log) /\ o \in Sent(p) /\ o \in Ops
  BY DEF Meant
<1>3. op = [o EXCEPT !.attempt = o.attempt + 1] /\ o.live /\ o.attempt < MaxAttempts
  BY <1>1
<1> HIDE DEF o
<1>4. /\ op \in Ops /\ op.kind = o.kind /\ op.live = o.live /\ op.messages = o.messages
      /\ op.topics = o.topics /\ op.before = o.before /\ op.doomed = o.doomed
  <2>1. o.attempt \in Nat /\ o.attempt + 1 \in 1..MaxAttempts
    BY <1>2, <1>3, ReplayAssumption DEF Ops
  <2> QED BY <1>2, <1>3, <2>1 DEF Ops
<1>5. op \in Meant(log) /\ op \in OfSession(p) /\ op.live
  BY <1>2, <1>3, <1>4 DEF Meant, Sent, OfSession
<1>6. op.kind = o.kind /\ Hydrating(op) = Hydrating(o)
  BY <1>4 DEF Hydrating
<1> QED BY <1>1, <1>5, <1>6 DEF o

\* What is between the end of a transaction and what its caller does: a
\* hydration of it has no place.
Settling(s, p, op) ==
  /\ Sound(s, log, p) /\ Awaited(s) /\ s.mgr.hydration \in BOOLEAN
  /\ Hydrating(op) => /\ s.mgr.hydration = TRUE
                      /\ OnePlace(FALSE, s.store.queue, s.store.transactions, s.backoff)
  /\ ~Hydrating(op) =>
       OnePlace(s.mgr.hydration, s.store.queue, s.store.transactions, s.backoff)

\* What failed waits, and a hydration has its place there.
LEMMA WaitsKeeps ==
  ASSUME NEW s, NEW p, NEW ops, ops \in Fitting(log), ops \in Seq(Sent(p)), Len(ops) \in Nat,
         1 \in 1..Len(ops), ops[1].kind # "append" => Len(ops) = 1,
         Settling(s, p, ops[1]), ops[1].kind # "cleanup",
         Hydrating(ops[1]) => ops[1].attempt # MaxAttempts
  PROVE  Good(Waits(s, ops), log, p)
<1> DEFINE r == Waits(s, ops)
           again == TriedAgain(ToSet(ops))
           op == ops[1]
<1>1. /\ Typed(s, log, p) /\ Cleared(s, log, p) /\ Tailed(s, p)
      /\ s \in States /\ s.backoff \subseteq Ops
  BY TypedParts DEF Settling, Sound
<1>2. ops \in Seq(Meant(log)) /\ \A k \in 1..Len(ops) : ops[k].kind = op.kind
  <2>1. /\ ops \in Seq(Meant(log))
        /\ Len(ops) = 1 \/ \A k \in 1..Len(ops) : ops[k].kind = "append"
    BY DEF Fitting
  <2>2. CASE Len(ops) = 1
    <3>1. \A k \in 1..Len(ops) : k = 1
      BY <2>2
    <3> QED BY <2>1, <3>1
  <2>3. CASE \A k \in 1..Len(ops) : ops[k].kind = "append"
    BY <2>1, <2>3
  <2> QED BY <2>1, <2>2, <2>3
<1>3. \A o \in again : /\ o \in Meant(log) /\ o \in OfSession(p) /\ o.live
                       /\ \E k \in 1..Len(ops) :
                            /\ o = [ops[k] EXCEPT !.attempt = @ + 1]
                            /\ o.kind = ops[k].kind /\ Hydrating(o) = Hydrating(ops[k])
                            /\ ops[k].live /\ ops[k].attempt < MaxAttempts
  BY <1>2, TriedAgainIs
<1>4. again \subseteq Again(log) /\ again \subseteq OfSession(p) /\ again \subseteq Ops
  BY <1>2, <1>3 DEF Again, Meant
<1> HIDE DEF again
<1>5. /\ r \in States /\ r.mgr = s.mgr /\ r.store = s.store /\ r.backoff = s.backoff \cup again
  <2>1. r = [s EXCEPT !.backoff = s.backoff \cup again]
    BY DEF Waits, again
  <2> HIDE DEF r
  <2> QED BY <1>1, <1>4, <2>1 DEF States
<1> HIDE DEF r
<1>6. Typed(r, log, p)
  BY <1>1, <1>4, <1>5 DEF Typed, OnTopic
<1>7. Cleared(r, log, p)
  BY <1>1, <1>4, <1>5 DEF Cleared, Remembered
<1>8. Tailed(r, p)
  BY <1>1, <1>5 DEF Tailed
<1>9. Busy(r)
  <2>1. Awaited(r)
    BY <1>5 DEF Settling, Awaited
  <2>2. CASE Hydrating(op)
    <3> DEFINE o == [op EXCEPT !.attempt = @ + 1]
    <3>1. Len(ops) = 1 /\ op.live /\ op.kind \in {"prepare", "load"} /\ op \in Meant(log)
      BY <1>2, <2>2 DEF Hydrating
    <3>2. op.attempt \in 1..MaxAttempts /\ op.attempt < MaxAttempts
      BY <2>2, <3>1, ReplayAssumption DEF Meant, Ops
    <3>3. again = {o}
      <4>1. ToSet(ops) = {op}
        BY <3>1 DEF ToSet
      <4>2. {q \in {op} : q.live /\ q.attempt < MaxAttempts} = {op}
        BY <3>1, <3>2
      <4> QED BY <4>1, <4>2 DEF again, TriedAgain
    <3>4. Hydrating(o)
      BY <1>3, <2>2, <3>1, <3>3
    <3> HIDE DEF o
    <3>5. /\ s.mgr.hydration = TRUE
          /\ OnePlace(FALSE, s.store.queue, s.store.transactions, s.backoff)
      BY <2>2 DEF Settling
    <3>6. Delayed(s.backoff) = {}
      BY <3>5 DEF OnePlace
    <3>7. Delayed(r.backoff) = {o} /\ o \in r.backoff
      BY <1>5, <3>3, <3>4, <3>6 DEF Delayed
    <3>8. OnePlace(TRUE, s.store.queue, s.store.transactions, r.backoff)
      BY <3>5, <3>7 DEF OnePlace
    <3> QED BY <1>5, <2>1, <3>5, <3>8 DEF Busy
  <2>3. CASE ~Hydrating(op)
    <3>1. \A o \in again : ~Hydrating(o)
      <4>1. ASSUME NEW o \in again, Hydrating(o)
            PROVE  FALSE
        <5>1. PICK k \in 1..Len(ops) : Hydrating(o) = Hydrating(ops[k])
          BY <1>3
        <5>2. Hydrating(ops[k])
          BY <4>1, <5>1
        <5>3. ops[k].kind = op.kind /\ op.kind # "append"
          BY <1>2, <5>2 DEF Hydrating
        <5>4. Len(ops) = 1
          BY <5>3
        <5>5. k = 1
          BY <5>4
        <5> QED BY <2>3, <5>2, <5>5
      <4> QED BY <4>1
    <3>2. Delayed(r.backoff) = Delayed(s.backoff)
      BY <1>5, <3>1 DEF Delayed
    <3>3. OnePlace(s.mgr.hydration, s.store.queue, s.store.transactions, s.backoff)
      BY <2>3 DEF Settling
    <3>4. OnePlace(s.mgr.hydration, s.store.queue, s.store.transactions, r.backoff)
      <4>1. \A o \in s.backoff : o \in r.backoff
        BY <1>5
      <4> QED BY <3>2, <3>3, <4>1 DEF OnePlace
    <3> QED BY <1>5, <2>1, <3>4 DEF Busy
  <2> QED BY <2>2, <2>3
<1> QED BY <1>6, <1>7, <1>8, <1>9 DEF Good, r

\* Without a hydration, the settling state is one of the invariant.
LEMMA SettledIs ==
  ASSUME NEW s, NEW p, NEW op, Settling(s, p, op), ~Hydrating(op)
  PROVE  Good(s, log, p)
BY DEF Settling, Sound, Good, Busy

\* The end of a cleanup.
LEMMA CleanedKeeps ==
  ASSUME NEW s, NEW p, NEW op, Settling(s, p, op), op.kind = "cleanup"
  PROVE  Good(Cleaned(s, op), log, p)
<1>1. Good(s, log, p) /\ s \in States
  BY SettledIs, TypedParts DEF Hydrating, Good
<1> QED BY <1>1, CleanedIs, IdleKeeps, SweepKeeps

\* The operations succeeded.
LEMMA SucceededKeeps ==
  ASSUME NEW s, NEW p, NEW ops, Settling(s, p, ops[1])
  PROVE  Good(Succeeded(s, ops), log, p)
<1> DEFINE op == ops[1]
<1>1. CASE op.kind = "cleanup"
  BY <1>1, CleanedKeeps DEF Succeeded
<1>2. CASE op.kind = "prepare" /\ op.live
  <2> DEFINE r == Load(s, Loading)
  <2>1. Succeeded(s, ops) = r
    BY <1>2 DEF Succeeded
  <2>2. /\ Sound(s, log, p) /\ Awaited(s) /\ s.mgr.hydration = TRUE
        /\ OnePlace(FALSE, s.store.queue, s.store.transactions, s.backoff)
    BY <1>2 DEF Settling, Hydrating
  <2>3. s \in States /\ s.store.queue \in Seq(Ops) /\ s.store.transactions \in Seq(Transactions)
    BY <2>2, TypedParts DEF Sound
  <2>4. Own(Loading) /\ Hydrating(Loading) /\ Loading \in Ops
    BY LoadingIs DEF OpIs, Own, Hydrating
  <2>5. Alike(s, r) /\ Loads(s, r, Loading)
    BY <2>3, <2>4, LoadIs DEF Alike, Loads
  <2> HIDE DEF r
  <2>6. Quiet(s, r)
    BY <2>5 DEF Alike, Quiet
  <2>7. Sound(r, log, p)
    BY <2>2, <2>4, <2>5, <2>6, OwnKeeps
  <2>8. OnePlace(TRUE, s.store.queue, Append(s.store.transactions, <<Loading>>), s.backoff)
    BY <2>2, <2>3, <2>4, OneNew
  <2>9. Busy(r)
    BY <2>2, <2>5, <2>8 DEF Busy, Awaited, Alike, Loads
  <2> QED BY <2>1, <2>7, <2>9 DEF Good, Sound
<1>3. CASE op.kind = "load" /\ op.live
  BY <1>3, HydratedKeeps DEF Succeeded, Settling, Hydrating
<1>4. CASE ~(op.kind = "cleanup") /\ ~(op.kind = "prepare" /\ op.live)
           /\ ~(op.kind = "load" /\ op.live)
  <2>1. Succeeded(s, ops) = s
    BY <1>4 DEF Succeeded
  <2>2. ~Hydrating(op)
    BY <1>4 DEF Hydrating
  <2> QED BY <2>1, <2>2, SettledIs
<1> QED BY <1>1, <1>2, <1>3, <1>4

\* They failed.
LEMMA FailedKeeps ==
  ASSUME NEW s, NEW p, NEW ops, ops \in Fitting(log), ops \in Seq(Sent(p)), Len(ops) \in Nat,
         1 \in 1..Len(ops), ops[1].kind # "append" => Len(ops) = 1, Settling(s, p, ops[1])
  PROVE  Good(Failed(s, ops), log, p)
<1> DEFINE op == ops[1]
<1>1. CASE op.kind = "cleanup"
  BY <1>1, CleanedKeeps DEF Failed
<1>2. CASE op.kind \in {"prepare", "load"} /\ op.live /\ op.attempt = MaxAttempts
  <2> DEFINE r == HydrationFailed(s)
  <2>1. Failed(s, ops) = r
    BY <1>2 DEF Failed
  <2>2. /\ Sound(s, log, p) /\ Awaited(s)
        /\ OnePlace(FALSE, s.store.queue, s.store.transactions, s.backoff)
    BY <1>2 DEF Settling, Hydrating
  <2>3. s \in States
    BY <2>2, TypedParts DEF Sound
  <2>4. /\ Quiet(s, r) /\ Same(s, r) /\ r.mgr.hydration = FALSE /\ Awaited(r)
    BY <2>2, <2>3, FailedIs
  <2> HIDE DEF r
  <2>5. Typed(r, log, p) /\ Cleared(r, log, p) /\ Tailed(r, p)
    BY <2>2, <2>4 DEF Sound, Typed, OnTopic, Cleared, Remembered, Tailed, Quiet, Same
  <2>6. Busy(r)
    BY <2>2, <2>4 DEF Busy, Same
  <2> QED BY <2>1, <2>5, <2>6 DEF Good
<1>3. CASE ~(op.kind = "cleanup")
           /\ ~(op.kind \in {"prepare", "load"} /\ op.live /\ op.attempt = MaxAttempts)
  <2>1. Failed(s, ops) = Waits(s, ops)
    BY <1>3 DEF Failed, Waits
  <2>2. Hydrating(op) => op.attempt # MaxAttempts
    BY <1>3 DEF Hydrating
  <2>3. Good(Waits(s, ops), log, p)
    BY <1>3, <2>2, WaitsKeeps
  <2> QED BY <2>1, <2>3
<1> QED BY <1>1, <1>2, <1>3

\* The oldest transaction completes or aborts, and the next one is created.
DrainedOf(s, op) == IF op.kind = "load" THEN s ELSE Drain(s)
\* The end of a transaction comes to such a state.
LEMMA EndedSettles ==
  ASSUME NEW s, NEW p, Good(s, log, p), s.store.transactions # <<>>, NEW ok \in BOOLEAN
  PROVE  Settling(DrainedOf(Ended(s, ok), Oldest(s)[1]), PastGone(p, Lost(Oldest(s), ok)),
                  Oldest(s)[1])
<1> DEFINE ops == Oldest(s)
           op == ops[1]
           f == PastGone(p, Lost(ops, ok))
           e == Ended(s, ok)
           d == DrainedOf(e, op)
<1>1. Sound(s, log, p) /\ Busy(s)
  BY DEF Good, Sound
<1>2. Sound(e, log, f)
  BY <1>1, EndedSound
<1>3. Sound(d, log, f)
  <2>1. Sound(Drain(e), log, f)
    BY <1>2, DrainSound
  <2> HIDE DEF e, f
  <2> QED BY <1>2, <2>1 DEF DrainedOf
<1>4. s \in States /\ s.store.transactions \in Seq(Transactions) /\ s.mgr.hydration \in BOOLEAN
  BY <1>1, TypedParts DEF Sound
<1>5. e.mgr = s.mgr /\ e.backoff = s.backoff /\ e.store.queue = s.store.queue
      /\ e.store.transactions = Tail(s.store.transactions)
  <2>1. DataAfter(s, ok) \in [Topics -> Seq(Nat)]
    BY <1>1, DataKeeps DEF Histories
  <2> QED BY <1>4, <2>1, EndedIs
<1>6. op = Head(s.store.transactions)[1]
  BY DEF Oldest
<1> HIDE DEF e, f, op
<1>7. IF Hydrating(op)
      THEN /\ s.mgr.hydration
           /\ OnePlace(FALSE, e.store.queue, e.store.transactions, e.backoff)
      ELSE OnePlace(s.mgr.hydration, e.store.queue, e.store.transactions, e.backoff)
  <2>1. OnePlace(s.mgr.hydration, s.store.queue, s.store.transactions, s.backoff)
    BY <1>1 DEF Busy
  <2>2. IF Hydrating(Head(s.store.transactions)[1])
        THEN /\ s.mgr.hydration
             /\ OnePlace(FALSE, s.store.queue, Tail(s.store.transactions), s.backoff)
        ELSE OnePlace(s.mgr.hydration, s.store.queue, Tail(s.store.transactions), s.backoff)
    BY <1>4, <2>1, OneEnded
  <2> QED BY <1>5, <1>6, <2>2
<1>8. ASSUME NEW known \in BOOLEAN,
             OnePlace(known, e.store.queue, e.store.transactions, e.backoff)
      PROVE  OnePlace(known, d.store.queue, d.store.transactions, d.backoff)
  <2>1. Typed(e, log, f)
    BY <1>2 DEF Sound
  <2>2. CASE op.kind = "load"
    BY <1>8, <2>2 DEF DrainedOf
  <2>3. CASE op.kind # "load"
    BY <1>8, <2>1, <2>3, DrainPlace DEF DrainedOf
  <2> QED BY <2>2, <2>3
<1>9. d.mgr = s.mgr
  <2>1. e \in States
    BY <1>2, TypedParts DEF Sound
  <2>2. Drain(e).mgr = e.mgr
    BY <2>1, DrainIs DEF Alike
  <2> QED BY <1>5, <2>2 DEF DrainedOf
<1>10. Awaited(d)
  BY <1>1, <1>9 DEF Busy, Awaited
<1> HIDE DEF d
<1>11. CASE Hydrating(op)
  BY <1>3, <1>4, <1>7, <1>8, <1>9, <1>10, <1>11 DEF Settling, d, e, f, op
<1>12. CASE ~Hydrating(op)
  BY <1>3, <1>4, <1>7, <1>8, <1>9, <1>10, <1>12 DEF Settling, d, e, f, op
<1> QED BY <1>11, <1>12

\* The end of a transaction keeps the invariant, in each of its ways.
LEMMA EndTransactionInv ==
  ASSUME IInv, NEW ok \in BOOLEAN, EndTransaction(ok)
  PROVE  IInv'
<1> DEFINE ops == Oldest(Here)
           f == PastGone(past, Lost(ops, ok))
           d == DrainedOf(Ended(Here, ok), ops[1])
<1>1. /\ store.transactions # <<>> /\ phase' = phase /\ log' = log /\ past' = f
      /\ Become(IF ok THEN Succeeded(d, ops) ELSE Failed(d, ops))
  <2>1. ops = Head(store.transactions) /\ Here.store = store
    BY DEF Oldest, Here
  <2> QED BY <2>1, Zenon DEF EndTransaction, DrainedOf, Ended, Oldest, PastGone, Lost
<1>2. Good(Here, log, past) /\ Here.store = store
  BY HereGood
<1>3. Settling(d, f, ops[1])
  BY <1>1, <1>2, EndedSettles
<1>4. /\ ops \in Fitting(log) /\ ops \in Seq(Sent(past)) /\ 1 \in 1..Len(ops) /\ Len(ops) \in Nat
      /\ ops[1].kind # "append" => Len(ops) = 1
  BY <1>1, <1>2, OldestIs DEF Good, Sound
<1>5. ~ok => ops \in Seq(Sent(f))
  <2>1. ASSUME ~ok
        PROVE  Sent(f) = Sent(past)
    <3>1. past \in Pasts /\ {} \in SUBSET Nat
      BY <1>2, TypedParts DEF Good
    <3>2. f = PastGone(past, {})
      BY <2>1 DEF Lost
    <3> HIDE DEF f
    <3>3. /\ f.cleared = past.cleared /\ f.gone = past.gone \cup {}
          /\ f.retried = past.retried
      BY <3>1, <3>2, PastGoneIs
    <3> QED BY <3>3 DEF Sent, OfSession, Stored
  <2> QED BY <1>4, <2>1
<1> HIDE DEF d, f, ops
<1>6. CASE ok
  <2>1. Good(Succeeded(d, ops), log, f)
    BY <1>3, SucceededKeeps
  <2> QED BY <1>1, <1>6, <2>1, StepKeeps DEF IInv
<1>7. CASE ~ok
  <2>1. Good(Failed(d, ops), log, f)
    BY <1>3, <1>4, <1>5, <1>7, FailedKeeps
  <2> QED BY <1>1, <1>7, <2>1, StepKeeps DEF IInv
<1> QED BY <1>6, <1>7

----------------------------------------------------------------------------
(* Another attempt.                                                        *)

Resumed(s, op) == [s EXCEPT !.backoff = @ \ {op}]
PastRetried(p, op) == [p EXCEPT !.retried = @ \cup ToSet(op.messages)]

\* The operation waits no longer, and its messages may come back.
LEMMA ResumedSound ==
  ASSUME NEW s, NEW p, Sound(s, log, p), NEW op \in s.backoff
  PROVE  /\ Sound(Resumed(s, op), log, PastRetried(p, op))
         /\ PastRetried(p, op).retried = p.retried \cup ToSet(op.messages)
         /\ PastRetried(p, op).cleared = p.cleared
<1> DEFINE r == Resumed(s, op)
           f == PastRetried(p, op)
           more == p.retried \cup ToSet(op.messages)
<1>1. /\ Typed(s, log, p) /\ Cleared(s, log, p) /\ Tailed(s, p) /\ p \in Pasts
      /\ s \in States /\ s.backoff \subseteq Ops
  BY TypedParts DEF Sound
<1>2. ToSet(op.messages) \subseteq Nat
  <2> DEFINE q == op.messages
             S == 1..MaxMessages
  <2>1. q \in Seq(S) /\ S \subseteq Nat
    BY <1>1 DEF Ops
  <2> HIDE DEF q, S
  <2>2. ASSUME NEW i \in DOMAIN q
        PROVE  q[i] \in Nat
    <3>1. DOMAIN q = 1..Len(q)
      BY <2>1
    <3>2. q[i] \in S
      BY <2>1, <3>1
    <3> QED BY <2>1, <3>2
  <2>3. ToSet(q) \subseteq Nat
    BY <2>2 DEF ToSet
  <2> QED BY <2>3 DEF q
<1>3. /\ r \in States /\ r.mgr = s.mgr /\ r.store = s.store /\ r.backoff = s.backoff \ {op}
  <2>1. s.backoff \ {op} \in SUBSET Ops
    BY <1>1
  <2> QED BY <1>1, <2>1 DEF Resumed, States
<1>4. /\ f \in Pasts /\ f.kept = p.kept /\ f.cleared = p.cleared /\ f.gone = p.gone
      /\ f.retried = more
  BY <1>1, <1>2 DEF PastRetried, Pasts
<1> HIDE DEF r, f
<1>5. Typed(r, log, f)
  <2>1. Logged(log, f)
    BY <1>1, <1>4 DEF Typed, Logged
  <2> QED BY <1>1, <1>3, <2>1 DEF Typed, OnTopic
<1>6. Cleared(r, log, f)
  <2>1. Stored(p) \subseteq Stored(f) /\ Shown(p) \subseteq Shown(f)
        /\ Waiting(p) = Waiting(f) /\ OfSession(p) = OfSession(f)
    BY <1>4 DEF Stored, Shown, Waiting, OfSession
  <2>2. Sent(p) \subseteq Sent(f)
    <3>1. \A messages \in Seq(Stored(p)) : messages \in Seq(Stored(f))
      BY <2>1, SeqMonotonic
    <3> QED BY <2>1, <3>1 DEF Sent
  <2>3. \A t \in Topics : /\ r.mgr.ring[t] \in Seq(Shown(f))
                          /\ r.store.data[t] \in Seq(Stored(f))
    BY <1>1, <1>3, <2>1, SeqMonotonic DEF Cleared
  <2>4. r.mgr.pending \in Seq(Waiting(f)) /\ Remembered(r, log, f)
    BY <1>1, <1>3, <1>4, <2>1 DEF Cleared, Remembered
  <2>5. InOrder(r.store.queue, r.store.transactions, f)
    <3>1. InOrder(s.store.queue, s.store.transactions, p) /\ p.retried \subseteq f.retried
      BY <1>1, <1>4 DEF Cleared
    <3> QED BY <1>1, <1>3, <1>4, <3>1, OrderPast
  <2>6. r.store.queue \in Seq(Sent(f))
    BY <1>1, <1>3, <2>2, SeqMonotonic DEF Cleared
  <2>7. r.store.transactions \in Seq(Seq(Sent(f)))
    <3>1. Seq(Sent(p)) \subseteq Seq(Sent(f))
      BY <2>2, SeqMonotonic
    <3> QED BY <1>1, <1>3, <3>1, SeqMonotonic DEF Cleared
  <2> QED BY <1>1, <1>3, <2>1, <2>3, <2>4, <2>5, <2>6, <2>7 DEF Cleared
<1>7. Tailed(r, f)
  BY <1>1, <1>3, <1>4 DEF Tailed
<1> QED BY <1>4, <1>5, <1>6, <1>7 DEF Sound, r, f

\* A hydration goes on where it waited.
LEMMA ResumedPlace ==
  ASSUME NEW s, NEW p, Good(s, log, p), NEW op \in s.backoff
  PROVE  LET r == Resumed(s, op)
         IN /\ r.mgr = s.mgr /\ r.store = s.store
            /\ IF Hydrating(op)
               THEN /\ s.mgr.hydration = TRUE
                    /\ OnePlace(FALSE, r.store.queue, r.store.transactions, r.backoff)
               ELSE OnePlace(s.mgr.hydration, r.store.queue, r.store.transactions, r.backoff)
<1> DEFINE r == Resumed(s, op)
           b == s.backoff \ {op}
<1>1. /\ s \in States /\ s.mgr.hydration \in BOOLEAN
      /\ OnePlace(s.mgr.hydration, s.store.queue, s.store.transactions, s.backoff)
  BY TypedParts DEF Good, Busy
<1>2. r.mgr = s.mgr /\ r.store = s.store /\ r.backoff = b
  BY <1>1 DEF Resumed, States
<1> HIDE DEF r
<1>3. CASE Hydrating(op)
  <2>1. op \in Delayed(s.backoff)
    BY <1>3 DEF Delayed
  <2>2. /\ s.mgr.hydration = TRUE /\ Queued(s.store.queue) = {} /\ Begun(s.store.transactions) = {}
        /\ Delayed(s.backoff) = {op}
    BY <1>1, <2>1 DEF OnePlace
  <2>3. Delayed(b) = {}
    BY <2>2 DEF Delayed
  <2> QED BY <1>2, <1>3, <2>2, <2>3 DEF OnePlace, r
<1>4. CASE ~Hydrating(op)
  <2>1. Delayed(b) = Delayed(s.backoff) /\ \A o \in Delayed(b) : o \in b
    BY <1>4 DEF Delayed
  <2>2. OnePlace(s.mgr.hydration, s.store.queue, s.store.transactions, b)
    <3>1. CASE s.mgr.hydration
      <4>1. \A o : Delayed(s.backoff) = {o} => o \in b
        BY <2>1
      <4> QED BY <1>1, <2>1, <3>1, <4>1 DEF OnePlace
    <3>2. CASE ~s.mgr.hydration
      BY <1>1, <2>1, <3>2 DEF OnePlace
    <3> QED BY <3>1, <3>2
  <2> QED BY <1>2, <1>4, <2>2 DEF r
<1> QED BY <1>3, <1>4

\* The delay of withPersistenceRetry is over.
LEMMA RetryOwn ==
  ASSUME NEW s, NEW p, Good(s, log, p), NEW op \in s.backoff, Hydrating(op), NEW o, Own(o),
         Hydrating(o), NEW r, r \in States, r.mgr = s.mgr, r.store.data = s.store.data,
         Queues(Resumed(s, op), r, o) \/ Loads(Resumed(s, op), r, o)
  PROVE  Good(r, log, PastRetried(p, op))
<1> DEFINE z == Resumed(s, op)
           f == PastRetried(p, op)
<1>1. Sound(z, log, f)
  BY ResumedSound DEF Good, Sound
<1>2. /\ z.mgr = s.mgr /\ z.store = s.store /\ s.mgr.hydration = TRUE
      /\ OnePlace(FALSE, z.store.queue, z.store.transactions, z.backoff)
  BY ResumedPlace
<1> HIDE DEF z, f
<1>3. z.store.queue \in Seq(Ops) /\ z.store.transactions \in Seq(Transactions)
  BY <1>1, TypedParts DEF Sound
<1>4. Quiet(z, r)
  BY <1>2 DEF Quiet
<1>5. Sound(r, log, f)
  BY <1>1, <1>4, OwnKeeps DEF z
<1>6. /\ OnePlace(TRUE, Append(z.store.queue, o), z.store.transactions, z.backoff)
      /\ OnePlace(TRUE, z.store.queue, Append(z.store.transactions, <<o>>), z.backoff)
  BY <1>2, <1>3, OneNew
<1>7. OnePlace(TRUE, r.store.queue, r.store.transactions, r.backoff)
  <2>1. CASE Queues(z, r, o)
    BY <1>6, <2>1 DEF Queues
  <2>2. CASE Loads(z, r, o)
    BY <1>6, <2>2 DEF Loads
  <2> QED BY <2>1, <2>2 DEF z
<1>8. Busy(r)
  BY <1>2, <1>7 DEF Busy, Awaited, Good
<1> QED BY <1>5, <1>8 DEF Good, Sound, f

\* A batch or a clear joins the queue again.
LEMMA RetryBatch ==
  ASSUME NEW s, NEW p, Good(s, log, p), NEW op \in s.backoff, ~Hydrating(op)
  PROVE  Good(Enqueue(Resumed(s, op), op), log, PastRetried(p, op))
<1> DEFINE z == Resumed(s, op)
           f == PastRetried(p, op)
<1>1. /\ Sound(z, log, f)
      /\ f.retried = p.retried \cup ToSet(op.messages) /\ f.cleared = p.cleared
  BY ResumedSound DEF Good, Sound
<1>2. /\ z.mgr = s.mgr
      /\ OnePlace(s.mgr.hydration, z.store.queue, z.store.transactions, z.backoff)
  BY ResumedPlace
<1> HIDE DEF z, f
<1>3. op \in Meant(log) /\ op \in OfSession(p) /\ op \in Ops
  BY DEF Good, Typed, Cleared, Again, Meant
<1>4. op.messages \in Seq(Nat) /\ op.messages \in Seq(f.retried)
  <2> DEFINE q == op.messages
  <2>1. q \in Seq(1..MaxMessages)
    BY <1>3 DEF Ops
  <2>2. f.retried = p.retried \cup ToSet(q)
    BY <1>1
  <2> HIDE DEF q
  <2>3. \A i \in 1..Len(q) : q[i] \in f.retried
    BY <2>1, <2>2 DEF ToSet
  <2>4. q \in Seq(f.retried)
    BY <2>1, <2>3, ListOf
  <2>5. 1..MaxMessages \subseteq Nat
    OBVIOUS
  <2>6. q \in Seq(Nat)
    BY <2>1, <2>5, SeqMonotonic
  <2> QED BY <2>4, <2>6 DEF q
<1>5. op.messages \in Seq(Nat \cap f.retried)
  BY <1>4, ListOfBoth
<1>6. op \in Sent(f)
  <2>1. Nat \cap f.retried \subseteq Stored(f)
    BY DEF Stored
  <2>2. op.messages \in Seq(Stored(f))
    BY <1>5, <2>1, SeqMonotonic
  <2> QED BY <1>1, <1>3, <2>2 DEF Sent, OfSession
<1>7. ASSUME NEW o
      PROVE  Apart(o, op, f)
  <2>1. f.retried \subseteq f.retried \cup (Nat \ o.doomed)
    OBVIOUS
  <2>2. op.messages \in Seq(f.retried \cup (Nat \ o.doomed))
    BY <1>4, <2>1, SeqMonotonic
  <2> QED BY <2>2 DEF Apart
<1>8. Sound(Enqueue(z, op), log, f)
  BY <1>1, <1>3, <1>6, <1>7, EnqueueSound
<1>9. Busy(z)
  BY <1>2 DEF Busy, Awaited, Good
<1>10. Busy(Enqueue(z, op))
  BY <1>1, <1>3, <1>9, EnqueueBusy DEF Sound
<1> QED BY <1>8, <1>10 DEF Good, Sound, z, f

\* Another attempt keeps the invariant.
LEMMA RetryInv ==
  ASSUME IInv, NEW op \in backoff, Retry(op)
  PROVE  IInv'
<1> DEFINE s == Resumed(Here, op)
           o == [op EXCEPT !.before = Later - mgr.retention]
           r == CASE op.kind = "load" -> Load(s, op)
                  [] op.kind = "prepare" -> Enqueue(s, o)
                  [] OTHER -> Enqueue(s, op)
           f == PastRetried(past, op)
<1>1. Become(r) /\ past' = f /\ log' = log /\ phase' = phase
  BY Zenon DEF Retry, Resumed, PastRetried
<1>2. /\ Good(Here, log, past) /\ Now \in Nat /\ Here.mgr = mgr /\ Here.backoff = backoff
      /\ Here \in States /\ Here.store = store /\ mgr.retention \in Nat
  BY HereGood, TypedParts DEF Good
<1>3. op \in Again(log) /\ op \in Meant(log) /\ op \in Ops /\ op.live
  BY <1>2 DEF Good, Typed, Again, Meant
<1>4. s \in States /\ s.mgr = mgr /\ s.store = store
  <2>1. backoff \ {op} \in SUBSET Ops
    BY <1>2 DEF States
  <2> QED BY <1>2, <2>1 DEF Resumed, States
<1> HIDE DEF s
<1>5. CASE op.kind = "load"
  <2>1. Own(op) /\ Hydrating(op)
    BY <1>3, <1>5 DEF Own, Hydrating, Meant
  <2> DEFINE q == Load(s, op)
  <2>2. Alike(s, q) /\ Loads(s, q, op)
    BY <1>3, <1>4, LoadIs DEF Alike, Loads
  <2>3. r = q
    BY <1>5
  <2> HIDE DEF q, r
  <2>4. q \in States /\ q.mgr = Here.mgr /\ q.store.data = Here.store.data
    BY <1>2, <1>4, <2>2 DEF Alike
  <2>5. Good(q, log, f)
    BY <1>2, <2>1, <2>2, <2>4, RetryOwn DEF s
  <2> QED BY <1>1, <2>3, <2>5, StepKeeps DEF IInv
<1>6. CASE op.kind = "prepare"
  <2>1. Own(o) /\ Hydrating(op) /\ Hydrating(o)
    <3> DEFINE c == Later - mgr.retention
    <3>1. c \in Int /\ op.messages = <<>> /\ op.doomed = {}
      BY <1>2, <1>3, <1>6 DEF Later, Meant
    <3> HIDE DEF c
    <3>2. o = [op EXCEPT !.before = c]
      BY DEF c
    <3> HIDE DEF o
    <3>3. /\ o \in Ops /\ o.kind = op.kind /\ o.live = op.live /\ o.messages = op.messages
          /\ o.doomed = op.doomed
      BY <1>3, <3>1, <3>2 DEF Ops
    <3> QED BY <1>3, <1>6, <3>1, <3>3 DEF Own, Hydrating
  <2> DEFINE q == Enqueue(s, o)
  <2>2. r = q
    BY <1>6
  <2> HIDE DEF o
  <2>3. Alike(s, q) /\ Queues(s, q, o)
    BY <1>4, <2>1, EnqueueIs DEF Alike, Queues, Own
  <2> HIDE DEF q, r
  <2>4. q \in States /\ q.mgr = Here.mgr /\ q.store.data = Here.store.data
    BY <1>2, <1>4, <2>3 DEF Alike
  <2>5. Good(q, log, f)
    BY <1>2, <2>1, <2>3, <2>4, RetryOwn DEF s
  <2> QED BY <1>1, <2>2, <2>5, StepKeeps DEF IInv
<1>7. CASE op.kind # "load" /\ op.kind # "prepare"
  <2> DEFINE q == Enqueue(s, op)
  <2>1. r = q
    BY <1>7
  <2> HIDE DEF q, r
  <2>2. Good(q, log, f)
    BY <1>2, <1>7, RetryBatch DEF Hydrating, q, s
  <2> QED BY <1>1, <2>1, <2>2, StepKeeps DEF IInv
<1> QED BY <1>5, <1>6, <1>7

----------------------------------------------------------------------------
(* The initial states.                                                     *)

\* The log has at most one message.
LEMMA InitLog ==
  ASSUME Init
  PROVE  log \in Seq(Topics) /\ Len(log) \in 0..1
<1>1. PICK n \in 0..1 : log \in [1..n -> Topics]
  BY DEF Init
<1>2. n \in Nat /\ DOMAIN log = 1..n /\ log \in Seq(Topics)
  <2>1. n \in Nat
    OBVIOUS
  <2> QED BY <1>1, <2>1, SeqDef
<1>3. Len(log) = n
  BY <1>1, <1>2
<1> QED BY <1>2, <1>3

\* A store that was used before.
LEMMA InitData ==
  ASSUME Init, NEW t \in Topics
  PROVE  LET d == OnTopics({t}, [i \in 1..Len(log) |-> i])
         IN d \in Seq(Of(log, t)) /\ Len(d) <= MaxPerTopic
<1> DEFINE all == [i \in 1..Len(log) |-> i]
           those == {m \in 1..Now : log[m] \in {t}}
           d == Kept(all, those)
<1>1. Len(log) \in Nat /\ Len(log) <= 1
  <2>1. Len(log) \in 0..1
    BY InitLog
  <2>2. \A n \in 0..1 : n \in Nat /\ n <= 1
    OBVIOUS
  <2> QED BY <2>1, <2>2
<1>2. all \in Seq(All(log)) /\ Len(all) = Len(log)
  BY <1>1 DEF All
<1> HIDE DEF all
<1>3. d \in Seq(All(log) \cap those) /\ Len(d) <= Len(all)
  BY <1>2, KeptType
<1>4. All(log) \cap those \subseteq Of(log, t)
  BY DEF Of, All
<1> HIDE DEF those, d
<1>5. d \in Seq(Of(log, t))
  BY <1>3, <1>4, SeqMonotonic
<1>6. Len(d) \in Nat /\ MaxPerTopic \in Nat \ {0}
  BY <1>5, ReplayAssumption
<1>7. Len(d) <= MaxPerTopic
  BY <1>1, <1>2, <1>3, <1>6
<1> QED BY <1>5, <1>7 DEF d, those, all, OnTopics

\* The state before the constructor asks for a hydration.
Untouched ==
  [mgr |-> [mgr EXCEPT !.hydration = FALSE],
   store |-> [data |-> store.data, queue |-> <<>>, transactions |-> <<>>],
   backoff |-> {}]

\* The fields of an initial state.
LEMMA InitFields ==
  ASSUME Init
  PROVE  /\ mgr \in Managers /\ mgr.hydration = TRUE /\ mgr.cutoff = None
         /\ mgr.ring = NoMessages /\ mgr.pending = <<>> /\ mgr.retention \in Nat
         /\ store.data \in [Topics -> Seq(Nat)]
         /\ \A t \in Topics : /\ store.data[t] \in Seq(Of(log, t))
                              /\ Len(store.data[t]) <= MaxPerTopic
         /\ past \in Pasts /\ past.kept = NoMessages
         /\ past.cleared = {} /\ past.gone = {} /\ past.retried = {}
<1> DEFINE n == NoMessages
           e == <<>>
           d == [t \in Topics |-> OnTopics({t}, [i \in 1..Len(log) |-> i])]
<1>1. e \in Seq(Nat) /\ n \in [Topics -> Seq(Nat)]
  <2>1. <<>> \in Seq(Nat)
    BY EmptySeq
  <2> QED BY <2>1 DEF NoMessages
<1>2. /\ d \in [Topics -> Seq(Nat)]
      /\ \A t \in Topics : d[t] \in Seq(Of(log, t)) /\ Len(d[t]) <= MaxPerTopic
  <2> DEFINE h(t) == OnTopics({t}, [i \in 1..Len(log) |-> i])
  <2>1. \A t \in Topics : h(t) \in Seq(Of(log, t)) /\ Len(h(t)) <= MaxPerTopic
    BY InitData
  <2> HIDE DEF h
  <2>2. \A t \in Topics : Of(log, t) \subseteq Nat
    BY DEF Of, All
  <2>3. \A t \in Topics : h(t) \in Seq(Nat)
    BY <2>1, <2>2, SeqMonotonic
  <2>4. /\ [t \in Topics |-> h(t)] \in [Topics -> Seq(Nat)]
        /\ \A t \in Topics : [u \in Topics |-> h(u)][t] = h(t)
    BY <2>3
  <2>5. d = [t \in Topics |-> h(t)]
    BY DEF h
  <2> HIDE DEF d
  <2> QED BY <2>1, <2>4, <2>5
<1>3. PICK retention \in Retentions :
        mgr = [retention |-> retention, ring |-> n,
               pending |-> e, flushing |-> FALSE,
               hydration |-> TRUE, complete |-> FALSE, failed |-> FALSE,
               clearedTopics |-> {}, clearBefore |-> 0,
               cutoff |-> None, cleanup |-> FALSE, sweeping |-> FALSE]
  BY Zenon DEF Init
<1>4. store.data = d /\ past = [kept |-> n, cleared |-> {}, gone |-> {}, retried |-> {}]
  BY DEF Init
<1> HIDE DEF n, e, d
<1>5. retention \in Nat /\ None \in Int
  BY ReplayAssumption DEF None
<1>6. /\ mgr \in Managers /\ mgr.hydration = TRUE /\ mgr.cutoff = None
      /\ mgr.ring = n /\ mgr.pending = e /\ mgr.retention \in Nat
  BY <1>1, <1>3, <1>5 DEF Managers
<1>7. /\ past \in Pasts /\ past.kept = n
      /\ past.cleared = {} /\ past.gone = {} /\ past.retried = {}
  BY <1>1, <1>4 DEF Pasts
<1> QED BY <1>2, <1>4, <1>6, <1>7 DEF n, e

\* It is good.
LEMMA UntouchedGood ==
  ASSUME Init
  PROVE  /\ Good(Untouched, log, past)
         /\ Untouched.mgr.hydration = FALSE
<1> DEFINE s == Untouched
           e == <<>>
<1>1. /\ mgr \in Managers /\ mgr.cutoff = None
      /\ mgr.ring = NoMessages /\ mgr.pending = e
      /\ store.data \in [Topics -> Seq(Nat)]
      /\ \A t \in Topics : /\ store.data[t] \in Seq(Of(log, t))
                           /\ Len(store.data[t]) <= MaxPerTopic
      /\ past \in Pasts /\ past.kept = NoMessages
      /\ past.cleared = {} /\ past.gone = {} /\ past.retried = {}
  BY InitFields
<1>2. \A S : e \in Seq(S)
  BY EmptySeq
<1>3. Len(e) = 0 /\ MaxPerTopic \in Nat \ {0} /\ MaxMessages \in Nat \ {0}
  BY ReplayAssumption
<1>4. \A t \in Topics : NoMessages[t] = e
  BY DEF NoMessages
<1>5. Untouched =
        [mgr |-> [mgr EXCEPT !.hydration = FALSE],
         store |-> [data |-> store.data, queue |-> e, transactions |-> e],
         backoff |-> {}]
  BY DEF Untouched
<1> HIDE DEF e, s
<1>6. /\ s \in States /\ s.store.data = store.data
      /\ s.store.queue = e /\ s.store.transactions = e /\ s.backoff = {}
      /\ s.mgr.ring = NoMessages /\ s.mgr.pending = e /\ s.mgr.hydration = FALSE
      /\ s.mgr.cutoff = None
  <2> DEFINE m == [mgr EXCEPT !.hydration = FALSE]
             t == [data |-> store.data, queue |-> e, transactions |-> e]
  <2>1. /\ m \in Managers /\ m.ring = NoMessages /\ m.pending = e /\ m.hydration = FALSE
        /\ m.cutoff = None
    BY <1>1 DEF Managers
  <2>2. /\ t \in Stores /\ t.data = store.data /\ t.queue = e /\ t.transactions = e
    BY <1>1, <1>2 DEF Stores
  <2> HIDE DEF m, t
  <2>3. s = [mgr |-> m, store |-> t, backoff |-> {}]
    BY <1>5 DEF s, m, t
  <2> QED BY <2>1, <2>2, <2>3 DEF States
<1>7. Typed(s, log, past)
  <2>1. log \in Seq(Topics) /\ Len(log) <= MaxMessages
    <3>1. log \in Seq(Topics) /\ Len(log) \in 0..1
      BY InitLog
    <3> QED BY <1>3, <3>1
  <2>2. \A t \in Topics : past.kept[t] \in Seq(Of(log, t))
    BY <1>1, <1>2, <1>4
  <2>3. Logged(log, past)
    BY <1>1, <2>1, <2>2 DEF Logged
  <2>4. ASSUME NEW t \in Topics
        PROVE  s.mgr.ring[t] \in Seq(Of(log, t)) /\ Len(s.mgr.ring[t]) <= MaxPerTopic
    <3>1. s.mgr.ring[t] = e
      BY <1>4, <1>6
    <3> QED BY <1>2, <1>3, <3>1
  <2>5. OnTopic(s, log)
    BY <1>1, <1>2, <1>6, <2>4 DEF OnTopic
  <2> QED BY <1>2, <1>6, <2>3, <2>5 DEF Typed
<1>8. Busy(s)
  BY <1>3, <1>6 DEF Busy, Awaited, OnePlace, Queued, Begun, Delayed
<1>9. Cleared(s, log, past)
  <2>1. Stored(past) = Nat /\ Shown(past) = Nat
    BY <1>1 DEF Stored, Shown
  <2>2. \A t \in Topics : /\ s.mgr.ring[t] \in Seq(Shown(past))
                          /\ s.store.data[t] \in Seq(Stored(past))
    BY <1>1, <1>2, <1>4, <1>6, <2>1
  <2>3. InOrder(s.store.queue, s.store.transactions, past)
    BY <1>3, <1>6 DEF InOrder
  <2>4. Remembered(s, log, past)
    BY <1>1 DEF Remembered
  <2> QED BY <1>2, <1>6, <2>2, <2>3, <2>4 DEF Cleared
<1>10. Tailed(s, past)
  <2>1. Pruned(e) = e
    <3>1. e \in Seq(Nat) /\ Len(e) <= MaxPerTopic
      BY <1>2, <1>3
    <3> QED BY <3>1, PrunedShort
  <2>2. Ends(e, e) /\ Ascending(e)
    BY <1>3 DEF Ends, Ascending
  <2> QED BY <1>1, <1>4, <1>6, <2>1, <2>2 DEF Tailed
<1> QED BY <1>6, <1>7, <1>8, <1>9, <1>10 DEF Good, s

\* So is the initial state, with its hydration.
LEMMA InitInv == ASSUME Init PROVE IInv
<1> DEFINE s == Untouched
           e == <<>>
<1>1. Good(s, log, past) /\ ~s.mgr.hydration /\ s \in States
  BY UntouchedGood, TypedParts DEF Good
<1>2. /\ mgr \in Managers /\ mgr.hydration = TRUE /\ mgr.retention \in Nat
      /\ store.data \in [Topics -> Seq(Nat)]
  BY InitFields
<1>3. /\ s.mgr = [mgr EXCEPT !.hydration = FALSE] /\ s.store.data = store.data
      /\ s.store.queue = e /\ s.store.transactions = e /\ s.backoff = {}
  BY DEF Untouched
<1>4. Now \in Nat
  BY InitLog DEF Now
<1> DEFINE c == Cutting("prepare", Topics, Later - mgr.retention)
<1>5. Own(c) /\ c.kind = "prepare"
  <2>1. Later - mgr.retention \in Int
    BY <1>2, <1>4 DEF Later
  <2> QED BY <2>1, OwnCut
<1>6. Own(Loading) /\ Loading.kind = "load"
  BY LoadingIs DEF OpIs, Own
<1>7. /\ store.queue = IF mgr.retention = 0 THEN <<>> ELSE <<c>>
      /\ store.transactions = IF mgr.retention = 0 THEN <<<<Loading>>>> ELSE <<>>
      /\ store = [data |-> store.data, queue |-> store.queue, transactions |-> store.transactions]
      /\ backoff = {}
  BY DEF Init
<1> DEFINE h == Here
<1>8. h.mgr = mgr /\ h.store = store /\ h.backoff = backoff
  BY DEF Here
<1> HIDE DEF c, s, h, e
<1>9. \A op : Append(<<>>, op) = <<op>>
  OBVIOUS
<1>10. e = <<>>
  BY DEF e
<1>11. \/ Queues(s, h, c)
       \/ Loads(s, h, Loading)
  <2>1. CASE mgr.retention = 0
    <3>1. store.queue = <<>> /\ store.transactions = <<<<Loading>>>>
      BY <1>7, <2>1
    <3>2. store.transactions = Append(<<>>, <<Loading>>)
      BY <1>9, <3>1
    <3> QED BY <1>3, <1>7, <1>8, <1>10, <3>1, <3>2 DEF Loads
  <2>2. CASE mgr.retention # 0
    <3>1. store.queue = <<c>> /\ store.transactions = <<>>
      BY <1>7, <2>2
    <3>2. store.queue = Append(<<>>, c)
      BY <1>9, <3>1
    <3> QED BY <1>3, <1>7, <1>8, <1>10, <3>1, <3>2 DEF Queues
  <2> QED BY <2>1, <2>2
<1>12. store.queue \in Seq(Ops) /\ store.transactions \in Seq(Transactions)
  <2>1. c \in Ops /\ Loading \in Ops /\ <<Loading>> \in Transactions
    BY <1>5, <1>6 DEF Own, Transactions
  <2>2. <<>> \in Seq(Ops) /\ <<>> \in Seq(Transactions)
    BY EmptySeq
  <2>3. <<c>> \in Seq(Ops) /\ <<<<Loading>>>> \in Seq(Transactions)
    BY <2>1
  <2> QED BY <1>7, <2>2, <2>3
<1>13. h \in States
  <2>1. store \in Stores
    BY <1>2, <1>7, <1>12 DEF Stores
  <2>2. h = [mgr |-> mgr, store |-> store, backoff |-> {}]
    BY <1>7 DEF h, Here
  <2> QED BY <1>2, <2>1, <2>2 DEF States
<1>14. Quiet(s, h)
  BY <1>2, <1>3, <1>8, <1>13 DEF Quiet, Managers
<1>15. Awaited(s) => Awaited(h)
  BY <1>2, <1>3, <1>8 DEF Awaited, Managers
<1>16. Begins(s, h)
  <2>1. \E op : Own(op) /\ op.kind # "cleanup" /\ (Queues(s, h, op) \/ Loads(s, h, op))
    BY <1>5, <1>6, <1>11
  <2> QED BY <1>2, <1>8, <1>14, <1>15, <2>1 DEF Begins
<1>17. Good(h, log, past)
  BY <1>1, <1>16, BeginKeeps
<1> QED BY <1>17 DEF IInv, Init, h

----------------------------------------------------------------------------
(* The theorems.                                                           *)

\* Every step keeps the invariant.
LEMMA NextInv ==
  ASSUME IInv, [Next]_vars
  PROVE  IInv'
<1>1. CASE UNCHANGED vars
  BY <1>1 DEF vars, IInv, Here, Good, Typed, Busy, Cleared, Tailed, Logged, OnTopic, Meant,
              Fitting, Again, All, Of, Stored, Shown, Waiting, Awaited, Remembered
<1>2. CASE Flush
  BY <1>2, FlushInv
<1>3. CASE BeginDrain
  BY <1>3, BeginDrainInv
<1>4. CASE \E ok \in BOOLEAN : EndTransaction(ok)
  BY <1>4, EndTransactionInv
<1>5. CASE \E op \in backoff : Retry(op)
  BY <1>5, RetryInv
<1>6. CASE Sweep \/ Start \/ Stop \/ Hide \/ Show \/ Subscribe
  BY <1>6, SweepInv, StartInv, StopInv, HideInv, ShowInv, SubscribeInv
<1>7. ASSUME NEW t \in Topics, Record(t)
      PROVE  IInv'
  BY <1>7, RecordInv
<1>8. Forever \in Nat /\ Now \in Nat
  BY HereGood, ReplayAssumption DEF Forever
<1>9. ASSUME NEW t \in Topics, Clear({t}, Forever)
      PROVE  IInv'
  BY <1>8, <1>9, ClearInv
<1>10. ASSUME NEW before \in 2..Now \cup {Forever}, Clear(Topics, before)
       PROVE  IInv'
  <2>1. before \in Nat
    BY <1>8
  <2> QED BY <1>10, <2>1, ClearInv
<1> QED BY <1>1, <1>2, <1>3, <1>4, <1>5, <1>6, <1>7, <1>9, <1>10 DEF Next, System

\* What a replay history rests on holds for good: the fields agree, at most one
\* hydration is anywhere between the queue, the transactions and the timers, no
\* append is behind a clear of its messages, and the live tail is there.
THEOREM Invariance == Spec => []IInv
<1>1. Init => IInv
  BY InitInv
<1>2. IInv /\ [Next]_vars => IInv'
  BY NextInv
<1> QED BY <1>1, <1>2, PTL DEF Spec

\* The invariant has the types.
LEMMA IInvTypes == IInv => TypeOK
<1> SUFFICES ASSUME IInv PROVE TypeOK
  OBVIOUS
<1>1. /\ Typed(Here, log, past) /\ Awaited(Here) /\ Here.mgr = mgr /\ Here.store = store
      /\ Here.backoff = backoff /\ Here \in States /\ Now \in Nat
  BY HereGood DEF Good, Busy
<1>2. /\ All(log) = 1..Now
      /\ \A t \in Topics : Of(log, t) \subseteq 1..Now
  BY DEF All, Of, Now
<1>3. \A t \in Topics : /\ mgr.ring[t] \in Seq(1..Now) /\ Len(mgr.ring[t]) <= MaxPerTopic
                        /\ store.data[t] \in Seq(1..Now) /\ Len(store.data[t]) <= MaxPerTopic
  BY <1>1, <1>2, SeqMonotonic DEF Typed, OnTopic
<1>4. mgr.pending \in Seq(1..Now)
  BY <1>1, <1>2 DEF Typed, OnTopic
<1>5. /\ mgr \in Managers /\ store \in Stores /\ backoff \subseteq Ops
  BY <1>1 DEF States
<1>6. /\ mgr.clearedTopics \subseteq Topics /\ mgr.cutoff \in {None} \cup Int
      /\ mgr.clearBefore \in Nat
  BY <1>5 DEF Managers
<1>7. store.queue \in Seq(Ops) /\ store.transactions \in Seq(Seq(Ops) \ {<<>>})
  BY <1>5 DEF Stores, Transactions
<1> QED BY <1>3, <1>4, <1>5, <1>6, <1>7 DEF TypeOK, IInv

\* Every field of the manager, the adapter and the retries keeps its type, and
\* no history is longer than replay.maxPerTopic.
THEOREM Types == Spec => []TypeOK
BY Invariance, IInvTypes, PTL

\* It has the live messages at the end.
LEMMA IInvTail == IInv => LiveTail
<1> SUFFICES ASSUME IInv, NEW t \in Topics
             PROVE  IsSuffix(Pruned(past.kept[t]), mgr.ring[t])
  BY DEF LiveTail
<1>1. /\ Tailed(Here, past) /\ Here.mgr = mgr /\ Here \in States /\ past \in Pasts
  BY HereGood, TypedParts DEF Good
<1>2. past.kept[t] \in Seq(Nat) /\ mgr.ring[t] \in Seq(Nat)
  BY <1>1 DEF Pasts, States, Managers
<1>3. Pruned(past.kept[t]) \in Seq(Nat)
  BY <1>2, PrunedType
<1> QED BY <1>1, <1>2, <1>3, EndsIs DEF Tailed

\* What was recorded and not cleared is the end of its topic's history, in the
\* order of its recording: no hydration, retry or suspension puts an older
\* message behind it or loses it before its turn.
THEOREM LiveMessagesEndTheHistory == Spec => []LiveTail
BY Invariance, IInvTail, PTL

\* It has no message that was cleared.
LEMMA IInvCleared == IInv => ClearedForGood
<1> SUFFICES ASSUME IInv PROVE ClearedForGood
  OBVIOUS
<1>1. Cleared(Here, log, past) /\ Here.mgr = mgr /\ Here.store = store
  BY HereGood DEF Good
<1>2. ASSUME NEW t \in Topics
      PROVE  ToSet(mgr.ring[t]) \cap (past.cleared \cup (past.gone \ past.retried)) = {}
  <2>1. mgr.ring[t] \in Seq(Shown(past))
    BY <1>1 DEF Cleared
  <2>2. ToSet(mgr.ring[t]) \subseteq Shown(past)
    BY <2>1 DEF ToSet
  <2> QED BY <2>2 DEF Shown, Stored
<1>3. ASSUME NEW t \in Topics
      PROVE  ToSet(store.data[t]) \cap past.gone \subseteq past.retried
  <2>1. store.data[t] \in Seq(Stored(past))
    BY <1>1 DEF Cleared
  <2>2. ToSet(store.data[t]) \subseteq Stored(past)
    BY <2>1 DEF ToSet
  <2> QED BY <2>2 DEF Stored
<1> QED BY <1>2, <1>3 DEF ClearedForGood, ClearedStaysOut, ClearedIsGone, Durable

\* A message that was cleared comes back to no handler, whatever load was under
\* way, and not to the store either once that confirmed the clear, unless an
\* append that failed before is tried again.
THEOREM ClearsAreForGood == Spec => []ClearedForGood
BY Invariance, IInvCleared, PTL

\* Where the hydrations under way are.
LEMMA HydrationsAre ==
  ASSUME IInv, NEW op
  PROVE  op \in Underway /\ Hydrating(op) <=>
           \/ \E i \in Queued(store.queue) : op = store.queue[i]
           \/ \E i \in Begun(store.transactions) : op = store.transactions[i][1]
           \/ op \in Delayed(backoff)
<1> DEFINE q == store.queue
           x == store.transactions
<1>1. /\ Typed(Here, log, past) /\ Here.store = store
  BY HereGood DEF Good
<1>2. q \in Seq(Ops) /\ x \in Seq(Fitting(log)) /\ x \in Seq(Transactions)
  BY <1>1, TypedParts DEF Typed
<1> HIDE DEF q, x
<1>3. op \in ToSet(q) /\ Hydrating(op) <=> \E i \in Queued(q) : op = q[i]
  BY <1>2 DEF ToSet, Queued
<1>4. op \in backoff /\ Hydrating(op) <=> op \in Delayed(backoff)
  BY DEF Delayed
<1>5. ASSUME NEW i \in 1..Len(x)
      PROVE  /\ \A k \in 1..Len(x[i]) : Hydrating(x[i][k]) => x[i][k] = x[i][1]
             /\ 1 \in 1..Len(x[i]) /\ DOMAIN x[i] = 1..Len(x[i])
  <2> DEFINE ops == x[i]
  <2>1. ops \in Fitting(log) /\ ops \in Transactions
    BY <1>2
  <2> HIDE DEF ops
  <2>2. 1 \in 1..Len(ops) /\ DOMAIN ops = 1..Len(ops) /\ Len(ops) \in Nat
    BY <2>1 DEF Transactions
  <2>3. Len(ops) = 1 \/ \A k \in 1..Len(ops) : ops[k].kind = "append"
    BY <2>1 DEF Fitting
  <2>4. ASSUME NEW k \in 1..Len(ops), Hydrating(ops[k])
        PROVE  ops[k] = ops[1]
    <3>1. ops[k].kind # "append"
      BY <2>4 DEF Hydrating
    <3>2. Len(ops) = 1
      BY <2>3, <3>1
    <3>3. k = 1
      BY <3>2
    <3> QED BY <3>3
  <2> QED BY <2>2, <2>4 DEF ops
<1>6. DOMAIN x = 1..Len(x)
  BY <1>2
<1>7. /\ op \in UNION {ToSet(ops) : ops \in ToSet(x)}
      /\ Hydrating(op)
      <=> \E i \in Begun(x) : op = x[i][1]
  <2>1. ASSUME op \in UNION {ToSet(ops) : ops \in ToSet(x)}, Hydrating(op)
        PROVE  \E i \in Begun(x) : op = x[i][1]
    <3>1. PICK i \in 1..Len(x) : op \in ToSet(x[i])
      BY <1>6, <2>1 DEF ToSet
    <3>2. PICK k \in 1..Len(x[i]) : op = x[i][k]
      BY <1>5, <3>1 DEF ToSet
    <3>3. op = x[i][1]
      BY <1>5, <2>1, <3>2
    <3> QED BY <2>1, <3>3 DEF Begun
  <2>2. ASSUME NEW i \in Begun(x), op = x[i][1]
        PROVE  op \in UNION {ToSet(ops) : ops \in ToSet(x)} /\ Hydrating(op)
    <3>1. i \in 1..Len(x) /\ Hydrating(op)
      BY <2>2 DEF Begun
    <3>2. op \in ToSet(x[i])
      BY <1>5, <2>2, <3>1 DEF ToSet
    <3>3. x[i] \in ToSet(x)
      BY <1>6, <3>1 DEF ToSet
    <3> QED BY <3>1, <3>2, <3>3
  <2> QED BY <2>1, <2>2
<1> QED BY <1>3, <1>4, <1>7, Zenon DEF Underway, q, x

\* It has the jobs the manager knows of.
LEMMA IInvJobs == IInv => JobsAreCurrent
<1> SUFFICES ASSUME IInv PROVE JobsAreCurrent
  OBVIOUS
<1> DEFINE q == store.queue
           x == store.transactions
           H == {op \in Underway : Hydrating(op)}
<1>1. /\ OnePlace(mgr.hydration, q, x, backoff) /\ Awaited(Here)
      /\ Here.mgr = mgr /\ mgr.hydration \in BOOLEAN
  <2>1. /\ Busy(Here) /\ Here.mgr = mgr /\ Here.store = store /\ Here.backoff = backoff
        /\ Here \in States
    BY HereGood DEF Good
  <2> QED BY <2>1 DEF Busy, States, Managers
<1>2. NoStrandedCutoff
  BY <1>1 DEF Awaited, NoStrandedCutoff
<1>3. \A op : op \in H <=>
           \/ \E i \in Queued(q) : op = q[i]
           \/ \E i \in Begun(x) : op = x[i][1]
           \/ op \in Delayed(backoff)
  BY HydrationsAre
<1>4. HydrationIsCurrent <=> Cardinality(H) = IF mgr.hydration THEN 1 ELSE 0
  BY DEF HydrationIsCurrent, Hydrating
<1> HIDE DEF H, q, x
<1>5. CASE ~mgr.hydration
  <2>1. Queued(q) = {} /\ Begun(x) = {} /\ Delayed(backoff) = {}
    BY <1>1, <1>5 DEF OnePlace
  <2>2. H = {}
    BY <1>3, <2>1
  <2>3. Cardinality(H) = 0
    BY <2>2, FS_EmptySet
  <2> QED BY <1>2, <1>4, <1>5, <2>3 DEF JobsAreCurrent
<1>6. CASE mgr.hydration
  <2>1. \E o : H = {o}
    <3>1. CASE (\E i \in 1..Len(q) : Queued(q) = {i}) /\ Begun(x) = {} /\ Delayed(backoff) = {}
      <4>1. PICK i : Queued(q) = {i}
        BY <3>1
      <4>2. H = {q[i]}
        BY <1>3, <3>1, <4>1
      <4> QED BY <4>2
    <3>2. CASE Queued(q) = {} /\ (\E i \in 1..Len(x) : Begun(x) = {i}) /\ Delayed(backoff) = {}
      <4>1. PICK i : Begun(x) = {i}
        BY <3>2
      <4>2. H = {x[i][1]}
        BY <1>3, <3>2, <4>1
      <4> QED BY <4>2
    <3>3. CASE Queued(q) = {} /\ Begun(x) = {} /\ (\E op \in backoff : Delayed(backoff) = {op})
      <4>1. PICK op : Delayed(backoff) = {op}
        BY <3>3
      <4>2. H = {op}
        BY <1>3, <3>3, <4>1
      <4> QED BY <4>2
    <3> QED BY <1>1, <1>6, <3>1, <3>2, <3>3 DEF OnePlace
  <2>2. Cardinality(H) = 1
    BY <2>1, FS_Singleton
  <2> QED BY <1>2, <1>4, <1>6, <2>2 DEF JobsAreCurrent
<1> QED BY <1>5, <1>6

\* The manager holds a hydration exactly while one of its generation is queued,
\* in a transaction or waits for its timer, there is never a second one, and a
\* cut-off never waits for a cleanup that is not there.
THEOREM JobsAreKnown == Spec => []JobsAreCurrent
BY Invariance, IInvJobs, PTL
=============================================================================
