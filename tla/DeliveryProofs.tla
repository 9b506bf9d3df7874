--------------------------- MODULE DeliveryProofs ---------------------------
(***************************************************************************)
(* Proofs about Delivery, for any tabs, topics, owners, channel and bounds: *)
(* a publication goes to the transport of one tab, once, or is given up     *)
(* once (GoesToOwnerOnce), no handler is called more often than the message *)
(* was accepted (OncePerAcceptance), the caches of owners and of ids keep   *)
(* within their caps (TypeOK), and the window of ids tells duplicates from  *)
(* messages that are new (WindowIsKept).                                    *)
(*                                                                         *)
(* Functions of the bus map a state record s to another.  Accounted says of *)
(* such a record that every publication is in one place: with a server, a   *)
(* frame or given up, or in the hands of the function.  There is a lemma    *)
(* for each function; the theorems follow action by action.  Remembers says *)
(* of the window of a tab what it holds of the log of what was accepted.    *)
(***************************************************************************)
EXTENDS Delivery, FiniteSetTheorems, SequenceTheorems, WellFoundedInduction, TLAPS

Fields == {"cache", "window", "link", "key", "wire", "fate", "fanned", "ran", "log", "due"}
Links == Tabs \X Tabs
Unmoved == [l \in Links |-> 0]

\* The storage-event channel: what was written last has been counted.
KeyOK(k) ==
  /\ DOMAIN k = {"value", "sent", "closing", "full"}
  /\ k.sent \in [Tabs -> Nat] /\ k.closing \subseteq Tabs /\ k.full \in BOOLEAN
  /\ k.value = Empty \/ (k.value.from \in Tabs /\ k.value.seq \in 1..k.sent[k.value.from])

WellFormed(s) ==
  /\ DOMAIN s = Fields
  /\ s.link \in [Links -> Seq(Frames)]
  /\ s.wire \in [Tabs -> Seq(Messages)]
  /\ s.fate \in [Messages -> [handed : Nat, lost : Nat]]
  /\ s.fanned \in [Messages -> Nat]
  /\ s.ran \in [Tabs -> [Names -> [Messages -> Nat]]]
  /\ KeyOK(s.key)

\* Some frame asks for the publication of m.
Carried(s, m) == \E l \in Links : \E i \in 1..Len(s.link[l]) : Asks(s.link[l][i], m)

\* No two frames do.
AskedOnce(s, m) ==
  \A l1, l2 \in Links : \A i1 \in 1..Len(s.link[l1]), i2 \in 1..Len(s.link[l2]) :
    Asks(s.link[l1][i1], m) /\ Asks(s.link[l2][i2], m) => l1 = l2 /\ i1 = i2

\* With n publications so far, those of held are in the hands of the function
\* that works on s, and each of the others is in one place.
Settled(s, n, held, m) ==
  /\ s.fate[m].handed + s.fate[m].lost
       = IF m <= n /\ m \notin held /\ ~Carried(s, m) THEN 1 ELSE 0
  /\ Carried(s, m) => m <= n /\ m \notin held
  /\ m \in held => m <= n
  /\ AskedOnce(s, m)

Accounted(s, n, held) == \A m \in Messages : Settled(s, n, held, m)

ToldIn(s, v, m) ==
  UNION {{x} \X {i \in 1..Len(s.link[<<x, v>>]) : Tells(s.link[<<x, v>>][i], m)} : x \in Tabs}

\* The calls made and those on their way are among the acceptances.
Called(s) ==
  \A v \in Tabs, n \in Names, m \in Messages :
    s.ran[v][n][m] + Cardinality(ToldIn(s, v, m)) <= s.fanned[m]

\* The inductive invariant.
Fixtures ==
  /\ setup \in Setups
  /\ phase \in [Tabs -> {"up", "suspended", "stopping", "stopped", "crashed"}]
  /\ wants \in [Tabs -> SUBSET Names] /\ assigned \in [Tabs -> SUBSET Names]
  /\ listed \subseteq Tabs
  /\ route \in [Topics -> {NoRoute} \cup [owner : Tabs, generation : Nat]]
  /\ made \in Seq(Topics) /\ Len(made) <= MaxMessages

Inv ==
  /\ Fixtures /\ WellFormed(Here)
  /\ Accounted(Here, Len(made), {}) /\ Called(Here)

Sound(s, n, held) == WellFormed(s) /\ Accounted(s, n, held) /\ Called(s)

----------------------------------------------------------------------------
(* Data.                                                                   *)

\* Copies of items are items.
LEMMA CopiesType ==
  ASSUME NEW items \in Seq(Messages), NEW k \in Nat
  PROVE  Copies(items, k) \in Seq(Messages)
<1> DEFINE n == Len(items)
<1>1. n \in Nat /\ k * n \in Nat
  BY LenProperties
<1>2. ASSUME NEW i \in 1..(k * n) PROVE items[(i - 1) \div k + 1] \in Messages
  <2> DEFINE j == i - 1
             q == j \div k
  <2>1. i \in Int /\ 1 <= i /\ i <= k * n
    BY <1>1
  <2>2. k # 0
    BY <1>1, <2>1
  <2>3. j \in Nat /\ j < k * n
    BY <1>1, <2>1
  <2> HIDE DEF j
  <2>4. j = k * q + (j % k) /\ j % k \in 0..(k - 1) /\ q \in Int
    BY <2>2, <2>3
  <2> HIDE DEF q, n
  <2>5. ASSUME q < 0 PROVE FALSE
    <3>1. k * (q + 1) <= 0
      BY <2>2, <2>4, <2>5
    <3>2. k * (q + 1) = k * q + k
      BY <2>4
    <3> QED BY <2>3, <2>4, <3>1, <3>2
  <2>6. ASSUME q >= n PROVE FALSE
    <3>1. k * q >= k * n
      BY <1>1, <2>4, <2>6
    <3> QED BY <1>1, <2>3, <2>4, <3>1
  <2>7. q + 1 \in 1..n
    BY <1>1, <2>4, <2>5, <2>6
  <2>8. items[q + 1] \in Messages
    BY <2>7, ElementOfSeq DEF n
  <2> QED BY <2>8 DEF q, j
<1>3. Copies(items, k) \in [1..(k * n) -> Messages]
  BY <1>2 DEF Copies
<1> QED BY <1>1, <1>3

\* A transport is subscribed to finitely many names.
LEMMA HeardFinite ==
  ASSUME Fixtures, NEW v \in Tabs, NEW topic
  PROVE  Cardinality(Heard(v, topic)) \in Nat
<1>1. Heard(v, topic) \subseteq Topics \cup {Star}
  BY DEF Heard, Fixtures, Names
<1>2. IsFiniteSet(Topics \cup {Star})
  BY DeliveryAssumption, FS_AddElement
<1> QED BY <1>1, <1>2, FS_Subset, FS_CardinalityType

\* Server copies go to the wire.
LEMMA FanOutType ==
  ASSUME Fixtures, NEW s, WellFormed(s), NEW topic, NEW items \in Seq(Messages)
  PROVE  /\ FanOut(s, topic, items).wire \in [Tabs -> Seq(Messages)]
         /\ DOMAIN FanOut(s, topic, items) = Fields
         /\ \A f \in Fields \ {"wire"} : FanOut(s, topic, items)[f] = s[f]
<1>1. ASSUME NEW v \in Tabs
      PROVE s.wire[v] \o Copies(items, Cardinality(Heard(v, topic))) \in Seq(Messages)
  BY HeardFinite, CopiesType, ConcatProperties DEF WellFormed
<1>2. DOMAIN s = Fields
  BY DEF WellFormed
<1> QED BY <1>1, <1>2 DEF FanOut, Fields

\* What a step says of frames and calls depends on these fields only.
LEMMA SameFrames ==
  ASSUME NEW s, NEW r, r.link = s.link
  PROVE  /\ \A m : Carried(r, m) <=> Carried(s, m)
         /\ \A m : AskedOnce(r, m) <=> AskedOnce(s, m)
         /\ \A v, m : ToldIn(r, v, m) = ToldIn(s, v, m)
BY DEF Carried, AskedOnce, ToldIn

\* Calls are among the acceptances while neither changes.
LEMMA SameCalls ==
  ASSUME NEW s, Called(s), NEW r, r.link = s.link, r.ran = s.ran, r.fanned = s.fanned
  PROVE  Called(r)
BY SameFrames DEF Called

\* Frames that ask for a publication, if they only move up their queues or leave.
LEMMA AskedStay ==
  ASSUME NEW s, NEW r, NEW m, NEW d \in [Links -> Nat],
         \A l \in Links : \A i \in 1..Len(r.link[l]) : Asks(r.link[l][i], m) =>
           i + d[l] \in 1..Len(s.link[l]) /\ Asks(s.link[l][i + d[l]], m)
  PROVE  /\ Carried(r, m) => Carried(s, m)
         /\ AskedOnce(s, m) => AskedOnce(r, m)
<1>1. Carried(r, m) => Carried(s, m)
  BY DEF Carried
<1>2. ASSUME AskedOnce(s, m), NEW l1 \in Links, NEW l2 \in Links,
             NEW i1 \in 1..Len(r.link[l1]), NEW i2 \in 1..Len(r.link[l2]),
             Asks(r.link[l1][i1], m) /\ Asks(r.link[l2][i2], m)
      PROVE  l1 = l2 /\ i1 = i2
  <2>1. /\ i1 + d[l1] \in 1..Len(s.link[l1]) /\ Asks(s.link[l1][i1 + d[l1]], m)
        /\ i2 + d[l2] \in 1..Len(s.link[l2]) /\ Asks(s.link[l2][i2 + d[l2]], m)
    BY <1>2
  <2>2. l1 = l2 /\ i1 + d[l1] = i2 + d[l2]
    BY <1>2, <2>1, Zenon DEF AskedOnce
  <2>3. d[l1] \in Nat /\ i1 \in Int /\ i2 \in Int
    OBVIOUS
  <2> QED BY <2>2, <2>3
<1>3. AskedOnce(s, m) => AskedOnce(r, m)
  <2> SUFFICES ASSUME AskedOnce(s, m) PROVE AskedOnce(r, m)
    OBVIOUS
  <2>1. \A l1, l2 \in Links : \A i1 \in 1..Len(r.link[l1]), i2 \in 1..Len(r.link[l2]) :
          Asks(r.link[l1][i1], m) /\ Asks(r.link[l2][i2], m) => l1 = l2 /\ i1 = i2
    BY <1>2, Zenon
  <2> QED BY <2>1 DEF AskedOnce
<1> QED BY <1>1, <1>3

----------------------------------------------------------------------------
(* Functions of publications.                                              *)

\* What is given up has come to its end.
LEMMA GiveUpSound ==
  ASSUME NEW s, NEW n, NEW held, Sound(s, n, held)
  PROVE  /\ Sound(GiveUp(s, held), n, {})
         /\ GiveUp(s, held).link = s.link /\ GiveUp(s, held).key = s.key
<1> DEFINE r == GiveUp(s, held)
<1>1. DOMAIN s = Fields
  BY DEF Sound, WellFormed
<1>2. /\ DOMAIN r = Fields /\ r.link = s.link /\ r.wire = s.wire
      /\ r.fanned = s.fanned /\ r.ran = s.ran /\ r.key = s.key
      /\ r.fate = [m \in Messages |-> IF m \in held THEN [s.fate[m] EXCEPT !.lost = @ + 1]
                                      ELSE s.fate[m]]
  BY <1>1 DEF GiveUp, Fields
<1> HIDE DEF r
<1>3. ASSUME NEW m \in Messages
      PROVE /\ s.fate[m].handed \in Nat /\ s.fate[m].lost \in Nat
            /\ r.fate[m] \in [handed : Nat, lost : Nat]
            /\ r.fate[m].handed = s.fate[m].handed
            /\ r.fate[m].lost = IF m \in held THEN s.fate[m].lost + 1 ELSE s.fate[m].lost
  <2>1. s.fate[m] \in [handed : Nat, lost : Nat]
    BY DEF Sound, WellFormed
  <2>2. r.fate[m] = IF m \in held THEN [s.fate[m] EXCEPT !.lost = @ + 1] ELSE s.fate[m]
    BY <1>2
  <2> QED BY <2>1, <2>2
<1>4. r.fate \in [Messages -> [handed : Nat, lost : Nat]]
  BY <1>2, <1>3
<1>5. WellFormed(r)
  BY <1>2, <1>4 DEF Sound, WellFormed
<1>6. ASSUME NEW m \in Messages PROVE Settled(r, n, {}, m)
  <2>1. Settled(s, n, held, m)
    BY DEF Sound, Accounted
  <2>2. (Carried(r, m) <=> Carried(s, m)) /\ (AskedOnce(r, m) <=> AskedOnce(s, m))
    BY <1>2, SameFrames
  <2> QED BY <1>3, <2>1, <2>2 DEF Settled
<1>7. Called(r)
  BY <1>2, SameCalls DEF Sound
<1> QED BY <1>2, <1>5, <1>6, <1>7 DEF Sound, Accounted, r

\* The transport sends the items, or drops them.
LEMMA TransportPublishSound ==
  ASSUME Fixtures, NEW s, NEW n, NEW items \in Seq(Messages), Sound(s, n, Range(items)),
         NEW w, NEW topic, NEW sent
  PROVE  Sound(TransportPublish(s, w, topic, items, sent), n, {})
<1> DEFINE r == TransportPublish(s, w, topic, items, sent)
           held == Range(items)
           f == FanOut(s, topic, items)
<1>1. CASE ~(sent /\ Up(w))
  BY <1>1, GiveUpSound DEF TransportPublish
<1>2. CASE sent /\ Up(w)
  <2>1. WellFormed(s)
    BY DEF Sound
  <2>2. /\ DOMAIN f = Fields /\ f.wire \in [Tabs -> Seq(Messages)]
        /\ f.link = s.link /\ f.fanned = s.fanned /\ f.ran = s.ran /\ f.key = s.key
    BY <2>1, FanOutType DEF Fields
  <2> HIDE DEF f
  <2>3. r = [f EXCEPT
               !.fate = [m \in Messages |-> IF m \in held THEN [s.fate[m] EXCEPT !.handed = @ + 1]
                                            ELSE s.fate[m]],
               !.due = [m \in Messages |-> IF m \in held
                                           THEN [who |-> Due(topic), churn |-> churn]
                                           ELSE s.due[m]]]
    BY <1>2 DEF TransportPublish, f
  <2>4. /\ DOMAIN r = Fields /\ r.link = s.link /\ r.wire \in [Tabs -> Seq(Messages)]
        /\ r.fanned = s.fanned /\ r.ran = s.ran /\ r.key = s.key
        /\ r.fate = [m \in Messages |-> IF m \in held THEN [s.fate[m] EXCEPT !.handed = @ + 1]
                                        ELSE s.fate[m]]
    BY <2>2, <2>3 DEF Fields
  <2> HIDE DEF r, held
  <2>5. ASSUME NEW m \in Messages
        PROVE /\ s.fate[m].handed \in Nat /\ s.fate[m].lost \in Nat
              /\ r.fate[m] \in [handed : Nat, lost : Nat]
              /\ r.fate[m].lost = s.fate[m].lost
              /\ r.fate[m].handed = IF m \in held THEN s.fate[m].handed + 1 ELSE s.fate[m].handed
    <3>1. s.fate[m] \in [handed : Nat, lost : Nat]
      BY DEF Sound, WellFormed
    <3>2. r.fate[m] = IF m \in held THEN [s.fate[m] EXCEPT !.handed = @ + 1] ELSE s.fate[m]
      BY <2>4
    <3> QED BY <3>1, <3>2
  <2>6. r.fate \in [Messages -> [handed : Nat, lost : Nat]]
    BY <2>4, <2>5
  <2>7. WellFormed(r)
    BY <2>1, <2>4, <2>6 DEF WellFormed
  <2>8. ASSUME NEW m \in Messages PROVE Settled(r, n, {}, m)
    <3>1. Settled(s, n, held, m)
      BY DEF Sound, Accounted, held
    <3>2. (Carried(r, m) <=> Carried(s, m)) /\ (AskedOnce(r, m) <=> AskedOnce(s, m))
      BY <2>4, SameFrames
    <3> QED BY <2>5, <3>1, <3>2 DEF Settled
  <2>9. Called(r)
    BY <2>4, SameCalls DEF Sound
  <2> QED BY <2>7, <2>8, <2>9 DEF Sound, Accounted, r
<1> QED BY <1>1, <1>2

----------------------------------------------------------------------------
(* Frames.                                                                 *)

\* The storage-event channel numbers what it writes, so every value differs
\* from the one before it, and raises an event.
LEMMA WrittenNew ==
  ASSUME NEW s, WellFormed(s), NEW x \in Tabs, NEW T, NEW frame
  PROVE  /\ Noticed(s, x, T, frame)
         /\ DOMAIN Written(s, x, T, frame) = Fields
         /\ \A f \in Fields \ {"key"} : Written(s, x, T, frame)[f] = s[f]
         /\ KeyOK(Written(s, x, T, frame).key)
<1> DEFINE e == Envelope(s, x, T, frame)
           r == Written(s, x, T, frame)
<1>1. DOMAIN s = Fields /\ KeyOK(s.key) /\ s.key.sent[x] \in Nat
  BY DEF WellFormed, KeyOK
<1>2. e.from = x /\ e.seq = s.key.sent[x] + 1
  BY DEF Envelope
<1> HIDE DEF e
<1>3. Noticed(s, x, T, frame)
  <2>1. CASE s.key.value = Empty
    <3>1. s.key.value.from = None
      BY <2>1 DEF Empty
    <3>2. x # None
      BY DeliveryAssumption DEF None
    <3>3. s.key.value # e
      BY <1>2, <3>1, <3>2, Zenon
    <3> QED BY <3>3 DEF Noticed, e
  <2>2. CASE s.key.value.from \in Tabs /\ s.key.value.seq \in 1..s.key.sent[s.key.value.from]
    <3>1. s.key.value.from = x => s.key.value.seq # e.seq
      BY <1>1, <1>2, <2>2
    <3>2. s.key.value # e
      BY <1>2, <3>1, Zenon
    <3> QED BY <3>2 DEF Noticed, e
  <2> QED BY <1>1, <2>1, <2>2 DEF KeyOK
<1>4. CASE setup.channel # "storage"
  BY <1>1, <1>3, <1>4 DEF Written
<1>5. CASE setup.channel = "storage"
  <2>1. r = [s EXCEPT !.key.value = e, !.key.sent[x] = @ + 1]
    BY <1>5 DEF Written, e
  <2> DEFINE q == [s EXCEPT !.key.value = e]
  <2> HIDE DEF r
  <2>7. /\ DOMAIN q = Fields /\ \A f \in Fields \ {"key"} : q[f] = s[f]
        /\ q.key = [s.key EXCEPT !.value = e]
    BY <1>1 DEF Fields
  <2>8. r = [q EXCEPT !.key.sent[x] = q.key.sent[x] + 1]
    BY <2>1
  <2> HIDE DEF q
  <2>9. q.key.sent = s.key.sent
    BY <1>1, <2>7 DEF KeyOK
  <2>2. /\ DOMAIN r = Fields /\ \A f \in Fields \ {"key"} : r[f] = s[f]
        /\ r.key = [[s.key EXCEPT !.value = e] EXCEPT !.sent[x] = @ + 1]
    BY <2>7, <2>8, <2>9 DEF Fields
  <2>3. /\ DOMAIN r.key = {"value", "sent", "closing", "full"}
        /\ r.key.value = e /\ r.key.closing = s.key.closing /\ r.key.full = s.key.full
        /\ r.key.sent = [s.key.sent EXCEPT ![x] = @ + 1]
    BY <1>1, <2>2 DEF KeyOK
  <2>4. r.key.sent \in [Tabs -> Nat] /\ r.key.sent[x] = s.key.sent[x] + 1
    BY <1>1, <2>3 DEF KeyOK
  <2>5. e.from \in Tabs /\ e.seq \in 1..r.key.sent[e.from]
    BY <1>1, <1>2, <2>4
  <2> HIDE DEF r
  <2>6. KeyOK(r.key)
    BY <1>1, <2>3, <2>4, <2>5 DEF KeyOK
  <2> QED BY <1>3, <2>2, <2>6 DEF r
<1> QED BY <1>4, <1>5

\* postMessage reaches every tab it is meant for that listens.
LEMMA Posting ==
  ASSUME Fixtures, NEW s, WellFormed(s), NEW x \in Tabs, NEW T, NEW frame \in Frames,
         NEW r, r = Post(s, x, T, frame)
  PROVE  /\ WellFormed(r)
         /\ \A f \in Fields \ {"key", "link"} : r[f] = s[f]
         /\ \A l \in Links : r.link[l] = IF l[1] = x /\ l[2] \in T /\ Up(l[2])
                                         THEN Append(s.link[l], frame) ELSE s.link[l]
<1> DEFINE u == Written(s, x, T, frame)
<1>1. /\ Noticed(s, x, T, frame)
      /\ DOMAIN u = Fields /\ KeyOK(u.key)
      /\ \A f \in Fields \ {"key"} : u[f] = s[f]
  BY WrittenNew
<1>2. r = [u EXCEPT !.link = [l \in DOMAIN @ |->
            IF l[1] = x /\ l[2] \in T /\ Up(l[2]) /\ Noticed(s, x, T, frame)
            THEN Append(@[l], frame) ELSE @[l]]]
  BY DEF Post
<1> HIDE DEF u
<1>3. u.link = s.link /\ DOMAIN s.link = Links /\ s.link \in [Links -> Seq(Frames)]
  BY <1>1 DEF WellFormed, Fields
<1>4. /\ DOMAIN r = Fields /\ r.key = u.key
      /\ \A f \in Fields \ {"key", "link"} : r[f] = s[f]
      /\ r.link = [l \in Links |-> IF l[1] = x /\ l[2] \in T /\ Up(l[2])
                                   THEN Append(s.link[l], frame) ELSE s.link[l]]
  BY <1>1, <1>2, <1>3 DEF Fields
<1>5. \A l \in Links : s.link[l] \in Seq(Frames) /\ Append(s.link[l], frame) \in Seq(Frames)
  BY <1>3
<1>6. r.link \in [Links -> Seq(Frames)]
  BY <1>4, <1>5
<1>7. WellFormed(r)
  BY <1>1, <1>4, <1>6 DEF WellFormed, Fields
<1> QED BY <1>4, <1>7

\* Where tabs are told of a publication.
LEMMA ToldPlaces ==
  ASSUME NEW s, NEW v, NEW m, NEW x, NEW i
  PROVE  <<x, i>> \in ToldIn(s, v, m)
           <=> /\ x \in Tabs /\ i \in 1..Len(s.link[<<x, v>>])
               /\ Tells(s.link[<<x, v>>][i], m)
<1> DEFINE I(y) == {j \in 1..Len(s.link[<<y, v>>]) : Tells(s.link[<<y, v>>][j], m)}
<1>1. ToldIn(s, v, m) = UNION {{y} \X I(y) : y \in Tabs}
  BY DEF ToldIn
<1>2. x \in Tabs /\ i \in I(x) => <<x, i>> \in ToldIn(s, v, m)
  <2> HIDE DEF I
  <2>1. <<x, i>> \in {x} \X I(x) <=> i \in I(x)
    OBVIOUS
  <2> QED BY <1>1, <2>1
<1>3. <<x, i>> \in ToldIn(s, v, m) => x \in Tabs /\ i \in I(x)
  <2> HIDE DEF I
  <2>1. SUFFICES ASSUME <<x, i>> \in ToldIn(s, v, m) PROVE x \in Tabs /\ i \in I(x)
    OBVIOUS
  <2>2. PICK y \in Tabs : <<x, i>> \in {y} \X I(y)
    BY <1>1, <2>1
  <2>3. x = y /\ i \in I(y)
    BY <2>2
  <2> QED BY <2>3
<1> QED BY <1>2, <1>3

\* They are pairs of a tab and a number.
LEMMA ToldPairs ==
  ASSUME NEW s, NEW v, NEW m, NEW a \in ToldIn(s, v, m)
  PROVE  /\ a = <<a[1], a[2]>> /\ a[1] \in Tabs /\ a[2] \in 1..Len(s.link[<<a[1], v>>])
         /\ Tells(s.link[<<a[1], v>>][a[2]], m)
<1> DEFINE I(y) == {j \in 1..Len(s.link[<<y, v>>]) : Tells(s.link[<<y, v>>][j], m)}
<1>1. PICK y \in Tabs : a \in {y} \X I(y)
  BY DEF ToldIn
<1>2. a = <<a[1], a[2]>> /\ a[1] = y /\ a[2] \in I(y)
  <2> HIDE DEF I
  <2> QED BY <1>1
<1> QED BY <1>2

\* How to show that they are among others.
LEMMA ToldWithin ==
  ASSUME NEW r, NEW v, NEW m, NEW S,
         \A y \in Tabs : \A i \in 1..Len(r.link[<<y, v>>]) :
           Tells(r.link[<<y, v>>][i], m) => <<y, i>> \in S
  PROVE  ToldIn(r, v, m) \subseteq S
<1>1. ASSUME NEW a \in ToldIn(r, v, m) PROVE a \in S
  <2>1. /\ a = <<a[1], a[2]>> /\ a[1] \in Tabs /\ a[2] \in 1..Len(r.link[<<a[1], v>>])
        /\ Tells(r.link[<<a[1], v>>][a[2]], m)
    BY ToldPairs
  <2>2. <<a[1], a[2]>> \in S
    BY <2>1
  <2> QED BY <2>1, <2>2
<1> QED BY <1>1

\* There are finitely many.
LEMMA ToldFinite ==
  ASSUME NEW s, WellFormed(s), NEW v \in Tabs, NEW m
  PROVE  IsFiniteSet(ToldIn(s, v, m)) /\ Cardinality(ToldIn(s, v, m)) \in Nat
<1> DEFINE At(x) == {x} \X {i \in 1..Len(s.link[<<x, v>>]) : Tells(s.link[<<x, v>>][i], m)}
           S == {At(x) : x \in Tabs}
           f == [x \in Tabs |-> At(x)]
<1>1. ASSUME NEW x \in Tabs PROVE IsFiniteSet(At(x))
  <2> DEFINE I == {i \in 1..Len(s.link[<<x, v>>]) : Tells(s.link[<<x, v>>][i], m)}
  <2>1. Len(s.link[<<x, v>>]) \in Nat
    BY DEF WellFormed, Links
  <2>2. IsFiniteSet(1..Len(s.link[<<x, v>>]))
    BY <2>1, FS_Interval
  <2>3. IsFiniteSet(I)
    BY <2>2, FS_Subset
  <2> HIDE DEF I
  <2>4. IsFiniteSet({x} \X I)
    BY <2>3, FS_Singleton, FS_Product
  <2> QED BY <2>4 DEF I
<1> HIDE DEF At
<1>2. f \in Surjection(Tabs, S)
  BY DEF Surjection
<1>3. IsFiniteSet(S)
  BY <1>2, FS_Surjection, DeliveryAssumption
<1>4. IsFiniteSet(UNION S)
  BY <1>1, <1>3, FS_UNION
<1>5. ToldIn(s, v, m) = UNION S
  BY DEF ToldIn, At
<1> QED BY <1>4, <1>5, FS_CardinalityType

\* The tabs told of a publication are counted by where they go.
LEMMA ToldCount ==
  ASSUME NEW r, NEW v \in Tabs, NEW m, NEW d \in [Links -> Nat], NEW T, IsFiniteSet(T),
         \A y \in Tabs : \A i \in 1..Len(r.link[<<y, v>>]) :
           Tells(r.link[<<y, v>>][i], m) => <<y, i + d[<<y, v>>]>> \in T
  PROVE  Cardinality(ToldIn(r, v, m)) <= Cardinality(T)
<1> DEFINE S == ToldIn(r, v, m)
           g == [a \in S |-> <<a[1], a[2] + d[<<a[1], v>>]>>]
<1>1. ASSUME NEW a \in S
      PROVE /\ a = <<a[1], a[2]>> /\ a[1] \in Tabs /\ a[2] \in Int
            /\ d[<<a[1], v>>] \in Nat /\ <<a[1], a[2] + d[<<a[1], v>>]>> \in T
  <2>1. /\ a = <<a[1], a[2]>> /\ a[1] \in Tabs /\ a[2] \in 1..Len(r.link[<<a[1], v>>])
        /\ Tells(r.link[<<a[1], v>>][a[2]], m)
    BY ToldPairs
  <2>2. <<a[1], v>> \in Links
    BY <2>1 DEF Links
  <2> QED BY <2>1, <2>2
<1>2. ASSUME NEW a \in S, NEW b \in S, g[a] = g[b] PROVE a = b
  <2>1. a[1] = b[1] /\ a[2] + d[<<a[1], v>>] = b[2] + d[<<b[1], v>>]
    BY <1>2
  <2>2. a[2] + d[<<a[1], v>>] = b[2] + d[<<a[1], v>>]
    BY <2>1, Zenon
  <2>3. a[2] \in Int /\ b[2] \in Int /\ d[<<a[1], v>>] \in Nat
    BY <1>1
  <2>4. a[2] = b[2]
    BY <2>2, <2>3
  <2>5. a = <<a[1], a[2]>> /\ b = <<b[1], b[2]>>
    BY <1>1
  <2> QED BY <2>1, <2>4, <2>5, Zenon
<1>3. g \in [S -> T]
  BY <1>1
<1> HIDE DEF g
<1>4. g \in Injection(S, T)
  BY <1>2, <1>3 DEF Injection, IsInjective
<1> QED BY <1>4, FS_Injection

\* A frame that asks for a publication takes it over.
LEMMA AskSound ==
  ASSUME Fixtures, NEW s, NEW n, NEW items \in Seq(Messages), Sound(s, n, Range(items)),
         NEW x \in Tabs, NEW target \in Tabs, NEW topic \in Topics, Up(target),
         NEW r, r = Post(s, x, {target}, [kind |-> "publish", topic |-> topic, items |-> items])
  PROVE  Sound(r, n, {})
<1> DEFINE frame == [kind |-> "publish", topic |-> topic, items |-> items]
           l0 == <<x, target>>
           k == Len(s.link[l0])
           held == Range(items)
<1>1. frame \in Frames
  BY DEF Frames
<1>2. l0 \in Links /\ s.link \in [Links -> Seq(Frames)] /\ k \in Nat
      /\ \A l \in Links : l[1] = x /\ l[2] \in {target} <=> l = l0
  BY DEF Links, Sound, WellFormed
<1> HIDE DEF l0
<1>3. /\ WellFormed(r)
      /\ \A f \in Fields \ {"key", "link"} : r[f] = s[f]
      /\ \A l \in Links : r.link[l] = IF l[1] = x /\ l[2] \in {target} /\ Up(l[2])
                                      THEN Append(s.link[l], frame) ELSE s.link[l]
  BY <1>1, Posting DEF Sound
<1>4. /\ r.link[l0] = Append(s.link[l0], frame)
      /\ \A l \in Links \ {l0} : r.link[l] = s.link[l]
  <2>1. l0[2] = target
    BY DEF l0
  <2> HIDE DEF frame
  <2> QED BY <1>2, <1>3, <2>1
<1>5. /\ Len(r.link[l0]) = k + 1 /\ r.link[l0][k + 1] = frame
      /\ \A i \in 1..k : r.link[l0][i] = s.link[l0][i]
  <2> HIDE DEF frame
  <2>1. s.link[l0] \in Seq(Frames)
    BY <1>2
  <2>2. /\ Len(Append(s.link[l0], frame)) = Len(s.link[l0]) + 1
        /\ Append(s.link[l0], frame)[Len(s.link[l0]) + 1] = frame
        /\ \A i \in 1..Len(s.link[l0]) : Append(s.link[l0], frame)[i] = s.link[l0][i]
    BY <1>1, <2>1, AppendProperties
  <2> QED BY <1>4, <2>2
<1>6. r.fate = s.fate /\ r.ran = s.ran /\ r.fanned = s.fanned
  BY <1>3 DEF Fields
<1>7. \A m : (Asks(frame, m) <=> m \in held) /\ ~Tells(frame, m)
  BY DEF Asks, Tells
<1> HIDE DEF frame, held, k
<1>8. ASSUME NEW l \in Links, NEW i \in 1..Len(r.link[l]), ~(l = l0 /\ i = k + 1)
      PROVE  i \in 1..Len(s.link[l]) /\ r.link[l][i] = s.link[l][i]
  <2>1. CASE l # l0
    BY <1>4, <1>8, <2>1
  <2>2. CASE l = l0
    <3>1. i \in 1..(k + 1) /\ i # k + 1
      BY <1>5, <1>8, <2>2
    <3>2. i \in 1..k
      BY <1>2, <3>1
    <3>3. r.link[l0][i] = s.link[l0][i]
      BY <1>5, <3>2
    <3> QED BY <2>2, <3>2, <3>3 DEF k
  <2> QED BY <2>1, <2>2
<1>9. ASSUME NEW l \in Links, NEW i \in 1..Len(s.link[l])
      PROVE  i \in 1..Len(r.link[l]) /\ r.link[l][i] = s.link[l][i] /\ ~(l = l0 /\ i = k + 1)
  <2>1. CASE l # l0
    BY <1>4, <1>9, <2>1
  <2>2. CASE l = l0
    <3>1. i \in 1..k
      BY <1>9, <2>2 DEF k
    <3>2. i \in 1..(k + 1) /\ i # k + 1
      BY <1>2, <3>1
    <3>3. r.link[l0][i] = s.link[l0][i]
      BY <1>5, <3>1
    <3> QED BY <1>5, <2>2, <3>2, <3>3
  <2> QED BY <2>1, <2>2
<1>10. k + 1 \in 1..Len(r.link[l0])
  BY <1>2, <1>5
<1>11. ASSUME NEW m \in Messages PROVE Settled(r, n, {}, m)
  <2>1. Settled(s, n, held, m)
    BY DEF Sound, Accounted, held
  <2>2. CASE m \in held
    <3>1. ~Carried(s, m)
      BY <2>1, <2>2 DEF Settled
    <3>2. Carried(r, m)
      BY <1>2, <1>5, <1>7, <1>10, <2>2 DEF Carried
    <3>3. \A l \in Links : \A i \in 1..Len(r.link[l]) :
            Asks(r.link[l][i], m) => l = l0 /\ i = k + 1
      BY <1>8, <3>1 DEF Carried
    <3>4. AskedOnce(r, m)
      BY <3>3 DEF AskedOnce
    <3> QED BY <1>6, <2>1, <2>2, <3>2, <3>4 DEF Settled
  <2>3. CASE m \notin held
    <3>1. \A l \in Links : \A i \in 1..Len(r.link[l]) :
            Asks(r.link[l][i], m) => i \in 1..Len(s.link[l]) /\ Asks(s.link[l][i], m)
      BY <1>5, <1>7, <1>8, <2>3
    <3>2. \A l \in Links : \A i \in 1..Len(s.link[l]) :
            Asks(s.link[l][i], m) => i \in 1..Len(r.link[l]) /\ Asks(r.link[l][i], m)
      BY <1>9
    <3>3. Carried(r, m) <=> Carried(s, m)
      BY <3>1, <3>2, Zenon DEF Carried
    <3>4. AskedOnce(s, m) => AskedOnce(r, m)
      <4>1. Unmoved \in [Links -> Nat] /\ \A l \in Links : Unmoved[l] = 0
        BY DEF Unmoved
      <4>2. \A l \in Links : \A i \in 1..Len(r.link[l]) : Asks(r.link[l][i], m) =>
              i + Unmoved[l] \in 1..Len(s.link[l]) /\ Asks(s.link[l][i + Unmoved[l]], m)
        <5> SUFFICES ASSUME NEW l \in Links, NEW i \in 1..Len(r.link[l]), Asks(r.link[l][i], m)
                     PROVE  i + Unmoved[l] = i
          BY <3>1
        <5> QED BY <4>1
      <4> QED BY <4>1, <4>2, AskedStay
    <3> QED BY <1>6, <2>1, <2>3, <3>3, <3>4 DEF Settled
  <2> QED BY <2>2, <2>3
<1>12. Called(r)
  <2>1. ASSUME NEW v \in Tabs, NEW m \in Messages PROVE ToldIn(r, v, m) = ToldIn(s, v, m)
    <3>1. ASSUME NEW y \in Tabs, NEW i \in 1..Len(r.link[<<y, v>>]),
                 Tells(r.link[<<y, v>>][i], m)
          PROVE  <<y, i>> \in ToldIn(s, v, m)
      <4>1. <<y, v>> \in Links
        BY DEF Links
      <4>2. i \in 1..Len(s.link[<<y, v>>]) /\ r.link[<<y, v>>][i] = s.link[<<y, v>>][i]
        BY <1>5, <1>7, <1>8, <3>1, <4>1
      <4> QED BY <3>1, <4>2, ToldPlaces
    <3>2. ASSUME NEW y \in Tabs, NEW i \in 1..Len(s.link[<<y, v>>]),
                 Tells(s.link[<<y, v>>][i], m)
          PROVE  <<y, i>> \in ToldIn(r, v, m)
      <4>1. <<y, v>> \in Links
        BY DEF Links
      <4>2. i \in 1..Len(r.link[<<y, v>>]) /\ r.link[<<y, v>>][i] = s.link[<<y, v>>][i]
        BY <1>9, <4>1
      <4> QED BY <3>2, <4>2, ToldPlaces
    <3>3. ToldIn(r, v, m) \subseteq ToldIn(s, v, m)
      BY <3>1, ToldWithin
    <3>4. ToldIn(s, v, m) \subseteq ToldIn(r, v, m)
      BY <3>2, ToldWithin
    <3> QED BY <3>3, <3>4
  <2> QED BY <1>6, <2>1 DEF Called, Sound
<1> QED BY <1>3, <1>11, <1>12 DEF Sound, Accounted

\* A function that leaves these fields alone changes none of this.
LEMMA SameSound ==
  ASSUME NEW s, NEW n, NEW held, Sound(s, n, held), NEW r, WellFormed(r),
         r.link = s.link, r.fate = s.fate, r.ran = s.ran, r.fanned = s.fanned
  PROVE  Sound(r, n, held)
<1>1. Called(r)
  BY SameCalls DEF Sound
<1>2. ASSUME NEW m \in Messages PROVE Settled(r, n, held, m)
  <2>1. Settled(s, n, held, m)
    BY DEF Sound, Accounted
  <2>2. (Carried(r, m) <=> Carried(s, m)) /\ (AskedOnce(r, m) <=> AskedOnce(s, m))
    BY SameFrames
  <2> QED BY <2>1, <2>2 DEF Settled
<1> QED BY <1>1, <1>2 DEF Sound, Accounted

\* A frame for a tab that does not listen changes no queue.
LEMMA PostDown ==
  ASSUME Fixtures, NEW s, NEW n, NEW held, Sound(s, n, held), NEW x \in Tabs,
         NEW target, ~Up(target), NEW frame \in Frames
  PROVE  Sound(Post(s, x, {target}, frame), n, held)
<1> DEFINE r == Post(s, x, {target}, frame)
<1>1. /\ WellFormed(r) /\ WellFormed(s)
      /\ \A f \in Fields \ {"key", "link"} : r[f] = s[f]
      /\ \A l \in Links : r.link[l] = IF l[1] = x /\ l[2] \in {target} /\ Up(l[2])
                                      THEN Append(s.link[l], frame) ELSE s.link[l]
  BY Posting DEF Sound
<1> HIDE DEF r
<1>2. \A l \in Links : r.link[l] = s.link[l]
  BY <1>1
<1>3. r.link = s.link
  BY <1>1, <1>2 DEF WellFormed
<1>4. r.fate = s.fate /\ r.ran = s.ran /\ r.fanned = s.fanned
  BY <1>1 DEF Fields
<1> QED BY <1>1, <1>3, <1>4, SameSound DEF r

\* The request is in a frame, or given up.
LEMMA SendPublishSound ==
  ASSUME Fixtures, NEW s, NEW n, NEW items \in Seq(Messages), Sound(s, n, Range(items)),
         NEW w \in Tabs, NEW target \in Tabs, NEW topic \in Topics
  PROVE  Sound(SendPublish(s, w, target, topic, items), n, {})
<1> DEFINE frame == [kind |-> "publish", topic |-> topic, items |-> items]
           posted == Post(s, w, {target}, frame)
           r == SendPublish(s, w, target, topic, items)
<1>1. frame \in Frames
  BY DEF Frames
<1>2. CASE ~(Up(w) /\ Carries)
  <2>1. r = GiveUp(s, Range(items))
    BY <1>2 DEF SendPublish
  <2> QED BY <2>1, GiveUpSound
<1>3. CASE Up(w) /\ Carries /\ ~Up(target)
  <2>1. r = GiveUp(posted, Range(items))
    BY <1>3 DEF SendPublish
  <2>2. Sound(posted, n, Range(items))
    BY <1>1, <1>3, PostDown
  <2> QED BY <2>1, <2>2, GiveUpSound
<1>4. CASE Up(w) /\ Carries /\ Up(target)
  <2>1. r = posted
    BY <1>4 DEF SendPublish
  <2> QED BY <1>4, <2>1, AskSound
<1> QED BY <1>2, <1>3, <1>4

\* A publication is sent to a tab.
LEMMA TargetIsTab ==
  ASSUME Fixtures, NEW s, NEW w \in Tabs, NEW topic
  PROVE  PublishTarget(s, w, topic) \in Tabs
<1>1. Live(w) \subseteq Tabs
  BY DEF Live, Fixtures
<1> QED BY <1>1, Zenon DEF PublishTarget, CachedLive, IsLive

\* The route cache is no part of it.
LEMMA ResolvedSound ==
  ASSUME NEW s, NEW n, NEW held, Sound(s, n, held), NEW w, NEW topic
  PROVE  Sound(Resolved(s, w, topic), n, held)
<1> DEFINE r == Resolved(s, w, topic)
<1>1. PICK c : r = [s EXCEPT !.cache = c]
  BY DEF Resolved
<1> HIDE DEF r
<1>2. DOMAIN s = Fields
  BY DEF Sound, WellFormed
<1>3. DOMAIN r = Fields /\ \A f \in Fields \ {"cache"} : r[f] = s[f]
  BY <1>1, <1>2
<1>4. /\ r.link = s.link /\ r.fate = s.fate /\ r.ran = s.ran /\ r.fanned = s.fanned
      /\ r.key = s.key /\ r.wire = s.wire
  BY <1>3 DEF Fields
<1>5. WellFormed(r)
  BY <1>3, <1>4 DEF Sound, WellFormed
<1> QED BY <1>4, <1>5, SameSound DEF r

\* Whatever becomes of a publication, it becomes it once.
LEMMA ClusterPublishSound ==
  ASSUME Fixtures, NEW s, NEW n, NEW items \in Seq(Messages), Sound(s, n, Range(items)),
         NEW w \in Tabs, NEW topic \in Topics, NEW sent
  PROVE  Sound(ClusterPublish(s, w, topic, items, sent), n, {})
<1> DEFINE target == PublishTarget(s, w, topic)
           resolved == Resolved(s, w, topic)
<1>1. target \in Tabs /\ Sound(resolved, n, Range(items))
  BY TargetIsTab, ResolvedSound
<1> HIDE DEF target, resolved
<1>2. CASE topic \in assigned[w]
  BY <1>2, TransportPublishSound DEF ClusterPublish
<1>3. CASE topic \notin assigned[w] /\ target = w
  <2>1. Sound(TransportPublish(resolved, w, topic, items, sent), n, {})
    BY <1>1, TransportPublishSound
  <2> QED BY <1>3, <2>1 DEF ClusterPublish, target, resolved
<1>4. CASE topic \notin assigned[w] /\ target # w
  <2>1. Sound(SendPublish(resolved, w, target, topic, items), n, {})
    BY <1>1, SendPublishSound
  <2> QED BY <1>4, <2>1 DEF ClusterPublish, target, resolved
<1> QED BY <1>2, <1>3, <1>4

----------------------------------------------------------------------------
(* Functions of messages and events.                                       *)

\* A message calls each handler at most once.
LEMMA Dispatched ==
  ASSUME NEW s, WellFormed(s), NEW v \in Tabs, NEW m \in Messages, NEW r, r = Dispatch(s, v, m)
  PROVE  /\ WellFormed(r)
         /\ r.link = s.link /\ r.fate = s.fate /\ r.fanned = s.fanned
         /\ \A y \in Tabs, n \in Names, k \in Messages :
              /\ y # v \/ k # m => r.ran[y][n][k] = s.ran[y][n][k]
              /\ r.ran[y][n][k] <= s.ran[y][n][k] + 1
<1> DEFINE topic == made[m]
           calls(n) == (IF n = topic /\ n \in wants[v] THEN 1 ELSE 0)
                         + (IF n \in Wildcards(v, topic) THEN 1 ELSE 0)
           new == [n \in Names |-> [s.ran[v][n] EXCEPT ![m] = @ + calls(n)]]
<1>1. \A n : calls(n) \in {0, 1}
  BY DEF Wildcards
<1> HIDE DEF calls
<1>2. r = [s EXCEPT !.ran[v] = new]
  BY DEF Dispatch, calls
<1>3. s.ran \in [Tabs -> [Names -> [Messages -> Nat]]] /\ DOMAIN s = Fields
  BY DEF WellFormed
<1>4. ASSUME NEW n \in Names
      PROVE  /\ new[n] \in [Messages -> Nat]
             /\ \A k \in Messages : /\ k # m => new[n][k] = s.ran[v][n][k]
                                    /\ new[n][k] <= s.ran[v][n][k] + 1
  <2>1. s.ran[v][n] \in [Messages -> Nat] /\ calls(n) \in {0, 1}
    BY <1>1, <1>3
  <2>2. new[n] = [s.ran[v][n] EXCEPT ![m] = s.ran[v][n][m] + calls(n)]
    OBVIOUS
  <2> HIDE DEF new
  <2> QED BY <2>1, <2>2
<1>5. new \in [Names -> [Messages -> Nat]]
  <2>1. DOMAIN new = Names /\ new = [n \in Names |-> new[n]]
    OBVIOUS
  <2> HIDE DEF new
  <2> QED BY <1>4, <2>1
<1> HIDE DEF new
<1>6. /\ DOMAIN r = Fields /\ r.ran = [s.ran EXCEPT ![v] = new]
      /\ r.link = s.link /\ r.fate = s.fate /\ r.fanned = s.fanned
      /\ r.key = s.key /\ r.wire = s.wire
  BY <1>2, <1>3 DEF Fields
<1>7. WellFormed(r)
  BY <1>3, <1>5, <1>6 DEF WellFormed
<1>8. ASSUME NEW y \in Tabs, NEW n \in Names, NEW k \in Messages
      PROVE  /\ y # v \/ k # m => r.ran[y][n][k] = s.ran[y][n][k]
             /\ r.ran[y][n][k] <= s.ran[y][n][k] + 1
  <2>1. s.ran[y][n][k] \in Nat
    BY <1>3
  <2>2. r.ran[y] = IF y = v THEN new ELSE s.ran[y]
    BY <1>3, <1>6
  <2> QED BY <1>4, <2>1, <2>2
<1> QED BY <1>6, <1>7, <1>8

\* An event asks for no publication, and tells each other tab once.
LEMMA Broadcasted ==
  ASSUME Fixtures, NEW s, WellFormed(s), NEW w \in Tabs, NEW m \in Messages,
         NEW r, r = Broadcast(s, w, [kind |-> "event", item |-> m])
  PROVE  /\ WellFormed(r)
         /\ r.fate = s.fate /\ r.ran = s.ran /\ r.fanned = s.fanned
         /\ \A k : Carried(r, k) <=> Carried(s, k)
         /\ \A k : AskedOnce(s, k) => AskedOnce(r, k)
         /\ \A v \in Tabs, k \in Messages :
              /\ v = w \/ k # m
                   => Cardinality(ToldIn(r, v, k)) <= Cardinality(ToldIn(s, v, k))
              /\ Cardinality(ToldIn(r, v, k)) <= Cardinality(ToldIn(s, v, k)) + 1
<1> DEFINE frame == [kind |-> "event", item |-> m]
<1>1. frame \in Frames /\ (\A k : ~Asks(frame, k)) /\ \A k : Tells(frame, k) <=> k = m
  BY DEF Frames, Asks, Tells
<1> HIDE DEF frame
<1> DEFINE To(l) == l[1] = w /\ l[2] # w /\ Carries /\ Up(l[2])
<1>2. /\ WellFormed(r) /\ r.fate = s.fate /\ r.ran = s.ran /\ r.fanned = s.fanned
      /\ \A l \in Links : r.link[l] = IF To(l) THEN Append(s.link[l], frame) ELSE s.link[l]
  <2>1. CASE ~Carries
    BY <2>1 DEF Broadcast
  <2>2. CASE Carries
    <3> DEFINE others == Tabs \ {w}
    <3>1. r = Post(s, w, others, frame)
      BY <2>2 DEF Broadcast, frame
    <3>3. \A l \in Links : l[2] \in others <=> l[2] # w
      BY DEF Links
    <3> HIDE DEF others
    <3>2. /\ WellFormed(r)
          /\ \A f \in Fields \ {"key", "link"} : r[f] = s[f]
          /\ \A l \in Links : r.link[l] = IF l[1] = w /\ l[2] \in others /\ Up(l[2])
                                          THEN Append(s.link[l], frame) ELSE s.link[l]
      <4>1. ASSUME NEW p, p = Post(s, w, others, frame)
            PROVE  /\ WellFormed(p)
                   /\ \A f \in Fields \ {"key", "link"} : p[f] = s[f]
                   /\ \A l \in Links : p.link[l] = IF l[1] = w /\ l[2] \in others /\ Up(l[2])
                                                   THEN Append(s.link[l], frame) ELSE s.link[l]
        BY <1>1, <4>1, Posting
      <4> QED BY <3>1, <4>1
    <3>4. r.fate = s.fate /\ r.ran = s.ran /\ r.fanned = s.fanned
      BY <3>2 DEF Fields
    <3>5. \A l \in Links : r.link[l] = IF To(l) THEN Append(s.link[l], frame) ELSE s.link[l]
      BY <2>2, <3>2, <3>3
    <3> QED BY <3>2, <3>4, <3>5
  <2> QED BY <2>1, <2>2
<1> HIDE DEF To
<1>3. ASSUME NEW l \in Links
      PROVE  /\ Len(s.link[l]) \in Nat
             /\ Len(r.link[l]) = IF To(l) THEN Len(s.link[l]) + 1 ELSE Len(s.link[l])
             /\ \A i \in 1..Len(s.link[l]) : r.link[l][i] = s.link[l][i]
             /\ To(l) => r.link[l][Len(s.link[l]) + 1] = frame
  <2>1. s.link[l] \in Seq(Frames)
    BY DEF WellFormed
  <2>2. /\ Len(Append(s.link[l], frame)) = Len(s.link[l]) + 1
        /\ Append(s.link[l], frame)[Len(s.link[l]) + 1] = frame
        /\ \A i \in 1..Len(s.link[l]) : Append(s.link[l], frame)[i] = s.link[l][i]
    BY <1>1, <2>1, AppendProperties
  <2>3. Len(s.link[l]) \in Nat
    BY <2>1
  <2>4. r.link[l] = IF To(l) THEN Append(s.link[l], frame) ELSE s.link[l]
    BY <1>2
  <2> QED BY <2>2, <2>3, <2>4
<1>4. ASSUME NEW l \in Links, NEW i \in 1..Len(r.link[l])
      PROVE  \/ i \in 1..Len(s.link[l]) /\ r.link[l][i] = s.link[l][i]
             \/ To(l) /\ i = Len(s.link[l]) + 1 /\ r.link[l][i] = frame
  BY <1>3
<1>5. Unmoved \in [Links -> Nat] /\ \A l \in Links : Unmoved[l] = 0
  BY DEF Unmoved
<1>6. ASSUME NEW k
      PROVE  (Carried(r, k) <=> Carried(s, k)) /\ (AskedOnce(s, k) => AskedOnce(r, k))
  <2>1. \A l \in Links : \A i \in 1..Len(r.link[l]) : Asks(r.link[l][i], k) =>
          i + Unmoved[l] \in 1..Len(s.link[l]) /\ Asks(s.link[l][i + Unmoved[l]], k)
    <3> SUFFICES ASSUME NEW l \in Links, NEW i \in 1..Len(r.link[l]), Asks(r.link[l][i], k)
                 PROVE  /\ i + Unmoved[l] = i
                        /\ i \in 1..Len(s.link[l]) /\ Asks(s.link[l][i], k)
      OBVIOUS
    <3>1. i \in Int /\ Unmoved[l] = 0
      BY <1>5
    <3> QED BY <1>1, <1>4, <3>1
  <2>2. ASSUME NEW l \in Links, NEW i \in 1..Len(s.link[l]), Asks(s.link[l][i], k)
        PROVE  i \in 1..Len(r.link[l]) /\ Asks(r.link[l][i], k)
    BY <1>3, <2>2
  <2>3. Carried(s, k) => Carried(r, k)
    BY <2>2 DEF Carried
  <2>4. (Carried(r, k) => Carried(s, k)) /\ (AskedOnce(s, k) => AskedOnce(r, k))
    BY <1>5, <2>1, AskedStay
  <2> QED BY <2>3, <2>4
<1>7. ASSUME NEW v \in Tabs, NEW k \in Messages
      PROVE /\ v = w \/ k # m => Cardinality(ToldIn(r, v, k)) <= Cardinality(ToldIn(s, v, k))
            /\ Cardinality(ToldIn(r, v, k)) <= Cardinality(ToldIn(s, v, k)) + 1
  <2> DEFINE S == ToldIn(s, v, k)
             new == <<w, Len(s.link[<<w, v>>]) + 1>>
             T == IF v = w \/ k # m THEN S ELSE S \cup {new}
  <2>1. IsFiniteSet(S) /\ Cardinality(S) \in Nat
    BY ToldFinite
  <2>2. /\ IsFiniteSet(T)
        /\ v = w \/ k # m => Cardinality(T) <= Cardinality(S)
        /\ Cardinality(T) <= Cardinality(S) + 1
    <3> HIDE DEF S, new
    <3>1. IsFiniteSet(S \cup {new}) /\ Cardinality(S \cup {new}) <= Cardinality(S) + 1
      <4>1. /\ IsFiniteSet(S \cup {new})
            /\ Cardinality(S \cup {new}) = IF new \in S THEN Cardinality(S) ELSE Cardinality(S) + 1
        BY <2>1, FS_AddElement
      <4> QED BY <2>1, <4>1
    <3>2. CASE v = w \/ k # m
      BY <2>1, <3>2
    <3>3. CASE ~(v = w \/ k # m)
      BY <3>1, <3>3
    <3> QED BY <3>2, <3>3
  <2>3. ASSUME NEW y \in Tabs, NEW i \in 1..Len(r.link[<<y, v>>]), Tells(r.link[<<y, v>>][i], k)
        PROVE  <<y, i + Unmoved[<<y, v>>]>> \in T
    <3>1. <<y, v>> \in Links
      BY DEF Links
    <3>2. i + Unmoved[<<y, v>>] = i
      BY <1>5, <3>1
    <3>3. CASE i \in 1..Len(s.link[<<y, v>>]) /\ r.link[<<y, v>>][i] = s.link[<<y, v>>][i]
      <4>1. <<y, i>> \in S
        BY <2>3, <3>3, ToldPlaces
      <4> QED BY <3>2, <4>1
    <3>4. CASE To(<<y, v>>) /\ i = Len(s.link[<<y, v>>]) + 1 /\ r.link[<<y, v>>][i] = frame
      <4>1. k = m
        BY <1>1, <2>3, <3>4
      <4>2. y = w /\ v # w
        BY <3>4 DEF To
      <4> QED BY <3>2, <3>4, <4>1, <4>2
    <3> QED BY <1>4, <3>1, <3>3, <3>4
  <2> HIDE DEF T, S
  <2>4. Cardinality(ToldIn(r, v, k)) <= Cardinality(T)
    BY <1>5, <2>2, <2>3, ToldCount
  <2>5. IsFiniteSet(ToldIn(r, v, k)) /\ Cardinality(ToldIn(r, v, k)) \in Nat
    BY <1>2, ToldFinite
  <2>6. Cardinality(T) \in Nat
    BY <2>2, FS_CardinalityType
  <2> QED BY <2>1, <2>2, <2>4, <2>5, <2>6 DEF S
<1> QED BY <1>2, <1>6, <1>7

\* An accepted message is counted once, and calls or tells every tab once.
LEMMA AcceptSound ==
  ASSUME Fixtures, NEW s, NEW n, NEW held, Sound(s, n, held), NEW w \in Tabs, NEW m \in Messages
  PROVE  Sound(Accept(s, w, m), n, held)
<1> DEFINE counted == [s EXCEPT !.fanned[m] = @ + 1]
           told == Broadcast(counted, w, [kind |-> "event", item |-> m])
           r == Dispatch(told, w, m)
<1>1. CASE ~IsAssigned(w, made[m])
  BY <1>1 DEF Accept
<1>2. CASE IsAssigned(w, made[m])
  <2>1. Accept(s, w, m) = r
    BY <1>2 DEF Accept
  <2>2. /\ WellFormed(counted)
        /\ counted.link = s.link /\ counted.fate = s.fate /\ counted.ran = s.ran
        /\ counted.fanned = [s.fanned EXCEPT ![m] = @ + 1]
    <3>1. DOMAIN s = Fields /\ s.fanned \in [Messages -> Nat]
      BY DEF Sound, WellFormed
    <3>2. /\ DOMAIN counted = Fields /\ counted.fanned = [s.fanned EXCEPT ![m] = @ + 1]
          /\ \A f \in Fields \ {"fanned"} : counted[f] = s[f]
      BY <3>1 DEF Fields
    <3> HIDE DEF counted
    <3>3. /\ counted.link = s.link /\ counted.fate = s.fate /\ counted.ran = s.ran
          /\ counted.wire = s.wire /\ counted.key = s.key
      BY <3>2 DEF Fields
    <3>4. counted.fanned \in [Messages -> Nat]
      BY <3>1, <3>2
    <3> QED BY <3>2, <3>3, <3>4 DEF Sound, WellFormed
  <2> HIDE DEF counted
  <2>3. /\ WellFormed(told)
        /\ told.fate = counted.fate /\ told.ran = counted.ran /\ told.fanned = counted.fanned
        /\ \A k : Carried(told, k) <=> Carried(counted, k)
        /\ \A k : AskedOnce(counted, k) => AskedOnce(told, k)
        /\ \A v \in Tabs, k \in Messages :
             /\ v = w \/ k # m
                  => Cardinality(ToldIn(told, v, k)) <= Cardinality(ToldIn(counted, v, k))
             /\ Cardinality(ToldIn(told, v, k)) <= Cardinality(ToldIn(counted, v, k)) + 1
    BY <2>2, Broadcasted
  <2> HIDE DEF told
  <2>4. /\ WellFormed(r)
        /\ r.link = told.link /\ r.fate = told.fate /\ r.fanned = told.fanned
        /\ \A y \in Tabs, h \in Names, k \in Messages :
             /\ y # w \/ k # m => r.ran[y][h][k] = told.ran[y][h][k]
             /\ r.ran[y][h][k] <= told.ran[y][h][k] + 1
    BY <2>3, Dispatched
  <2> HIDE DEF r
  <2>5. ASSUME NEW k \in Messages PROVE Settled(r, n, held, k)
    <3>1. Settled(s, n, held, k)
      BY DEF Sound, Accounted
    <3>2. (Carried(counted, k) <=> Carried(s, k)) /\ (AskedOnce(counted, k) <=> AskedOnce(s, k))
      BY <2>2, SameFrames
    <3>3. (Carried(r, k) <=> Carried(told, k)) /\ (AskedOnce(r, k) <=> AskedOnce(told, k))
      BY <2>4, SameFrames
    <3>4. r.fate = s.fate
      BY <2>2, <2>3, <2>4
    <3>5. (Carried(r, k) <=> Carried(s, k)) /\ (AskedOnce(s, k) => AskedOnce(r, k))
      BY <2>3, <3>2, <3>3
    <3> QED BY <3>1, <3>4, <3>5 DEF Settled
  <2>6. ASSUME NEW v \in Tabs, NEW h \in Names, NEW k \in Messages
        PROVE  r.ran[v][h][k] + Cardinality(ToldIn(r, v, k)) <= r.fanned[k]
    <3> DEFINE R == r.ran[v][h][k]
               C == Cardinality(ToldIn(told, v, k))
               R0 == s.ran[v][h][k]
               C0 == Cardinality(ToldIn(s, v, k))
               F0 == s.fanned[k]
    <3>1. R0 + C0 <= F0
      BY DEF Sound, Called
    <3>2. ToldIn(r, v, k) = ToldIn(told, v, k) /\ ToldIn(counted, v, k) = ToldIn(s, v, k)
      BY <2>2, <2>4, SameFrames
    <3>3. R \in Nat /\ R0 \in Nat /\ F0 \in Nat
      <4>1. r.ran \in [Tabs -> [Names -> [Messages -> Nat]]]
        BY <2>4 DEF WellFormed
      <4>2. s.ran \in [Tabs -> [Names -> [Messages -> Nat]]] /\ s.fanned \in [Messages -> Nat]
        BY DEF Sound, WellFormed
      <4> QED BY <4>1, <4>2
    <3>4. C \in Nat /\ C0 \in Nat
      BY <2>3, ToldFinite DEF Sound
    <3>5. r.fanned[k] = IF k = m THEN F0 + 1 ELSE F0
      <4>1. s.fanned \in [Messages -> Nat]
        BY DEF Sound, WellFormed
      <4>2. r.fanned = [s.fanned EXCEPT ![m] = @ + 1]
        BY <2>2, <2>3, <2>4
      <4> QED BY <4>1, <4>2
    <3>6. /\ v # w \/ k # m => R = R0
          /\ R <= R0 + 1
      BY <2>2, <2>3, <2>4
    <3>7. /\ v = w \/ k # m => C <= C0
          /\ C <= C0 + 1
      BY <2>3, <3>2
    <3> HIDE DEF R, C, R0, C0, F0
    <3>8. R + C <= r.fanned[k]
      <4>1. CASE k # m
        BY <3>1, <3>3, <3>4, <3>5, <3>6, <3>7, <4>1
      <4>2. CASE k = m /\ v = w
        BY <3>1, <3>3, <3>4, <3>5, <3>6, <3>7, <4>2
      <4>3. CASE k = m /\ v # w
        BY <3>1, <3>3, <3>4, <3>5, <3>6, <3>7, <4>3
      <4> QED BY <4>1, <4>2, <4>3
    <3> QED BY <3>2, <3>8 DEF R, C
  <2>7. Sound(r, n, held)
    BY <2>4, <2>5, <2>6 DEF Sound, Accounted, Called
  <2> QED BY <2>1, <2>7
<1> QED BY <1>1, <1>2

\* What the window remembers is no part of it.
LEMMA HandleTransportMessageSound ==
  ASSUME Fixtures, NEW s, NEW n, NEW held, Sound(s, n, held), NEW w \in Tabs, NEW m \in Messages
  PROVE  Sound(HandleTransportMessage(s, w, m), n, held)
<1> DEFINE r == HandleTransportMessage(s, w, m)
           d == PruneExpired(s.window[w], Adaptive, now)
           kept == [s EXCEPT !.window[w] = d]
           known == [s EXCEPT !.window[w] = Remember(d, m, now),
                              !.log[w] = Append(@, [id |-> m, at |-> now])]
<1>1. r = Accept(s, w, m) \/ r = kept \/ r = Accept(known, w, m)
  BY DEF HandleTransportMessage
<1>2. DOMAIN s = Fields
  BY DEF Sound, WellFormed
<1>3. Sound(kept, n, held)
  <2>1. DOMAIN kept = Fields /\ \A f \in Fields \ {"window"} : kept[f] = s[f]
    BY <1>2
  <2> HIDE DEF kept
  <2>2. /\ kept.link = s.link /\ kept.fate = s.fate /\ kept.ran = s.ran
        /\ kept.fanned = s.fanned /\ kept.key = s.key /\ kept.wire = s.wire
    BY <2>1 DEF Fields
  <2>3. WellFormed(kept)
    BY <2>1, <2>2 DEF Sound, WellFormed
  <2> QED BY <2>2, <2>3, SameSound
<1>4. Sound(known, n, held)
  <2>1. PICK a, b : known = [s EXCEPT !.window = a, !.log = b]
    OBVIOUS
  <2> HIDE DEF known
  <2>2. DOMAIN known = Fields /\ \A f \in Fields \ {"window", "log"} : known[f] = s[f]
    BY <1>2, <2>1
  <2>3. /\ known.link = s.link /\ known.fate = s.fate /\ known.ran = s.ran
        /\ known.fanned = s.fanned /\ known.key = s.key /\ known.wire = s.wire
    BY <2>2 DEF Fields
  <2>4. WellFormed(known)
    BY <2>2, <2>3 DEF Sound, WellFormed
  <2> QED BY <2>3, <2>4, SameSound
<1>5. Sound(Accept(s, w, m), n, held) /\ Sound(Accept(known, w, m), n, held)
  BY <1>4, AcceptSound
<1> HIDE DEF r, kept, known
<1> QED BY <1>1, <1>3, <1>5 DEF r

----------------------------------------------------------------------------
(* Queues.                                                                 *)

\* A frame is taken from a queue.
Popping(h, l) == [h EXCEPT !.link[l] = Tail(@)]

\* What is left of the frames of h.
Rest(h, l0, s) ==
  /\ WellFormed(s) /\ Head(h.link[l0]) \in Frames
  /\ s.fate = h.fate /\ s.ran = h.ran /\ s.fanned = h.fanned
  /\ \A l \in Links : l # l0 => s.link[l] = h.link[l]
  /\ Len(h.link[l0]) \in Nat \ {0} /\ Len(s.link[l0]) = Len(h.link[l0]) - 1
  /\ \A i \in 1..Len(s.link[l0]) : s.link[l0][i] = h.link[l0][i + 1]

\* What a queue holds after its first frame is taken.
LEMMA Popped ==
  ASSUME NEW h, WellFormed(h), NEW l0 \in Links, h.link[l0] # <<>>
  PROVE  Rest(h, l0, Popping(h, l0))
<1> DEFINE s == Popping(h, l0)
<1>1. DOMAIN h = Fields /\ h.link \in [Links -> Seq(Frames)] /\ h.link[l0] \in Seq(Frames)
  BY DEF WellFormed
<1> DEFINE q == h.link[l0]
<1>2. /\ Head(q) \in Frames /\ Tail(q) \in Seq(Frames) /\ Len(Tail(q)) = Len(q) - 1
      /\ \A i \in 1..Len(Tail(q)) : Tail(q)[i] = q[i + 1]
  <2> HIDE DEF q
  <2> QED BY <1>1, HeadTailProperties DEF q
<1>3. Len(q) \in Nat \ {0}
  <2>1. q \in Seq(Frames) /\ q # <<>>
    BY <1>1
  <2> HIDE DEF q
  <2> QED BY <2>1, EmptySeq
<1>4. /\ DOMAIN s = Fields /\ s.link = [h.link EXCEPT ![l0] = Tail(q)]
      /\ \A f \in Fields \ {"link"} : s[f] = h[f]
  BY <1>1 DEF Fields, Popping
<1> HIDE DEF s
<1>5. /\ s.fate = h.fate /\ s.ran = h.ran /\ s.fanned = h.fanned
      /\ s.key = h.key /\ s.wire = h.wire
  BY <1>4 DEF Fields
<1>6. /\ s.link \in [Links -> Seq(Frames)] /\ s.link[l0] = Tail(q)
      /\ \A l \in Links : l # l0 => s.link[l] = h.link[l]
  <2> HIDE DEF q
  <2> QED BY <1>1, <1>2, <1>4
<1>7. WellFormed(s)
  BY <1>4, <1>5, <1>6 DEF WellFormed
<1> HIDE DEF q
<1>8. Rest(h, l0, s)
  BY <1>2, <1>3, <1>5, <1>6, <1>7 DEF Rest, q
<1> QED BY <1>8 DEF s

\* The frames of s are those of h but the first one of l0, each d[l] places up.
Shifted(h, l0, s, d) ==
  /\ d \in [Links -> Nat]
  /\ Head(h.link[l0]) = h.link[l0][1] /\ 1 \in 1..Len(h.link[l0])
  /\ \A l \in Links : \A i \in 1..Len(s.link[l]) :
       i + d[l] \in 1..Len(h.link[l]) /\ s.link[l][i] = h.link[l][i + d[l]]
       /\ ~(l = l0 /\ i + d[l] = 1)
  /\ \A l \in Links : \A i \in 1..Len(h.link[l]) : ~(l = l0 /\ i = 1) =>
       i - d[l] \in 1..Len(s.link[l]) /\ s.link[l][i - d[l]] = h.link[l][i]

\* That is what taking a frame does.
LEMMA Taken ==
  ASSUME NEW h, WellFormed(h), NEW l0 \in Links, h.link[l0] # <<>>
  PROVE  \E d : Shifted(h, l0, Popping(h, l0), d)
<1> DEFINE s == Popping(h, l0)
           d == [l \in Links |-> IF l = l0 THEN 1 ELSE 0]
<1>1. /\ \A l \in Links : l # l0 => s.link[l] = h.link[l]
      /\ Len(h.link[l0]) \in Nat \ {0} /\ Len(s.link[l0]) = Len(h.link[l0]) - 1
      /\ \A i \in 1..Len(s.link[l0]) : s.link[l0][i] = h.link[l0][i + 1]
  BY Popped DEF Rest
<1> HIDE DEF s
<1>2. Head(h.link[l0]) = h.link[l0][1]
  <2>1. h.link[l0] \in Seq(Frames)
    BY DEF WellFormed
  <2> QED BY <2>1
<1>5. d \in [Links -> Nat] /\ d[l0] = 1 /\ \A l \in Links : l # l0 => d[l] = 0
  OBVIOUS
<1> HIDE DEF d
<1>6. ASSUME NEW l \in Links, NEW i \in 1..Len(s.link[l])
      PROVE  i + d[l] \in 1..Len(h.link[l]) /\ s.link[l][i] = h.link[l][i + d[l]]
             /\ ~(l = l0 /\ i + d[l] = 1)
  <2>1. CASE l = l0
    BY <1>1, <1>5, <1>6, <2>1
  <2>2. CASE l # l0
    <3>1. i + d[l] = i
      BY <1>5, <2>2
    <3> QED BY <1>1, <1>6, <2>2, <3>1
  <2> QED BY <2>1, <2>2
<1>7. ASSUME NEW l \in Links, NEW i \in 1..Len(h.link[l]), ~(l = l0 /\ i = 1)
      PROVE  i - d[l] \in 1..Len(s.link[l]) /\ s.link[l][i - d[l]] = h.link[l][i]
  <2>1. CASE l = l0
    <3>1. i - 1 \in 1..Len(s.link[l0]) /\ (i - 1) + 1 = i
      BY <1>1, <1>7, <2>1
    <3>2. s.link[l0][i - 1] = h.link[l0][(i - 1) + 1]
      BY <1>1, <3>1
    <3> QED BY <1>5, <2>1, <3>1, <3>2
  <2>2. CASE l # l0
    <3>1. i - d[l] = i
      BY <1>5, <2>2
    <3> QED BY <1>1, <1>7, <2>2, <3>1
  <2> QED BY <2>1, <2>2
<1>8. 1 \in 1..Len(h.link[l0])
  BY <1>1
<1>9. Shifted(h, l0, s, d)
  BY <1>2, <1>5, <1>6, <1>7, <1>8 DEF Shifted
<1> QED BY <1>9 DEF s

\* Who is told of what loses at most the frame taken.
LEMMA TakenTold ==
  ASSUME NEW h, WellFormed(h), NEW x \in Tabs, NEW w \in Tabs, h.link[<<x, w>>] # <<>>,
         NEW v \in Tabs, NEW m
  PROVE  LET s == Popping(h, <<x, w>>)
         IN /\ Cardinality(ToldIn(s, v, m)) <= Cardinality(ToldIn(h, v, m))
            /\ v = w /\ Tells(Head(h.link[<<x, w>>]), m)
                 => Cardinality(ToldIn(s, v, m)) + 1 <= Cardinality(ToldIn(h, v, m))
<1> DEFINE l0 == <<x, w>>
           s == Popping(h, l0)
           S == ToldIn(h, v, m)
           T == IF v = w THEN S \ {<<x, 1>>} ELSE S
<1>1. l0 \in Links
  BY DEF Links
<1>2. PICK d : Shifted(h, l0, s, d)
  BY <1>1, Taken
<1>9. WellFormed(s)
  BY <1>1, Popped DEF Rest
<1> HIDE DEF s
<1>3. IsFiniteSet(S) /\ Cardinality(S) \in Nat
  BY ToldFinite
<1>4. ASSUME NEW y \in Tabs, NEW i \in 1..Len(s.link[<<y, v>>]), Tells(s.link[<<y, v>>][i], m)
      PROVE  <<y, i + d[<<y, v>>]>> \in T
  <2>1. <<y, v>> \in Links
    BY DEF Links
  <2>2. /\ i + d[<<y, v>>] \in 1..Len(h.link[<<y, v>>])
        /\ Tells(h.link[<<y, v>>][i + d[<<y, v>>]], m)
        /\ ~(<<y, v>> = l0 /\ i + d[<<y, v>>] = 1)
    BY <1>2, <1>4, <2>1 DEF Shifted
  <2>3. <<y, i + d[<<y, v>>]>> \in S
    BY <2>2, ToldPlaces
  <2>4. v = w => <<y, i + d[<<y, v>>]>> # <<x, 1>>
    BY <2>2
  <2> HIDE DEF S
  <2> QED BY <2>3, <2>4
<1>5. v = w /\ Tells(Head(h.link[l0]), m) => <<x, 1>> \in S
  <2> SUFFICES ASSUME v = w, Tells(Head(h.link[l0]), m) PROVE <<x, 1>> \in ToldIn(h, v, m)
    OBVIOUS
  <2>1. 1 \in 1..Len(h.link[<<x, v>>]) /\ Tells(h.link[<<x, v>>][1], m)
    BY <1>2 DEF Shifted
  <2> QED BY <2>1, ToldPlaces
<1> HIDE DEF S
<1>6. /\ IsFiniteSet(T) /\ Cardinality(T) \in Nat
      /\ Cardinality(T) <= Cardinality(S)
      /\ v = w /\ Tells(Head(h.link[l0]), m) => Cardinality(T) + 1 <= Cardinality(S)
  <2>1. /\ IsFiniteSet(S \ {<<x, 1>>})
        /\ Cardinality(S \ {<<x, 1>>}) = IF <<x, 1>> \in S THEN Cardinality(S) - 1 ELSE Cardinality(S)
    BY <1>3, FS_RemoveElement
  <2>2. Cardinality(S \ {<<x, 1>>}) \in Nat
    BY <2>1, FS_CardinalityType
  <2>3. CASE v = w
    BY <1>3, <1>5, <2>1, <2>2, <2>3
  <2>4. CASE v # w
    BY <1>3, <2>4
  <2> QED BY <2>3, <2>4
<1> HIDE DEF T
<1>7. Cardinality(ToldIn(s, v, m)) <= Cardinality(T)
  <2>1. d \in [Links -> Nat]
    BY <1>2 DEF Shifted
  <2> QED BY <1>4, <1>6, <2>1, ToldCount
<1>8. Cardinality(ToldIn(s, v, m)) \in Nat
  BY <1>9, ToldFinite
<1> QED BY <1>3, <1>6, <1>7, <1>8 DEF S, s, l0

\* Calls are among the acceptances still.
LEMMA TakenCalled ==
  ASSUME NEW h, WellFormed(h), Called(h), NEW x \in Tabs, NEW w \in Tabs,
         h.link[<<x, w>>] # <<>>
  PROVE  Called(Popping(h, <<x, w>>))
<1> DEFINE s == Popping(h, <<x, w>>)
<1>1. WellFormed(s) /\ s.ran = h.ran /\ s.fanned = h.fanned
  <2>1. <<x, w>> \in Links
    BY DEF Links
  <2> QED BY <2>1, Popped DEF Rest
<1>2. ASSUME NEW v \in Tabs, NEW t \in Names, NEW m \in Messages
      PROVE  s.ran[v][t][m] + Cardinality(ToldIn(s, v, m)) <= s.fanned[m]
  <2>1. h.ran[v][t][m] + Cardinality(ToldIn(h, v, m)) <= h.fanned[m]
    BY DEF Called
  <2>2. Cardinality(ToldIn(s, v, m)) \in Nat /\ Cardinality(ToldIn(h, v, m)) \in Nat
    BY <1>1, ToldFinite
  <2>3. h.ran[v][t][m] \in Nat /\ h.fanned[m] \in Nat
    BY DEF WellFormed
  <2>4. Cardinality(ToldIn(s, v, m)) <= Cardinality(ToldIn(h, v, m))
    BY TakenTold
  <2>5. s.ran[v][t][m] = h.ran[v][t][m] /\ s.fanned[m] = h.fanned[m]
    BY <1>1
  <2> HIDE DEF s
  <2> QED BY <2>1, <2>2, <2>3, <2>4, <2>5
<1> QED BY <1>2 DEF Called

\* A request that is taken from its queue is in hand.
LEMMA AskTaken ==
  ASSUME NEW h, NEW n, Sound(h, n, {}), NEW x \in Tabs, NEW w \in Tabs,
         h.link[<<x, w>>] # <<>>, Head(h.link[<<x, w>>]).kind = "publish"
  PROVE  /\ Head(h.link[<<x, w>>]).topic \in Topics
         /\ Head(h.link[<<x, w>>]).items \in Seq(Messages)
         /\ Sound(Popping(h, <<x, w>>), n, Range(Head(h.link[<<x, w>>]).items))
<1> DEFINE l0 == <<x, w>>
           frame == Head(h.link[l0])
           held == Range(frame.items)
           s == Popping(h, l0)
<1>0. WellFormed(h) /\ Called(h) /\ l0 \in Links
  BY DEF Sound, Links
<1>1. /\ WellFormed(s) /\ frame \in Frames
      /\ s.fate = h.fate /\ s.ran = h.ran /\ s.fanned = h.fanned
  BY <1>0, Popped DEF Rest
<1>2. PICK d : Shifted(h, l0, s, d)
  BY <1>0, Taken
<1>9. Called(s)
  BY <1>0, TakenCalled
<1> HIDE DEF l0, s
<1>3. frame.topic \in Topics /\ frame.items \in Seq(Messages)
  <2>1. frame.kind = "publish"
    BY DEF l0
  <2> HIDE DEF frame
  <2> QED BY <1>1, <2>1 DEF Frames
<1>4. \A m : Asks(frame, m) <=> m \in held
  <2>1. frame.kind = "publish"
    BY DEF l0
  <2> QED BY <2>1 DEF Asks
<1>5. /\ d \in [Links -> Nat] /\ frame = h.link[l0][1] /\ 1 \in 1..Len(h.link[l0])
      /\ \A l \in Links : \A i \in 1..Len(s.link[l]) :
           i + d[l] \in 1..Len(h.link[l]) /\ s.link[l][i] = h.link[l][i + d[l]]
           /\ ~(l = l0 /\ i + d[l] = 1)
      /\ \A l \in Links : \A i \in 1..Len(h.link[l]) : ~(l = l0 /\ i = 1) =>
           i - d[l] \in 1..Len(s.link[l]) /\ s.link[l][i - d[l]] = h.link[l][i]
  BY <1>2 DEF Shifted
<1> HIDE DEF frame, held
<1>8. ASSUME NEW m \in Messages PROVE Settled(s, n, held, m)
  <2>1. Settled(h, n, {}, m)
    BY DEF Sound, Accounted
  <2>2. /\ Carried(s, m) => Carried(h, m)
        /\ AskedOnce(h, m) => AskedOnce(s, m)
    <3>1. \A l \in Links : \A i \in 1..Len(s.link[l]) : Asks(s.link[l][i], m) =>
            i + d[l] \in 1..Len(h.link[l]) /\ Asks(h.link[l][i + d[l]], m)
      BY <1>5
    <3> QED BY <1>5, <3>1, AskedStay
  <2>3. m \in held => Carried(h, m) /\ ~Carried(s, m)
    <3> SUFFICES ASSUME m \in held PROVE Carried(h, m) /\ ~Carried(s, m)
      OBVIOUS
    <3>1. Asks(h.link[l0][1], m)
      BY <1>5, <1>4
    <3>2. Carried(h, m)
      BY <1>0, <1>5, <3>1 DEF Carried
    <3>3. ASSUME NEW l \in Links, NEW i \in 1..Len(s.link[l]), Asks(s.link[l][i], m)
          PROVE FALSE
      <4>1. /\ i + d[l] \in 1..Len(h.link[l]) /\ Asks(h.link[l][i + d[l]], m)
            /\ ~(l = l0 /\ i + d[l] = 1)
        BY <1>5, <3>3
      <4>2. AskedOnce(h, m)
        BY <2>1 DEF Settled
      <4>3. PICK j : j = i + d[l]
        OBVIOUS
      <4>4. j \in 1..Len(h.link[l]) /\ Asks(h.link[l][j], m) /\ ~(l = l0 /\ j = 1)
        BY <4>1, <4>3
      <4>5. l0 \in Links /\ 1 \in 1..Len(h.link[l0])
        BY <1>0, <1>5
      <4>6. l = l0 /\ j = 1
        BY <3>1, <4>2, <4>4, <4>5, Zenon DEF AskedOnce
      <4> QED BY <4>4, <4>6
    <3> QED BY <3>2, <3>3 DEF Carried
  <2>4. m \notin held => (Carried(h, m) => Carried(s, m))
    <3> SUFFICES ASSUME m \notin held, Carried(h, m) PROVE Carried(s, m)
      OBVIOUS
    <3>0. PICK l \in Links : \E i \in 1..Len(h.link[l]) : Asks(h.link[l][i], m)
      BY DEF Carried
    <3>1. PICK i \in 1..Len(h.link[l]) : Asks(h.link[l][i], m)
      BY <3>0
    <3>2. ~(l = l0 /\ i = 1)
      BY <1>5, <1>4, <3>1
    <3>3. i - d[l] \in 1..Len(s.link[l]) /\ Asks(s.link[l][i - d[l]], m)
      BY <1>5, <3>1, <3>2
    <3> QED BY <3>3 DEF Carried
  <2> QED BY <1>1, <2>1, <2>2, <2>3, <2>4 DEF Settled
<1> QED BY <1>1, <1>3, <1>8, <1>9 DEF Sound, Accounted, frame, held, s, l0

\* An event that is taken from its queue calls each handler at most once.
LEMMA EventTaken ==
  ASSUME NEW h, NEW n, Sound(h, n, {}), NEW x \in Tabs, NEW w \in Tabs,
         h.link[<<x, w>>] # <<>>, Head(h.link[<<x, w>>]).kind = "event"
  PROVE  LET s == Popping(h, <<x, w>>)
         IN Sound(s, n, {}) /\ Sound(Dispatch(s, w, Head(h.link[<<x, w>>]).item), n, {})
<1> DEFINE l0 == <<x, w>>
           frame == Head(h.link[l0])
           item == frame.item
           s == Popping(h, l0)
           r == Dispatch(s, w, item)
<1>0. WellFormed(h) /\ Called(h) /\ l0 \in Links /\ frame.kind = "event"
  BY DEF Sound, Links
<1>1. /\ WellFormed(s) /\ frame \in Frames
      /\ s.fate = h.fate /\ s.ran = h.ran /\ s.fanned = h.fanned
  BY <1>0, Popped DEF Rest
<1>2. PICK d : Shifted(h, l0, s, d)
  BY <1>0, Taken
<1>3. item \in Messages /\ (\A m : ~Asks(frame, m)) /\ Tells(frame, item)
  <2> HIDE DEF frame
  <2>1. item \in Messages
    BY <1>0, <1>1 DEF Frames
  <2> QED BY <1>0, <2>1 DEF Asks, Tells
<1>4. \A v \in Tabs, m \in Messages :
        /\ Cardinality(ToldIn(s, v, m)) <= Cardinality(ToldIn(h, v, m))
        /\ v = w /\ m = item
             => Cardinality(ToldIn(s, v, m)) + 1 <= Cardinality(ToldIn(h, v, m))
  BY <1>0, <1>3, TakenTold
<1>5. Called(s)
  BY <1>0, TakenCalled
<1>12. /\ d \in [Links -> Nat] /\ frame = h.link[l0][1]
      /\ \A l \in Links : \A i \in 1..Len(s.link[l]) :
           i + d[l] \in 1..Len(h.link[l]) /\ s.link[l][i] = h.link[l][i + d[l]]
      /\ \A place \in Links : \A j \in 1..Len(h.link[place]) : ~(place = l0 /\ j = 1) =>
           j - d[place] \in 1..Len(s.link[place]) /\ s.link[place][j - d[place]] = h.link[place][j]
  BY <1>2 DEF Shifted
<1> HIDE DEF frame, item, l0, s
<1>6. ASSUME NEW m \in Messages PROVE Settled(s, n, {}, m)
  <2>1. Settled(h, n, {}, m)
    BY DEF Sound, Accounted
  <2>2. /\ Carried(s, m) => Carried(h, m)
        /\ AskedOnce(h, m) => AskedOnce(s, m)
    <3>1. \A l \in Links : \A i \in 1..Len(s.link[l]) : Asks(s.link[l][i], m) =>
            i + d[l] \in 1..Len(h.link[l]) /\ Asks(h.link[l][i + d[l]], m)
      BY <1>12
    <3> QED BY <1>12, <3>1, AskedStay
  <2>3. Carried(h, m) => Carried(s, m)
    <3> SUFFICES ASSUME Carried(h, m) PROVE Carried(s, m)
      OBVIOUS
    <3>0. PICK l \in Links : \E i \in 1..Len(h.link[l]) : Asks(h.link[l][i], m)
      BY DEF Carried
    <3>1. PICK i \in 1..Len(h.link[l]) : Asks(h.link[l][i], m)
      BY <3>0
    <3>2. ~(l = l0 /\ i = 1)
      BY <1>12, <1>3, <3>1
    <3>3. i - d[l] \in 1..Len(s.link[l]) /\ s.link[l][i - d[l]] = h.link[l][i]
      BY <1>2, <3>2, Zenon DEF Shifted
    <3>4. Asks(s.link[l][i - d[l]], m)
      BY <3>1, <3>3
    <3> QED BY <3>3, <3>4 DEF Carried
  <2> QED BY <1>1, <2>1, <2>2, <2>3 DEF Settled
<1>7. Sound(s, n, {})
  BY <1>1, <1>5, <1>6 DEF Sound, Accounted
<1>8. /\ WellFormed(r)
      /\ r.link = s.link /\ r.fate = s.fate /\ r.fanned = s.fanned
      /\ \A y \in Tabs, t \in Names, k \in Messages :
           /\ y # w \/ k # item => r.ran[y][t][k] = s.ran[y][t][k]
           /\ r.ran[y][t][k] <= s.ran[y][t][k] + 1
  BY <1>1, <1>3, Dispatched
<1> HIDE DEF r
<1>9. ASSUME NEW m \in Messages PROVE Settled(r, n, {}, m)
  <2>1. (Carried(r, m) <=> Carried(s, m)) /\ (AskedOnce(r, m) <=> AskedOnce(s, m))
    BY <1>8, SameFrames
  <2> QED BY <1>6, <1>8, <2>1 DEF Settled
<1>10. ASSUME NEW v \in Tabs, NEW t \in Names, NEW m \in Messages
       PROVE  r.ran[v][t][m] + Cardinality(ToldIn(r, v, m)) <= r.fanned[m]
  <2> DEFINE C == Cardinality(ToldIn(s, v, m))
             C0 == Cardinality(ToldIn(h, v, m))
             R == r.ran[v][t][m]
             R0 == h.ran[v][t][m]
             F0 == h.fanned[m]
  <2>1. R0 + C0 <= F0
    BY <1>0 DEF Called
  <2>2. C \in Nat /\ C0 \in Nat
    BY <1>0, <1>1, ToldFinite
  <2>3. R \in Nat /\ R0 \in Nat /\ F0 \in Nat
    <3>1. r.ran \in [Tabs -> [Names -> [Messages -> Nat]]]
      BY <1>8 DEF WellFormed
    <3>2. h.ran \in [Tabs -> [Names -> [Messages -> Nat]]] /\ h.fanned \in [Messages -> Nat]
      BY <1>0 DEF WellFormed
    <3> QED BY <3>1, <3>2
  <2>4. C <= C0 /\ (v = w /\ m = item => C + 1 <= C0)
    BY <1>4
  <2>5. /\ v # w \/ m # item => R = R0
        /\ R <= R0 + 1 /\ r.fanned[m] = F0
    BY <1>1, <1>8
  <2>6. ToldIn(r, v, m) = ToldIn(s, v, m)
    BY <1>8, SameFrames
  <2> HIDE DEF C, C0, R, R0, F0
  <2>7. R + C <= r.fanned[m]
    <3>1. CASE v = w /\ m = item
      BY <2>1, <2>2, <2>3, <2>4, <2>5, <3>1
    <3>2. CASE v # w \/ m # item
      BY <2>1, <2>2, <2>3, <2>4, <2>5, <3>2
    <3> QED BY <3>1, <3>2
  <2> QED BY <2>6, <2>7 DEF C, R
<1>11. Sound(r, n, {})
  BY <1>8, <1>9, <1>10 DEF Sound, Accounted, Called
<1> QED BY <1>7, <1>11 DEF r, item, frame, s, l0

\* The publications a tab is asked for.
AskedOf(h, w) ==
  {m \in Messages : \E x \in Tabs : \E i \in 1..Len(h.link[<<x, w>>]) : Asks(h.link[<<x, w>>][i], m)}

\* The queues without those of w.
Silenced(h, w) == [h EXCEPT !.link = [l \in DOMAIN @ |-> IF l[2] = w THEN <<>> ELSE @[l]]]

\* They are those in its queues.
LEMMA AskedOfFrames ==
  ASSUME NEW h, WellFormed(h), NEW w \in Tabs
  PROVE  LET frames == UNION {Range(h.link[<<x, w>>]) : x \in Tabs}
         IN UNION {Range(f.items) : f \in {g \in frames : g.kind = "publish"}} = AskedOf(h, w)
<1> DEFINE frames == UNION {Range(h.link[<<x, w>>]) : x \in Tabs}
           asking == {g \in frames : g.kind = "publish"}
           asked == UNION {Range(f.items) : f \in asking}
<1>1. ASSUME NEW x \in Tabs
      PROVE  /\ h.link[<<x, w>>] \in Seq(Frames)
             /\ Range(h.link[<<x, w>>]) = {h.link[<<x, w>>][i] : i \in 1..Len(h.link[<<x, w>>])}
  <2>1. <<x, w>> \in Links
    BY DEF Links
  <2>2. h.link[<<x, w>>] \in Seq(Frames)
    BY <2>1 DEF WellFormed
  <2>3. DOMAIN h.link[<<x, w>>] = 1..Len(h.link[<<x, w>>])
    BY <2>2, LenProperties
  <2> QED BY <2>2, <2>3 DEF Range
<1>2. ASSUME NEW m \in asked PROVE m \in AskedOf(h, w)
  <2>1. PICK f \in asking : m \in Range(f.items)
    BY <1>2
  <2>2. f \in frames /\ f.kind = "publish"
    BY <2>1
  <2>3. PICK x \in Tabs : f \in Range(h.link[<<x, w>>])
    BY <2>2
  <2>4. PICK i \in 1..Len(h.link[<<x, w>>]) : f = h.link[<<x, w>>][i]
    BY <1>1, <2>3
  <2>5. f \in Frames
    BY <1>1, <2>4, ElementOfSeq
  <2>6. f.items \in Seq(Messages)
    BY <2>2, <2>5 DEF Frames
  <2>7. m \in Messages
    BY <2>1, <2>6 DEF Range
  <2>8. Asks(h.link[<<x, w>>][i], m)
    BY <2>1, <2>2, <2>4 DEF Asks
  <2> QED BY <2>7, <2>8 DEF AskedOf
<1>3. ASSUME NEW m \in AskedOf(h, w) PROVE m \in asked
  <2>1. PICK x \in Tabs : \E i \in 1..Len(h.link[<<x, w>>]) : Asks(h.link[<<x, w>>][i], m)
    BY <1>3 DEF AskedOf
  <2>2. PICK i \in 1..Len(h.link[<<x, w>>]) : Asks(h.link[<<x, w>>][i], m)
    BY <2>1
  <2> DEFINE f == h.link[<<x, w>>][i]
  <2>3. f.kind = "publish" /\ m \in Range(f.items)
    BY <2>2 DEF Asks
  <2>4. f \in Range(h.link[<<x, w>>])
    BY <1>1
  <2> HIDE DEF f
  <2>5. f \in asking
    BY <2>3, <2>4
  <2> HIDE DEF asking
  <2> QED BY <2>3, <2>5
<1> HIDE DEF asked
<1>4. asked = AskedOf(h, w)
  BY <1>2, <1>3
<1> QED BY <1>4 DEF asked

\* What a tab is asked for is in no queue to another tab.
LEMMA SilencedSound ==
  ASSUME NEW h, NEW n, Sound(h, n, {}), NEW w \in Tabs
  PROVE  Sound(Silenced(h, w), n, AskedOf(h, w))
<1> DEFINE q == Silenced(h, w)
           held == AskedOf(h, w)
<1>1. DOMAIN h = Fields /\ h.link \in [Links -> Seq(Frames)]
  BY DEF Sound, WellFormed
<1>2. /\ DOMAIN q = Fields
      /\ \A f \in Fields \ {"link"} : q[f] = h[f]
      /\ q.link = [l \in Links |-> IF l[2] = w THEN <<>> ELSE h.link[l]]
  BY <1>1 DEF Silenced, Fields
<1> HIDE DEF q
<1>3. q.fate = h.fate /\ q.ran = h.ran /\ q.fanned = h.fanned /\ q.key = h.key /\ q.wire = h.wire
  BY <1>2 DEF Fields
<1>4. q.link \in [Links -> Seq(Frames)]
  <2>1. ASSUME NEW l \in Links PROVE (IF l[2] = w THEN <<>> ELSE h.link[l]) \in Seq(Frames)
    <3>1. h.link[l] \in Seq(Frames) /\ <<>> \in Seq(Frames)
      BY <1>1, EmptySeq
    <3> QED BY <3>1
  <2> QED BY <1>2, <2>1
<1>5. WellFormed(q)
  BY <1>2, <1>3, <1>4 DEF Sound, WellFormed
<1>6. ASSUME NEW l \in Links, NEW i \in 1..Len(q.link[l])
      PROVE  l[2] # w /\ q.link[l] = h.link[l]
  <2>1. Len(<<>>) = 0
    BY EmptySeq
  <2>2. l[2] = w => q.link[l] = <<>>
    BY <1>2
  <2>3. l[2] # w
    BY <1>6, <2>1, <2>2
  <2> QED BY <1>2, <2>3
<1>7. \A l \in Links : l[2] # w => q.link[l] = h.link[l]
  BY <1>2
<1>8. Unmoved \in [Links -> Nat] /\ \A l \in Links : Unmoved[l] = 0
  BY DEF Unmoved
<1>9. ASSUME NEW m \in Messages PROVE Settled(q, n, held, m)
  <2>1. Settled(h, n, {}, m)
    BY DEF Sound, Accounted
  <2>2. /\ Carried(q, m) => Carried(h, m)
        /\ AskedOnce(h, m) => AskedOnce(q, m)
    <3>1. \A l \in Links : \A i \in 1..Len(q.link[l]) : Asks(q.link[l][i], m) =>
            i + Unmoved[l] \in 1..Len(h.link[l]) /\ Asks(h.link[l][i + Unmoved[l]], m)
      <4> SUFFICES ASSUME NEW l \in Links, NEW i \in 1..Len(q.link[l]), Asks(q.link[l][i], m)
                   PROVE  i + Unmoved[l] \in 1..Len(h.link[l]) /\ Asks(h.link[l][i + Unmoved[l]], m)
        OBVIOUS
      <4>1. i + Unmoved[l] = i
        BY <1>8
      <4> QED BY <1>6, <4>1
    <3> QED BY <1>8, <3>1, AskedStay
  <2>3. m \in held => Carried(h, m) /\ ~Carried(q, m)
    <3> SUFFICES ASSUME m \in held PROVE Carried(h, m) /\ ~Carried(q, m)
      OBVIOUS
    <3>1. PICK x \in Tabs : \E i \in 1..Len(h.link[<<x, w>>]) : Asks(h.link[<<x, w>>][i], m)
      BY DEF AskedOf
    <3> DEFINE l0 == <<x, w>>
    <3>2. PICK i0 \in 1..Len(h.link[l0]) : Asks(h.link[l0][i0], m)
      BY <3>1
    <3>3. l0 \in Links /\ l0[2] = w
      BY DEF Links
    <3> HIDE DEF l0
    <3>4. Carried(h, m)
      BY <3>2, <3>3 DEF Carried
    <3>5. ASSUME NEW l \in Links, NEW i \in 1..Len(q.link[l]), Asks(q.link[l][i], m) PROVE FALSE
      <4>1. l[2] # w /\ i \in 1..Len(h.link[l]) /\ Asks(h.link[l][i], m)
        BY <1>6, <3>5
      <4>2. AskedOnce(h, m)
        BY <2>1 DEF Settled
      <4>3. l = l0
        BY <3>2, <3>3, <4>1, <4>2, Zenon DEF AskedOnce
      <4> QED BY <3>3, <4>1, <4>3
    <3> QED BY <3>4, <3>5 DEF Carried
  <2>4. m \notin held => (Carried(h, m) => Carried(q, m))
    <3> SUFFICES ASSUME m \notin held, Carried(h, m) PROVE Carried(q, m)
      OBVIOUS
    <3>1. PICK l \in Links : \E i \in 1..Len(h.link[l]) : Asks(h.link[l][i], m)
      BY DEF Carried
    <3>2. l[2] # w
      <4> SUFFICES ASSUME l[2] = w PROVE m \in held
        OBVIOUS
      <4>1. l[1] \in Tabs /\ l = <<l[1], w>>
        BY DEF Links
      <4> QED BY <3>1, <4>1 DEF AskedOf
    <3>3. q.link[l] = h.link[l]
      BY <1>7, <3>2
    <3> QED BY <3>1, <3>3 DEF Carried
  <2>5. m \in held => m <= n
    BY <2>1, <2>3 DEF Settled
  <2> HIDE DEF held
  <2> QED BY <1>3, <2>1, <2>2, <2>3, <2>4, <2>5 DEF Settled
<1>10. ASSUME NEW v \in Tabs, NEW t \in Names, NEW m \in Messages
       PROVE  q.ran[v][t][m] + Cardinality(ToldIn(q, v, m)) <= q.fanned[m]
  <2> DEFINE C == Cardinality(ToldIn(q, v, m))
             C0 == Cardinality(ToldIn(h, v, m))
             R0 == h.ran[v][t][m]
             F0 == h.fanned[m]
  <2>1. R0 + C0 <= F0
    BY DEF Sound, Called
  <2>2. IsFiniteSet(ToldIn(h, v, m)) /\ C \in Nat /\ C0 \in Nat
    BY <1>5, ToldFinite DEF Sound
  <2>3. R0 \in Nat /\ F0 \in Nat
    BY DEF Sound, WellFormed
  <2>4. C <= C0
    <3>1. ASSUME NEW y \in Tabs, NEW i \in 1..Len(q.link[<<y, v>>]), Tells(q.link[<<y, v>>][i], m)
          PROVE  <<y, i + Unmoved[<<y, v>>]>> \in ToldIn(h, v, m)
      <4>1. <<y, v>> \in Links
        BY DEF Links
      <4>2. i + Unmoved[<<y, v>>] = i
        BY <1>8, <4>1
      <4>3. i \in 1..Len(h.link[<<y, v>>]) /\ Tells(h.link[<<y, v>>][i], m)
        BY <1>6, <3>1, <4>1
      <4> QED BY <4>2, <4>3, ToldPlaces
    <3> QED BY <1>8, <2>2, <3>1, ToldCount
  <2>5. q.ran[v][t][m] = R0 /\ q.fanned[m] = F0
    BY <1>3
  <2> HIDE DEF C, C0, R0, F0
  <2>6. R0 + C <= F0
    BY <2>1, <2>2, <2>3, <2>4
  <2> QED BY <2>5, <2>6 DEF C
<1> QED BY <1>5, <1>9, <1>10 DEF Sound, Accounted, Called, q

\* What a tab leaves unread is given up.
LEMMA DeafSound ==
  ASSUME NEW h, NEW n, Sound(h, n, {}), NEW w \in Tabs
  PROVE  Sound(Deaf(h, w), n, {})
<1> DEFINE asked == AskedOf(h, w)
           q == Silenced(h, w)
           g == GiveUp(q, asked)
           u == GiveUp(h, asked)
           r == Deaf(h, w)
           closing == IF setup.channel = "storage" /\ Up(w) THEN h.key.closing \cup {w}
                      ELSE h.key.closing
<1>1. Sound(g, n, {})
  BY SilencedSound, GiveUpSound
<1>2. DOMAIN h = Fields /\ WellFormed(h) /\ KeyOK(h.key) /\ h.wire \in [Tabs -> Seq(Messages)]
  BY DEF Sound, WellFormed
<1>3. /\ DOMAIN u = Fields /\ u.link = h.link /\ u.wire = h.wire /\ u.key = h.key
      /\ u.ran = h.ran /\ u.fanned = h.fanned /\ u.fate = g.fate
      /\ g.link = q.link /\ g.ran = h.ran /\ g.fanned = h.fanned
  <2> HIDE DEF asked
  <2> QED BY <1>2 DEF GiveUp, Silenced, Fields
<1>4. r = [u EXCEPT
            !.link = [l \in DOMAIN @ |-> IF l[2] = w THEN <<>> ELSE @[l]],
            !.key.closing = IF setup.channel = "storage" /\ Up(w) THEN @ \cup {w} ELSE @,
            !.wire[w] = <<>>, !.cache[w] = <<>>]
  BY <1>2, AskedOfFrames, Zenon DEF Deaf
<1>5. q.link = [l \in DOMAIN h.link |-> IF l[2] = w THEN <<>> ELSE h.link[l]]
  BY <1>2 DEF Silenced, Fields
<1> HIDE DEF q, g, u, asked, r
<1>6. PICK c : r = [u EXCEPT !.link = q.link, !.key = [h.key EXCEPT !.closing = closing],
                             !.wire = [h.wire EXCEPT ![w] = <<>>], !.cache = c]
  BY <1>2, <1>3, <1>4, <1>5 DEF Fields
<1>7. /\ DOMAIN r = Fields /\ r.link = q.link /\ r.fate = g.fate /\ r.ran = h.ran
      /\ r.fanned = h.fanned /\ r.key = [h.key EXCEPT !.closing = closing]
      /\ r.wire = [h.wire EXCEPT ![w] = <<>>]
  BY <1>3, <1>6 DEF Fields
<1>8. KeyOK(r.key)
  <2>1. closing \subseteq Tabs
    BY <1>2 DEF KeyOK
  <2> HIDE DEF closing
  <2> QED BY <1>2, <1>7, <2>1 DEF KeyOK
<1>9. r.wire \in [Tabs -> Seq(Messages)]
  <2>1. <<>> \in Seq(Messages)
    BY EmptySeq
  <2> QED BY <1>2, <1>7, <2>1
<1>10. WellFormed(r)
  BY <1>1, <1>3, <1>7, <1>8, <1>9 DEF Sound, WellFormed
<1> QED BY <1>1, <1>3, <1>7, <1>10, SameSound DEF r

----------------------------------------------------------------------------
(* Actions.                                                                *)

\* The fields of the record of variables.
LEMMA Fields0 ==
  /\ DOMAIN Here = Fields
  /\ Here.cache = cache /\ Here.window = window /\ Here.link = link /\ Here.key = key
  /\ Here.wire = wire /\ Here.fate = fate /\ Here.fanned = fanned /\ Here.ran = ran
  /\ Here.log = log /\ Here.due = due
BY DEF Here, Fields

\* The invariant says that the record of variables is sound.
LEMMA HereSound ==
  ASSUME Inv PROVE Sound(Here, Len(made), {})
BY DEF Inv, Sound

\* It is so after an action whose function leaves a sound record.
LEMMA BecomeSound ==
  ASSUME NEW r, Become(r), Sound(r, Len(made'), {}), Fixtures'
  PROVE  Inv'
<1> DEFINE h == Here'
<1>1. /\ DOMAIN h = Fields
      /\ h.link = r.link /\ h.key = r.key /\ h.wire = r.wire /\ h.fate = r.fate
      /\ h.fanned = r.fanned /\ h.ran = r.ran
  BY DEF Become, Here, Fields
<1> HIDE DEF h
<1>2. WellFormed(r)
  BY DEF Sound
<1>3. WellFormed(h)
  BY <1>1, <1>2 DEF WellFormed
<1>4. Sound(h, Len(made'), {})
  BY <1>1, <1>3, SameSound
<1> QED BY <1>4 DEF Inv, Sound, h

\* The same, when no publication is made.
LEMMA Step ==
  ASSUME Inv, NEW r, Become(r), Sound(r, Len(made), {}), UNCHANGED made, Fixtures'
  PROVE  Inv'
BY BecomeSound

\* What the invariant says of tabs, names and routes stays when they do.
LEMMA FixturesStay ==
  ASSUME Inv, Setup, UNCHANGED made, Owners
  PROVE  Fixtures'
BY DEF Inv, Fixtures, Setup, Owners

\* Functions that touch none of the counted fields.
LEMMA Quiet ==
  ASSUME NEW h, NEW n, Sound(h, n, {}), NEW r, DOMAIN r = Fields,
         r.link = h.link, r.key = h.key, r.fate = h.fate, r.fanned = h.fanned, r.ran = h.ran,
         r.wire \in [Tabs -> Seq(Messages)]
  PROVE  Sound(r, n, {})
<1>1. WellFormed(r)
  BY DEF Sound, WellFormed
<1> QED BY <1>1, SameSound

\* New publications are in hand.
LEMMA Making ==
  ASSUME Inv, NEW topic \in Topics, NEW n \in 1..MaxBatch, Len(made) + n <= setup.messages,
         NEW items, items = [i \in 1..n |-> Len(made) + i],
         made' = made \o [i \in 1..n |-> topic]
  PROVE  /\ items \in Seq(Messages) /\ Sound(Here, Len(made'), Range(items))
         /\ made' \in Seq(Topics) /\ Len(made') <= MaxMessages
<1> DEFINE N == Len(made)
           held == Range(items)
           more == [i \in 1..n |-> topic]
<1>1. N \in Nat /\ made \in Seq(Topics) /\ N + n <= MaxMessages /\ n \in Nat
  <2>1. made \in Seq(Topics) /\ setup \in Setups
    BY DEF Inv, Fixtures
  <2>2. setup.messages \in 0..MaxMessages /\ MaxMessages \in Nat /\ MaxBatch \in Nat
    BY <2>1, DeliveryAssumption
  <2>3. N \in Nat
    BY <2>1, LenProperties
  <2> QED BY <2>1, <2>2, <2>3
<1>2. more \in Seq(Topics) /\ Len(more) = n
  BY <1>1
<1>3. made' \in Seq(Topics) /\ Len(made') = N + n
  <2> HIDE DEF more
  <2>1. made' = made \o more
    BY DEF more
  <2> QED BY <1>1, <1>2, <2>1, ConcatProperties
<1>0. items = [i \in 1..n |-> N + i]
  OBVIOUS
<1> HIDE DEF N, more
<1>4. items \in [1..n -> Messages] /\ \A i \in 1..n : items[i] = N + i
  <2>1. \A i \in 1..n : N + i \in Messages
    BY <1>1, DeliveryAssumption DEF Messages
  <2> QED BY <1>0, <2>1
<1>5. items \in Seq(Messages)
  <2>1. \A S : [1..n -> S] \subseteq Seq(S)
    BY <1>1
  <2> QED BY <1>4, <2>1
<1>6. \A m : m \in held <=> \E i \in 1..n : m = N + i
  BY <1>4 DEF Range
<1>7. \A m \in Messages : m \in held <=> m > N /\ m <= N + n
  <2>1. ASSUME NEW m \in Messages, m \in held PROVE m > N /\ m <= N + n
    BY <1>1, <1>6, <2>1
  <2>2. ASSUME NEW m \in Messages, m > N, m <= N + n PROVE m \in held
    <3>1. m - N \in 1..n /\ m = N + (m - N)
      BY <1>1, <2>2 DEF Messages
    <3> QED BY <1>6, <3>1
  <2> QED BY <2>1, <2>2
<1> HIDE DEF held
<1>8. ASSUME NEW m \in Messages PROVE Settled(Here, N + n, held, m)
  <2>1. Settled(Here, N, {}, m)
    BY DEF Inv, Accounted, N
  <2>2. m \in Nat
    BY DEF Messages
  <2>3. m <= N => m <= N + n
    BY <1>1, <2>2
  <2>4. CASE m <= N
    <3>1. m \notin held
      BY <1>1, <1>7, <2>2, <2>4
    <3> QED BY <2>1, <2>3, <2>4, <3>1 DEF Settled
  <2>5. CASE ~(m <= N)
    <3>1. m <= N + n <=> m \in held
      BY <1>1, <1>7, <2>2, <2>5
    <3> QED BY <2>1, <2>5, <3>1 DEF Settled
  <2> QED BY <2>4, <2>5
<1> QED BY <1>1, <1>3, <1>5, <1>8 DEF Inv, Sound, Accounted, held

\* Publications are made by tabs that run or are suspended.
LEMMA PublishStep ==
  ASSUME Inv, NEW w \in Tabs, NEW topic \in Topics, NEW n \in 1..MaxBatch,
         Publish(w, topic, n) \/ PublishRejected(w, topic, n)
  PROVE  Inv'
<1> DEFINE items == [i \in 1..n |-> Len(made) + i]
<1>1. /\ Len(made) + n <= setup.messages /\ made' = made \o [i \in 1..n |-> topic]
      /\ Setup /\ Owners
  BY DEF Publish, PublishRejected, Fixed
<1>2. /\ items \in Seq(Messages) /\ Sound(Here, Len(made'), Range(items))
      /\ made' \in Seq(Topics) /\ Len(made') <= MaxMessages
  BY <1>1, Making
<1>3. Fixtures'
  BY <1>1, <1>2 DEF Inv, Fixtures, Setup, Owners
<1>4. Fixtures
  BY DEF Inv
<1>5. CASE Publish(w, topic, n)
  <2>1. PICK sent \in BOOLEAN : Become(ClusterPublish(Here, w, topic, items, sent))
    BY <1>5 DEF Publish
  <2> HIDE DEF items
  <2>2. Sound(ClusterPublish(Here, w, topic, items, sent), Len(made'), {})
    BY <1>2, <1>4, ClusterPublishSound
  <2> QED BY <1>3, <2>1, <2>2, BecomeSound
<1>6. CASE PublishRejected(w, topic, n)
  <2>1. Become(GiveUp(Here, Range(items)))
    BY <1>6 DEF PublishRejected
  <2> HIDE DEF items
  <2>2. Sound(GiveUp(Here, Range(items)), Len(made'), {})
    BY <1>2, GiveUpSound
  <2> QED BY <1>3, <2>1, <2>2, BecomeSound
<1> QED BY <1>5, <1>6

\* A message of the transport is one that was published.
LEMMA ArriveStep ==
  ASSUME Inv, NEW w \in Tabs, Arrive(w)
  PROVE  Inv'
<1> DEFINE s == [Here EXCEPT !.wire[w] = Tail(@)]
           m == Head(wire[w])
<1>1. Become(HandleTransportMessage(s, w, m)) /\ UNCHANGED made /\ Setup /\ Owners /\ wire[w] # <<>>
  BY DEF Arrive, Fixed
<1>2. wire \in [Tabs -> Seq(Messages)] /\ Fixtures
  BY Fields0 DEF Inv, WellFormed
<1>3. m \in Messages /\ Tail(wire[w]) \in Seq(Messages)
  <2>1. wire[w] \in Seq(Messages)
    BY <1>2
  <2> QED BY <1>1, <2>1, HeadTailProperties
<1>4. Sound(s, Len(made), {})
  <2>1. /\ DOMAIN s = Fields /\ s.wire = [wire EXCEPT ![w] = Tail(wire[w])]
        /\ \A f \in Fields \ {"wire"} : s[f] = Here[f]
    BY Fields0 DEF Fields
  <2> HIDE DEF s
  <2>2. s.wire \in [Tabs -> Seq(Messages)]
    BY <1>2, <1>3, <2>1
  <2>3. /\ s.link = Here.link /\ s.key = Here.key /\ s.fate = Here.fate
        /\ s.fanned = Here.fanned /\ s.ran = Here.ran
    BY <2>1 DEF Fields
  <2> QED BY <2>1, <2>2, <2>3, HereSound, Quiet
<1> HIDE DEF s, m
<1>5. Sound(HandleTransportMessage(s, w, m), Len(made), {})
  BY <1>2, <1>3, <1>4, HandleTransportMessageSound
<1> QED BY <1>1, <1>5, FixturesStay, Step

\* A frame is obeyed.
LEMMA ReceiveStep ==
  ASSUME Inv, NEW x \in Tabs, NEW w \in Tabs, Receive(x, w)
  PROVE  Inv'
<1> DEFINE frame == Head(link[<<x, w>>])
           s == Popping(Here, <<x, w>>)
<1>1. /\ Here.link = link /\ link[<<x, w>>] # <<>> /\ Sound(Here, Len(made), {}) /\ Fixtures
      /\ s = [Here EXCEPT !.link[<<x, w>>] = Tail(@)]
  BY HereSound, Fields0 DEF Receive, Inv, Popping
<1>2. /\ UNCHANGED made /\ Setup /\ Owners
      /\ \/ /\ frame.kind = "publish"
            /\ \E sent \in BOOLEAN :
                 Become(TransportPublish(s, w, frame.topic, frame.items, sent))
         \/ /\ frame.kind = "event"
            /\ Become(IF HasLocalSubscriber(w, made[frame.item]) THEN Dispatch(s, w, frame.item)
                      ELSE s)
  BY <1>1 DEF Receive, Fixed
<1> HIDE DEF s
<1>3. CASE frame.kind = "publish"
  <2>1. frame.items \in Seq(Messages) /\ Sound(s, Len(made), Range(frame.items))
    BY <1>1, <1>3, AskTaken DEF s
  <2>2. PICK sent \in BOOLEAN : Become(TransportPublish(s, w, frame.topic, frame.items, sent))
    BY <1>2, <1>3
  <2> HIDE DEF frame
  <2>3. Sound(TransportPublish(s, w, frame.topic, frame.items, sent), Len(made), {})
    BY <1>1, <2>1, TransportPublishSound
  <2> QED BY <1>2, <2>2, <2>3, FixturesStay, Step
<1>4. CASE frame.kind = "event"
  <2>1. Sound(s, Len(made), {}) /\ Sound(Dispatch(s, w, frame.item), Len(made), {})
    BY <1>1, <1>4, EventTaken DEF s
  <2>2. Become(s) \/ Become(Dispatch(s, w, frame.item))
    BY <1>2, <1>4
  <2> HIDE DEF frame
  <2>3. CASE Become(s)
    BY <1>2, <2>1, <2>3, FixturesStay, Step
  <2>4. CASE Become(Dispatch(s, w, frame.item))
    BY <1>2, <2>1, <2>4, FixturesStay, Step
  <2> QED BY <2>2, <2>3, <2>4
<1> QED BY <1>2, <1>3, <1>4

\* The server repeats a publication.
LEMMA RedeliverStep ==
  ASSUME Inv, NEW w \in Tabs, NEW m \in 1..Len(made), Redeliver(w, m)
  PROVE  Inv'
<1> DEFINE s == [Here EXCEPT !.wire[w] = Append(@, m)]
<1>1. Become(s) /\ UNCHANGED made /\ Setup /\ Owners
  BY DEF Redeliver
<1>2. wire \in [Tabs -> Seq(Messages)] /\ m \in Messages
  <2>1. made \in Seq(Topics) /\ Len(made) <= MaxMessages /\ MaxMessages \in Nat
    BY DeliveryAssumption DEF Inv, Fixtures
  <2>2. Len(made) \in Nat
    BY <2>1, LenProperties
  <2> QED BY <2>1, <2>2, Fields0 DEF Inv, WellFormed, Messages
<1>3. /\ DOMAIN s = Fields /\ s.wire = [wire EXCEPT ![w] = Append(wire[w], m)]
      /\ \A f \in Fields \ {"wire"} : s[f] = Here[f]
  BY Fields0 DEF Fields
<1> HIDE DEF s
<1>4. s.wire \in [Tabs -> Seq(Messages)]
  BY <1>2, <1>3
<1>5. /\ s.link = Here.link /\ s.key = Here.key /\ s.fate = Here.fate
      /\ s.fanned = Here.fanned /\ s.ran = Here.ran
  BY <1>3 DEF Fields
<1>6. Sound(s, Len(made), {})
  BY <1>3, <1>4, <1>5, HereSound, Quiet
<1> QED BY <1>1, <1>6, FixturesStay, Step

\* Actions that change what a tab remembers, and none of the counted fields.
LEMMA QuietStep ==
  ASSUME Inv, NEW r, Become(r), UNCHANGED made, Fixtures',
         NEW a, NEW b, r = [Here EXCEPT !.window = a, !.log = b]
  PROVE  Inv'
<1>1. /\ DOMAIN r = Fields /\ r.wire = Here.wire
      /\ r.link = Here.link /\ r.key = Here.key /\ r.fate = Here.fate
      /\ r.fanned = Here.fanned /\ r.ran = Here.ran
  BY Fields0 DEF Fields
<1>2. Here.wire \in [Tabs -> Seq(Messages)]
  BY DEF Inv, WellFormed
<1>3. Sound(r, Len(made), {})
  BY <1>1, <1>2, HereSound, Quiet
<1> QED BY <1>3, Step

\* Actions that change who runs, owns or listens.
LEMMA PlaceStep ==
  ASSUME Inv, Become(Here), UNCHANGED made, Fixtures'
  PROVE  Inv'
BY HereSound, Step

\* Windows are swept and emptied.
LEMMA WindowStep ==
  ASSUME Inv, NEW w \in Tabs,
         Sweep(w) \/ GetDedupStats(w) \/ ResetDedup(w) \/ Stopped(w)
  PROVE  Inv'
<1>1. Sweep(w) \/ GetDedupStats(w) \/ ResetDedup(w) => Fixtures' /\ UNCHANGED made
  BY FixturesStay DEF Sweep, GetDedupStats, ResetDedup, Fixed, Churns
<1>2. Stopped(w) => Fixtures' /\ UNCHANGED made
  BY DEF Stopped, Inv, Fixtures, Fixed, Setup
<1>3. CASE Sweep(w)
  <2> DEFINE r == [Here EXCEPT !.window[w] = PruneExpired(@, Adaptive, now)]
  <2>1. Become(r)
    BY <1>3 DEF Sweep
  <2>2. \E a, b : r = [Here EXCEPT !.window = a, !.log = b]
    <3>1. r = [Here EXCEPT !.window = [Here.window EXCEPT ![w] = PruneExpired(@, Adaptive, now)],
                           !.log = Here.log]
      BY Fields0 DEF Fields
    <3> QED BY <3>1
  <2> HIDE DEF r
  <2> QED BY <1>1, <1>3, <2>1, <2>2, QuietStep
<1>4. CASE GetDedupStats(w)
  <2> DEFINE r == [Here EXCEPT !.window[w] = Rolled(@, Adaptive, now)]
  <2>1. Become(r)
    BY <1>4 DEF GetDedupStats
  <2>2. \E a, b : r = [Here EXCEPT !.window = a, !.log = b]
    <3>1. r = [Here EXCEPT !.window = [Here.window EXCEPT ![w] = Rolled(@, Adaptive, now)],
                           !.log = Here.log]
      BY Fields0 DEF Fields
    <3> QED BY <3>1
  <2> HIDE DEF r
  <2> QED BY <1>1, <1>4, <2>1, <2>2, QuietStep
<1>5. CASE ResetDedup(w) \/ Stopped(w)
  <2> DEFINE r == Emptied(w)
  <2>1. Become(r)
    BY <1>5 DEF ResetDedup, Stopped
  <2>2. \E a, b : r = [Here EXCEPT !.window = a, !.log = b]
    BY DEF Emptied
  <2> HIDE DEF r
  <2> QED BY <1>1, <1>2, <1>5, <2>1, <2>2, QuietStep
<1> QED BY <1>3, <1>4, <1>5

\* Time passes, and subscriptions, owners and records change.
LEMMA OwnersStep ==
  ASSUME Inv,
         \/ Tick
         \/ \E w \in Tabs : \/ \E n \in Names : \/ Subscribe(w, n) \/ Unsubscribe(w, n)
                                                \/ Take(w, n) \/ LetGo(w, n)
                            \/ WriteRecord(w) \/ Start(w)
         \/ \E topic \in Topics, owner \in Tabs \cup {None} : WriteRoute(topic, owner)
  PROVE  Inv'
<1>0. Fixtures
  BY DEF Inv
<1>1. CASE Tick
  BY <1>1, FixturesStay, PlaceStep DEF Tick
<1>2. ASSUME NEW w \in Tabs, NEW n \in Names,
             Subscribe(w, n) \/ Unsubscribe(w, n) \/ Take(w, n) \/ LetGo(w, n)
      PROVE  Inv'
  <2>1. Become(Here) /\ Setup /\ UNCHANGED <<made, phase, listed, route>>
    BY <1>2 DEF Subscribe, Unsubscribe, Take, LetGo, Churns
  <2>2. wants' \in [Tabs -> SUBSET Names] /\ assigned' \in [Tabs -> SUBSET Names]
    BY <1>0, <1>2 DEF Subscribe, Unsubscribe, Take, LetGo, Fixtures
  <2>3. Fixtures'
    BY <1>0, <2>1, <2>2 DEF Fixtures, Setup
  <2> QED BY <2>1, <2>3, PlaceStep
<1>3. ASSUME NEW w \in Tabs, WriteRecord(w) \/ Start(w)
      PROVE  Inv'
  <2>1. Become(Here) /\ Setup /\ UNCHANGED <<made, wants, assigned, route>>
    BY <1>3 DEF WriteRecord, Start, Churns
  <2>2. listed' \subseteq Tabs
    BY <1>0, <1>3 DEF WriteRecord, Start, Fixtures
  <2>3. phase' \in [Tabs -> {"up", "suspended", "stopping", "stopped", "crashed"}]
    BY <1>0, <1>3 DEF WriteRecord, Start, Fixtures
  <2>4. Fixtures'
    BY <1>0, <2>1, <2>2, <2>3 DEF Fixtures, Setup
  <2> QED BY <2>1, <2>4, PlaceStep
<1>4. ASSUME NEW topic \in Topics, NEW owner \in Tabs \cup {None}, WriteRoute(topic, owner)
      PROVE  Inv'
  <2>1. Become(Here) /\ Setup /\ UNCHANGED <<phase, wants, assigned, listed, made>>
    BY <1>4 DEF WriteRoute, Churns
  <2> DEFINE new == IF owner = None THEN NoRoute
                    ELSE [owner |-> owner, generation |-> route[topic].generation + 1]
  <2>2. new \in {NoRoute} \cup [owner : Tabs, generation : Nat]
    <3>1. route[topic].generation \in Nat
      BY <1>0 DEF Fixtures, NoRoute
    <3> QED BY <3>1
  <2>3. route' = [route EXCEPT ![topic] = new]
    BY <1>4 DEF WriteRoute
  <2> HIDE DEF new
  <2>4. route' \in [Topics -> {NoRoute} \cup [owner : Tabs, generation : Nat]]
    BY <1>0, <2>2, <2>3 DEF Fixtures
  <2>5. Fixtures'
    BY <1>0, <2>1, <2>4 DEF Fixtures, Setup
  <2> QED BY <2>1, <2>5, PlaceStep
<1> QED BY <1>1, <1>2, <1>3, <1>4

\* A tab stops listening.
LEMMA DeafStep ==
  ASSUME Inv, NEW w \in Tabs, Suspend(w) \/ Stop(w) \/ Crash(w)
  PROVE  Inv'
<1> DEFINE d == Deaf(Here, w)
           c == [Deaf(Here, w) EXCEPT !.key.closing = @ \ {w}]
<1>1. Sound(d, Len(made), {})
  BY HereSound, DeafSound
<1>2. Sound(c, Len(made), {})
  <2>1. DOMAIN d = Fields /\ KeyOK(d.key)
    BY <1>1 DEF Sound, WellFormed
  <2>2. /\ DOMAIN c = Fields /\ c.key = [d.key EXCEPT !.closing = @ \ {w}]
        /\ \A f \in Fields \ {"key"} : c[f] = d[f]
    <3>1. c = [d EXCEPT !.key.closing = @ \ {w}]
      OBVIOUS
    <3> HIDE DEF c, d
    <3> QED BY <2>1, <3>1 DEF Fields
  <2> HIDE DEF c, d
  <2>3. KeyOK(c.key)
    BY <2>1, <2>2 DEF KeyOK
  <2>4. /\ c.link = d.link /\ c.fate = d.fate /\ c.fanned = d.fanned
        /\ c.ran = d.ran /\ c.wire = d.wire
    BY <2>2 DEF Fields
  <2>5. WellFormed(c)
    BY <1>1, <2>2, <2>3, <2>4 DEF Sound, WellFormed
  <2> QED BY <1>1, <2>4, <2>5, SameSound
<1>3. (Become(d) \/ Become(c)) /\ Setup /\ UNCHANGED <<made, route>>
  BY DEF Suspend, Stop, Crash, Churns
<1>4. Fixtures
  BY DEF Inv
<1>5. /\ phase' \in [Tabs -> {"up", "suspended", "stopping", "stopped", "crashed"}]
      /\ listed' \subseteq Tabs
  BY <1>4 DEF Suspend, Stop, Crash, Fixtures
<1>6. wants' \in [Tabs -> SUBSET Names] /\ assigned' \in [Tabs -> SUBSET Names]
  BY <1>4 DEF Suspend, Stop, Crash, Fixtures
<1>7. Fixtures'
  BY <1>3, <1>4, <1>5, <1>6 DEF Fixtures, Setup
<1> HIDE DEF c, d
<1>8. CASE Become(d)
  BY <1>1, <1>3, <1>7, <1>8, Step
<1>9. CASE Become(c)
  BY <1>2, <1>3, <1>7, <1>9, Step
<1> QED BY <1>3, <1>8, <1>9

\* The key of the storage-event channel is removed, or cannot be written.
LEMMA KeyStep ==
  ASSUME Inv, Quota \/ \E w \in Tabs : CloseChannel(w)
  PROVE  Inv'
<1>1. KeyOK(Here.key) /\ Here.wire \in [Tabs -> Seq(Messages)] /\ Sound(Here, Len(made), {})
  BY HereSound DEF Inv, WellFormed
<1>2. Fixtures' /\ UNCHANGED made
  BY FixturesStay DEF Quota, CloseChannel, Fixed, Churns
<1>3. ASSUME NEW k, KeyOK(k), NEW r, r = [Here EXCEPT !.key = k], Become(r)
      PROVE  Inv'
  <2>1. /\ DOMAIN r = Fields /\ r.key = k /\ r.link = Here.link /\ r.fate = Here.fate
        /\ r.fanned = Here.fanned /\ r.ran = Here.ran /\ r.wire = Here.wire
    BY <1>3, Fields0 DEF Fields
  <2>2. WellFormed(r)
    BY <1>1, <1>3, <2>1 DEF Sound, WellFormed
  <2>3. Sound(r, Len(made), {})
    BY <1>1, <2>1, <2>2, SameSound
  <2> QED BY <1>2, <1>3, <2>3, Step
<1>4. CASE Quota
  <2> DEFINE k == [Here.key EXCEPT !.full = ~@]
             r == [Here EXCEPT !.key.full = ~@]
  <2>1. KeyOK(k)
    <3>1. (~Here.key.full) \in BOOLEAN
      OBVIOUS
    <3> QED BY <1>1, <3>1 DEF KeyOK
  <2>2. r = [Here EXCEPT !.key = k]
    OBVIOUS
  <2>3. Become(r)
    BY <1>4 DEF Quota
  <2> HIDE DEF k, r
  <2> QED BY <1>3, <2>1, <2>2, <2>3
<1>5. ASSUME NEW w \in Tabs, CloseChannel(w) PROVE Inv'
  <2> DEFINE k == [Here.key EXCEPT !.value = Empty, !.closing = @ \ {w}]
             r == [Here EXCEPT !.key.value = Empty, !.key.closing = @ \ {w}]
  <2>1. KeyOK(k)
    BY <1>1 DEF KeyOK
  <2>2. r = [Here EXCEPT !.key = k]
    OBVIOUS
  <2>3. Become(r)
    BY <1>5 DEF CloseChannel
  <2> HIDE DEF k, r
  <2> QED BY <1>3, <2>1, <2>2, <2>3
<1> QED BY <1>4, <1>5

----------------------------------------------------------------------------
(* Theorems.                                                               *)

\* At first nothing is published.
LEMMA InitInv == Init => Inv
<1> SUFFICES ASSUME Init PROVE Inv
  OBVIOUS
<1>1. Fixtures
  <2>1. PICK owner \in [Names -> Tabs \cup {None}] :
          /\ assigned = [w \in Tabs |-> {n \in Names : owner[n] = w}]
          /\ route = [t \in Topics |-> IF owner[t] = None THEN NoRoute
                                      ELSE [owner |-> owner[t], generation |-> 1]]
    BY DEF Init
  <2>2. assigned \in [Tabs -> SUBSET Names]
    BY <2>1
  <2>3. \A t \in Topics : owner[t] \in Tabs \cup {None}
    BY DEF Names
  <2>4. route \in [Topics -> {NoRoute} \cup [owner : Tabs, generation : Nat]]
    BY <2>1, <2>3
  <2>5. made \in Seq(Topics) /\ Len(made) <= MaxMessages
    BY EmptySeq, DeliveryAssumption DEF Init
  <2> QED BY <2>2, <2>4, <2>5 DEF Init, Fixtures
<1>2. WellFormed(Here)
  <2>1. link \in [Links -> Seq(Frames)]
    BY EmptySeq DEF Init, Links
  <2>2. wire \in [Tabs -> Seq(Messages)]
    BY EmptySeq DEF Init
  <2>3. KeyOK(key)
    BY DEF Init, KeyOK
  <2>4. /\ fate \in [Messages -> [handed : Nat, lost : Nat]] /\ fanned \in [Messages -> Nat]
        /\ ran \in [Tabs -> [Names -> [Messages -> Nat]]]
    BY DEF Init
  <2> QED BY <2>1, <2>2, <2>3, <2>4, Fields0 DEF WellFormed
<1>3. \A l \in Links : Len(Here.link[l]) = 0
  BY Fields0, EmptySeq DEF Init, Links
<1>4. ASSUME NEW m \in Messages PROVE Settled(Here, Len(made), {}, m)
  <2>1. ~Carried(Here, m) /\ AskedOnce(Here, m)
    BY <1>3 DEF Carried, AskedOnce
  <2>2. Here.fate[m].handed = 0 /\ Here.fate[m].lost = 0
    BY Fields0 DEF Init
  <2>3. Len(made) = 0 /\ ~(m <= 0)
    BY EmptySeq DEF Init, Messages
  <2> QED BY <2>1, <2>2, <2>3 DEF Settled
<1>5. ASSUME NEW v \in Tabs, NEW n \in Names, NEW m \in Messages
      PROVE  Here.ran[v][n][m] + Cardinality(ToldIn(Here, v, m)) <= Here.fanned[m]
  <2>1. Here.ran[v][n][m] = 0 /\ Here.fanned[m] = 0
    BY Fields0 DEF Init
  <2>2. ASSUME NEW a \in ToldIn(Here, v, m) PROVE FALSE
    <3>1. a[1] \in Tabs /\ a[2] \in 1..Len(Here.link[<<a[1], v>>])
      BY ToldPairs
    <3> QED BY <1>3, <3>1 DEF Links
  <2>3. ToldIn(Here, v, m) = {}
    BY <2>2
  <2>4. Cardinality(ToldIn(Here, v, m)) = 0
    BY <2>3, FS_EmptySet
  <2> QED BY <2>1, <2>4
<1> QED BY <1>1, <1>2, <1>4, <1>5 DEF Inv, Accounted, Called

\* Every action keeps the invariant.
LEMMA NextInv ==
  ASSUME Inv, [Next]_vars
  PROVE  Inv'
<1>1. CASE UNCHANGED vars
  <2>1. Become(Here) /\ UNCHANGED made
    BY <1>1, Fields0 DEF vars, Become
  <2>2. Fixtures'
    BY <1>1 DEF vars, Inv, Fixtures
  <2> QED BY <2>1, <2>2, PlaceStep
<1>2. ASSUME NEW w \in Tabs, NEW topic \in Topics, NEW n \in 1..MaxBatch,
             Publish(w, topic, n) \/ PublishRejected(w, topic, n)
      PROVE  Inv'
  BY <1>2, PublishStep
<1>3. ASSUME NEW w \in Tabs, Arrive(w) PROVE Inv'
  BY <1>3, ArriveStep
<1>4. ASSUME NEW w \in Tabs, NEW x \in Tabs, Receive(x, w) PROVE Inv'
  BY <1>4, ReceiveStep
<1>5. ASSUME NEW w \in Tabs, NEW m \in 1..Len(made), Redeliver(w, m) PROVE Inv'
  BY <1>5, RedeliverStep
<1>6. ASSUME NEW w \in Tabs, Sweep(w) \/ GetDedupStats(w) \/ ResetDedup(w) \/ Stopped(w)
      PROVE  Inv'
  BY <1>6, WindowStep
<1>7. ASSUME NEW w \in Tabs, Suspend(w) \/ Stop(w) \/ Crash(w) PROVE Inv'
  BY <1>7, DeafStep
<1>8. ASSUME Quota \/ \E w \in Tabs : CloseChannel(w) PROVE Inv'
  BY <1>8, KeyStep
<1>9. ASSUME \/ Tick
             \/ \E w \in Tabs : \/ \E n \in Names : \/ Subscribe(w, n) \/ Unsubscribe(w, n)
                                                    \/ Take(w, n) \/ LetGo(w, n)
                                \/ WriteRecord(w) \/ Start(w)
             \/ \E topic \in Topics, owner \in Tabs \cup {None} : WriteRoute(topic, owner)
      PROVE  Inv'
  BY <1>9, OwnersStep
<1> QED BY <1>1, <1>2, <1>3, <1>4, <1>5, <1>6, <1>7, <1>8, <1>9, Zenon DEF Next

\* Every publication is asked of one tab, given to one server, or given up: it
\* is accounted for, and the set of frames that ask for it has one member or none.
LEMMA InvSentOnce == Inv => SentOnce
<1> SUFFICES ASSUME Inv, NEW m \in 1..Len(made)
             PROVE  fate[m].handed + fate[m].lost + Cardinality(Asked(m)) = 1
  BY DEF SentOnce
<1> DEFINE At(l) == {l} \X {i \in 1..Len(link[l]) : Asks(link[l][i], m)}
<1>1. m \in Messages /\ m <= Len(made)
  <2>1. made \in Seq(Topics) /\ Len(made) <= MaxMessages /\ MaxMessages \in Nat
    BY DeliveryAssumption DEF Inv, Fixtures
  <2>2. Len(made) \in Nat
    BY <2>1, LenProperties
  <2> QED BY <2>1, <2>2 DEF Messages
<1>2. Settled(Here, Len(made), {}, m) /\ Here.fate = fate /\ Here.link = link
  BY <1>1, Fields0 DEF Inv, Accounted
<1>3. fate[m].handed \in Nat /\ fate[m].lost \in Nat
  BY <1>1, Fields0 DEF Inv, WellFormed
<1>4. Asked(m) = UNION {At(l) : l \in Links}
  BY DEF Asked, Links
<1>5. CASE Carried(Here, m)
  <2>1. PICK l \in Links : \E i \in 1..Len(link[l]) : Asks(link[l][i], m)
    BY <1>2, <1>5 DEF Carried
  <2>2. PICK i \in 1..Len(link[l]) : Asks(link[l][i], m)
    BY <2>1
  <2>3. <<l, i>> \in Asked(m)
    <3>1. <<l, i>> \in At(l)
      BY <2>2
    <3> HIDE DEF At
    <3> QED BY <1>4, <3>1
  <2>4. ASSUME NEW a \in Asked(m) PROVE a = <<l, i>>
    <3>1. PICK y \in Links : a \in At(y)
      BY <1>4
    <3>2. PICK j \in 1..Len(link[y]) : a = <<y, j>> /\ Asks(link[y][j], m)
      BY <3>1
    <3>3. AskedOnce(Here, m)
      BY <1>2 DEF Settled
    <3>4. y = l /\ j = i
      BY <1>2, <2>2, <3>2, <3>3 DEF AskedOnce
    <3> QED BY <3>2, <3>4
  <2>5. Asked(m) = {<<l, i>>}
    BY <2>3, <2>4
  <2>6. Cardinality(Asked(m)) = 1
    BY <2>5, FS_Singleton
  <2>7. fate[m].handed + fate[m].lost = 0
    BY <1>2, <1>5 DEF Settled
  <2> QED BY <1>3, <2>6, <2>7
<1>6. CASE ~Carried(Here, m)
  <2>1. ASSUME NEW a \in Asked(m) PROVE FALSE
    <3>1. PICK y \in Links : a \in At(y)
      BY <1>4
    <3>2. PICK j \in 1..Len(link[y]) : Asks(link[y][j], m)
      BY <3>1
    <3> QED BY <1>2, <1>6, <3>2 DEF Carried
  <2>2. Asked(m) = {}
    BY <2>1
  <2>3. Cardinality(Asked(m)) = 0
    BY <2>2, FS_EmptySet
  <2>4. fate[m].handed + fate[m].lost = 1
    BY <1>1, <1>2, <1>6 DEF Settled
  <2> QED BY <1>3, <2>3, <2>4
<1> QED BY <1>5, <1>6

\* Whatever the cache holds, the target is the live owner, or the tab itself.
LEMMA InvCacheIsHonest == Inv => CacheIsHonest
<1> SUFFICES ASSUME Inv, NEW w \in Tabs, NEW topic \in Topics
             PROVE  LET r == ReadRoute(w, topic)
                    IN PublishTarget(Here, w, topic) = IF r.owner \in Live(w) THEN r.owner ELSE w
  BY DEF CacheIsHonest
<1> DEFINE r == ReadRoute(w, topic)
<1>1. None \notin Live(w)
  BY DeliveryAssumption DEF Live, Inv, Fixtures, None
<1>2. r.owner \in Live(w) => r # NoRoute
  <2> HIDE DEF r
  <2>1. NoRoute.owner = None
    BY DEF NoRoute
  <2> QED BY <1>1, <2>1
<1>3. IsLive(w, r) <=> r.owner \in Live(w)
  BY <1>2 DEF IsLive
<1>4. CachedLive(Here, w, topic) => IsLive(w, r)
  BY DEF CachedLive
<1> QED BY <1>3, <1>4 DEF PublishTarget

----------------------------------------------------------------------------
(* Induction, for what the prover does not know of the numbers.            *)

\* A set of numbers that is not empty has a least one.
LEMMA Least ==
  ASSUME NEW T, T \subseteq Nat, T # {}
  PROVE  \E x \in T : \A y \in T : x <= y
<1> DEFINE R == OpToRel(<, Nat)
<1>1. IsWellFoundedOn(R, Nat)
  BY NatLessThanWellFounded
<1>2. \A x, y \in Nat : <<y, x>> \in R <=> y < x
  BY DEF OpToRel
<1> HIDE DEF R
<1>3. PICK x \in T : \A y \in T : ~ (<<y, x>> \in R)
  BY <1>1, WFMin
<1>4. \A y \in T : ~ (y < x)
  BY <1>2, <1>3
<1> QED BY <1>4

\* A set that has 0 and with a number its successor has all.
LEMMA Induct ==
  ASSUME NEW T, 0 \in T, \A n \in Nat : n \in T => n + 1 \in T
  PROVE  \A n \in Nat : n \in T
<1>1. SUFFICES ASSUME Nat \ T # {} PROVE FALSE
  OBVIOUS
<1>2. PICK x \in Nat \ T : \A y \in Nat \ T : x <= y
  BY <1>1, Least, Nat \ T \subseteq Nat
<1>3. x - 1 \in Nat /\ x - 1 \in T
  BY <1>2
<1> QED BY <1>2, <1>3

----------------------------------------------------------------------------
(* Kept: the items of a list that are among others.                        *)

\* The function of its definition, and one step of it.
KeptStep(items, those, f, i) ==
  IF i = 0 THEN <<>>
  ELSE IF items[i] \in those THEN Append(f[i - 1], items[i])
  ELSE f[i - 1]
KeptUpTo(items, those) ==
  CHOOSE kept : kept = [i \in 0..Len(items) |-> KeptStep(items, those, kept, i)]

\* Kept is its last value.
LEMMA KeptIs ==
  ASSUME NEW items, NEW those
  PROVE  Kept(items, those) = KeptUpTo(items, those)[Len(items)]
BY DEF Kept, KeptUpTo, KeptStep

\* The function of the definition exists, for each length of a prefix.
LEMMA KeptExists ==
  ASSUME NEW S, NEW items \in Seq(S), NEW those
  PROVE  \E f : f = [i \in 0..Len(items) |-> KeptStep(items, those, f, i)]
<1> DEFINE Body(f, i) == KeptStep(items, those, f, i)
<1> DEFINE T == {n \in Nat : \E f : f = [i \in 0..n |-> Body(f, i)]}
<1>1. 0 \in T
  <2>1. [i \in 0..0 |-> <<>>] = [i \in 0..0 |-> Body([j \in 0..0 |-> <<>>], i)]
    BY DEF KeptStep
  <2> HIDE DEF Body
  <2> QED BY <2>1
<1>2. ASSUME NEW n \in Nat, n \in T
      PROVE  n + 1 \in T
  <2>1. PICK f : f = [i \in 0..n |-> Body(f, i)]
    BY <1>2
  <2> DEFINE g == [i \in 0..(n + 1) |-> IF i = n + 1 THEN Body(f, n + 1) ELSE f[i]]
  <2>2. ASSUME NEW i \in 0..(n + 1)
        PROVE  g[i] = Body(g, i)
    <3>1. CASE i = 0
      <4>1. g[i] = f[0] /\ f[0] = Body(f, 0)
        BY <2>1, <3>1
      <4> QED BY <4>1, <3>1 DEF KeptStep
    <3>2. CASE i # 0
      <4>1. i - 1 \in 0..n
        BY <3>2
      <4>2. g[i - 1] = f[i - 1]
        BY <4>1
      <4> HIDE DEF g
      <4>3. Body(g, i) = Body(f, i)
        BY <4>2, <3>2 DEF KeptStep
      <4>4. i # n + 1 => f[i] = Body(f, i)
        BY <2>1, <3>2
      <4> USE DEF g
      <4> HIDE DEF Body
      <4> QED BY <4>3, <4>4 DEF g
    <3> QED BY <3>1, <3>2
  <2>3. g = [i \in 0..(n + 1) |-> g[i]]
    OBVIOUS
  <2> HIDE DEF g, Body
  <2>4. g = [i \in 0..(n + 1) |-> Body(g, i)]
    BY <2>2, <2>3
  <2> QED BY <2>4
<1> HIDE DEF T
<1>3. Len(items) \in T
  BY <1>1, <1>2, Induct
<1> QED BY <1>3 DEF T

\* So it is what its definition says.
LEMMA KeptSteps ==
  ASSUME NEW S, NEW items \in Seq(S), NEW those
  PROVE  /\ KeptUpTo(items, those)[0] = <<>>
         /\ \A i \in 1..Len(items) :
              KeptUpTo(items, those)[i] =
                IF items[i] \in those
                THEN Append(KeptUpTo(items, those)[i - 1], items[i])
                ELSE KeptUpTo(items, those)[i - 1]
<1> DEFINE f == KeptUpTo(items, those)
<1>1. f = [i \in 0..Len(items) |-> KeptStep(items, those, f, i)]
  BY KeptExists DEF KeptUpTo
<1>2. Len(items) \in Nat
  OBVIOUS
<1> HIDE DEF f
<1>3. \A i \in 0..Len(items) : f[i] = KeptStep(items, those, f, i)
  BY <1>1
<1>4. f[0] = <<>>
  BY <1>3, <1>2 DEF KeptStep
<1>5. ASSUME NEW i \in 1..Len(items)
      PROVE  f[i] = IF items[i] \in those THEN Append(f[i - 1], items[i]) ELSE f[i - 1]
  <2>1. i # 0 /\ i \in 0..Len(items)
    BY <1>2
  <2>2. f[i] = KeptStep(items, those, f, i)
    BY <1>3, <2>1
  <2> QED BY <2>1, <2>2, Zenon DEF KeptStep
<1> QED BY <1>4, <1>5 DEF f

\* Each value of the function lists what was there and is among those.
LEMMA KeptTypes ==
  ASSUME NEW S, NEW items \in Seq(S), NEW those
  PROVE  \A n \in 0..Len(items) : /\ KeptUpTo(items, those)[n] \in Seq(S \cap those)
                                  /\ Len(KeptUpTo(items, those)[n]) <= n
<1> DEFINE f == KeptUpTo(items, those)
           T == {n \in Nat : n <= Len(items) => f[n] \in Seq(S \cap those) /\ Len(f[n]) <= n}
<1>1. /\ f[0] = <<>>
      /\ \A i \in 1..Len(items) :
           f[i] = IF items[i] \in those THEN Append(f[i - 1], items[i]) ELSE f[i - 1]
  BY KeptSteps
<1> HIDE DEF f
<1>2. 0 \in T
  <2>1. <<>> \in Seq(S \cap those) /\ Len(<<>>) = 0
    BY EmptySeq
  <2>2. f[0] \in Seq(S \cap those) /\ Len(f[0]) = 0
    BY <1>1, <2>1, Zenon
  <2> QED BY <2>2
<1>3. ASSUME NEW n \in Nat, n \in T
      PROVE  n + 1 \in T
  <2>1. SUFFICES ASSUME n + 1 <= Len(items)
                 PROVE  f[n + 1] \in Seq(S \cap those) /\ Len(f[n + 1]) <= n + 1
    OBVIOUS
  <2>2. n + 1 \in 1..Len(items) /\ items[n + 1] \in S /\ n <= Len(items)
    BY <2>1
  <2>3. f[n] \in Seq(S \cap those) /\ Len(f[n]) <= n
    BY <1>3, <2>2
  <2>4. f[n + 1] = IF items[n + 1] \in those THEN Append(f[n], items[n + 1]) ELSE f[n]
    BY <1>1, <2>2
  <2> QED BY <2>2, <2>3, <2>4
<1> HIDE DEF T
<1>4. \A n \in Nat : n \in T
  BY <1>2, <1>3, Induct
<1> QED BY <1>4 DEF T, f

\* Kept lists what was there and is among those; it is not longer.
LEMMA KeptType ==
  ASSUME NEW S, NEW items \in Seq(S), NEW those
  PROVE  /\ Kept(items, those) \in Seq(S \cap those)
         /\ Len(Kept(items, those)) <= Len(items)
<1>1. Len(items) \in 0..Len(items)
  OBVIOUS
<1> QED BY <1>1, KeptTypes, KeptIs

\* What is among those is kept, with no more behind it than before.
LEMMA KeptPlace ==
  ASSUME NEW S, NEW items \in Seq(S), NEW those, NEW i \in 1..Len(items), items[i] \in those
  PROVE  LET k == Kept(items, those)
         IN \E p \in 1..Len(k) : k[p] = items[i] /\ Len(k) - p <= Len(items) - i
<1> DEFINE f == KeptUpTo(items, those)
           Placed(n) == \E p \in 1..Len(f[i + n]) :
                          f[i + n][p] = items[i] /\ Len(f[i + n]) - p <= n
           T == {n \in Nat : i + n <= Len(items) => Placed(n)}
<1>1. \A j \in 1..Len(items) :
        f[j] = IF items[j] \in those THEN Append(f[j - 1], items[j]) ELSE f[j - 1]
  BY KeptSteps
<1>2. \A j \in 0..Len(items) : f[j] \in Seq(S \cap those)
  BY KeptTypes
<1>3. i \in Nat /\ i >= 1 /\ Len(items) \in Nat
  OBVIOUS
<1> HIDE DEF f
<1>4. 0 \in T
  <2>0. i - 1 \in 0..Len(items) /\ i + 0 = i
    BY <1>3
  <2>1. f[i] = Append(f[i - 1], items[i]) /\ f[i - 1] \in Seq(S \cap those) /\ i + 0 = i
    BY <1>1, <1>2, <2>0
  <2> DEFINE g == f[i - 1]
  <2>2. Len(g) \in Nat /\ Len(Append(g, items[i])) = Len(g) + 1
        /\ Append(g, items[i])[Len(g) + 1] = items[i]
    <3> HIDE DEF g
    <3> QED BY <2>1 DEF g
  <2>3. Placed(0)
    BY <2>1, <2>2
  <2> QED BY <2>3
<1>5. ASSUME NEW n \in Nat, n \in T
      PROVE  n + 1 \in T
  <2>1. SUFFICES ASSUME i + (n + 1) <= Len(items) PROVE Placed(n + 1)
    OBVIOUS
  <2>2. i + (n + 1) \in 1..Len(items) /\ (i + (n + 1)) - 1 = i + n /\ i + n <= Len(items)
        /\ i + n \in 0..Len(items)
    BY <1>3, <2>1
  <2> DEFINE g == f[i + n]
             h == f[i + (n + 1)]
             x == items[i + (n + 1)]
  <2>3. PICK p \in 1..Len(g) : g[p] = items[i] /\ Len(g) - p <= n
    BY <1>5, <2>2
  <2>4. g \in Seq(S \cap those) /\ (h = Append(g, x) \/ h = g)
    BY <1>1, <1>2, <2>2
  <2> HIDE DEF g, h, x
  <2>5. Len(g) \in Nat /\ p \in 1..Len(h) /\ h[p] = g[p] /\ Len(h) <= Len(g) + 1 /\ Len(h) \in Nat
    BY <2>4
  <2>6. Len(h) - p <= n + 1
    BY <2>3, <2>5
  <2> QED BY <2>3, <2>5, <2>6 DEF g, h
<1> HIDE DEF T
<1>6. Len(items) - i \in T /\ i + (Len(items) - i) = Len(items)
  <2>1. \A n \in Nat : n \in T
    BY <1>4, <1>5, Induct
  <2> QED BY <1>3, <2>1
<1> QED BY <1>6, KeptIs DEF T, f

----------------------------------------------------------------------------
(* What a tab remembers of the messages it accepted.                       *)

Noted(time) == [id : Messages, at : 0..time]
Windows(time) == [seen : Seq(Noted(time)), startedAt : 0..time, accepted : Nat]

\* What is in the window was accepted.
Backed(d, l) == \A p \in 1..Len(d.seen) : \E i \in 1..Len(l) : l[i] = d.seen[p]

\* The place of an item in the window: no more is behind it than in the log.
Place(d, l, i, p) == d.seen[p] = l[i] /\ Len(d.seen) - p <= Len(l) - i

\* What was accepted lately is in the window.
Recent(d, l, time, shortest) ==
  \A i \in 1..Len(l) :
    time - l[i].at <= shortest /\ Len(l) - i < MaxEntries =>
      \E p \in 1..Len(d.seen) : Place(d, l, i, p)

Remembers(d, l, time, shortest) ==
  /\ d \in Windows(time) /\ l \in Seq(Noted(time)) /\ Len(d.seen) <= MaxEntries
  /\ Backed(d, l) /\ Recent(d, l, time, shortest)

\* Products grow with their factors.
LEMMA Monotone ==
  ASSUME NEW a \in Nat, NEW b \in Nat, NEW c \in Nat, b <= c
  PROVE  a * b <= a * c
<1>1. PICK k \in Nat : c = b + k
  <2>1. c - b \in Nat /\ c = b + (c - b)
    OBVIOUS
  <2> QED BY <2>1
<1>2. a * c = a * b + a * k
  BY <1>1
<1>3. a * k \in Nat /\ a * b \in Nat
  OBVIOUS
<1> QED BY <1>2, <1>3

\* The adaptive TTL lies between its bounds.
LEMMA AdaptiveBounds ==
  ASSUME NEW age \in Nat, NEW e \in Nat \ {0}, NEW busy \in 0..e
  PROVE  /\ age <= MinMs => ~(age * e > MaxMs * e - (MaxMs - MinMs) * busy)
         /\ age > MaxMs => age * e > MaxMs * e - (MaxMs - MinMs) * busy
<1> DEFINE spread == MaxMs - MinMs
<1>1. MinMs \in Nat /\ MaxMs \in Nat /\ spread \in Nat /\ MaxMs = MinMs + spread
  BY DedupAssumption
<1> HIDE DEF spread
<1>2. spread * busy <= spread * e /\ spread * busy \in Nat /\ spread * e \in Nat
  BY <1>1, Monotone
<1>3. MaxMs * e = MinMs * e + spread * e /\ MinMs * e \in Nat /\ age * e \in Nat
      /\ MaxMs * e \in Nat
  BY <1>1
<1>4. age <= MinMs => age * e <= MinMs * e
  <2>1. e * age = age * e /\ e * MinMs = MinMs * e
    BY <1>1
  <2> QED BY <1>1, <2>1, Monotone
<1>5. age > MaxMs => age * e >= MaxMs * e + e
  <2>1. SUFFICES ASSUME age > MaxMs PROVE age * e >= MaxMs * e + e
    OBVIOUS
  <2>2. MaxMs + 1 <= age /\ MaxMs + 1 \in Nat
    BY <1>1, <2>1
  <2>3. e * (MaxMs + 1) <= e * age
    BY <2>2, Monotone
  <2>4. e * (MaxMs + 1) = MaxMs * e + e /\ e * age = age * e
    BY <1>1
  <2> QED BY <2>3, <2>4
<1>6. age <= MinMs => ~(age * e > MaxMs * e - spread * busy)
  BY <1>2, <1>3, <1>4
<1>7. age > MaxMs => age * e > MaxMs * e - spread * busy
  BY <1>2, <1>3, <1>5
<1> QED BY <1>6, <1>7 DEF spread

\* What outlives the window is older than the shortest TTL; what is older than
\* the longest does.
LEMMA OutlivesBounds ==
  ASSUME NEW age \in Nat, NEW time \in Nat, NEW d \in Windows(time), NEW adaptive \in BOOLEAN
  PROVE  /\ age <= (IF adaptive THEN MinMs ELSE TtlMs) => ~Outlives(age, d, adaptive, time)
         /\ ~Outlives(age, d, adaptive, time) => age <= IF adaptive THEN MaxMs ELSE TtlMs
<1> DEFINE elapsed == time - d.startedAt
           e == IF elapsed > 1 THEN elapsed ELSE 1
           busy == IF d.accepted < e THEN d.accepted ELSE e
<1>1. e \in Nat \ {0} /\ busy \in 0..e
  BY DEF Windows
<1>2. MinMs \in Nat /\ MaxMs \in Nat /\ TtlMs \in Nat /\ MinMs <= MaxMs
  BY DedupAssumption
<1>3. CASE ~adaptive
  <2>1. Outlives(age, d, adaptive, time) <=> age > TtlMs
    BY <1>3 DEF Outlives
  <2> QED BY <1>2, <1>3, <2>1
<1>4. CASE adaptive /\ WindowIsOver(d, adaptive, time)
  <2>1. Outlives(age, d, adaptive, time) <=> age > MaxMs
    BY <1>4 DEF Outlives
  <2>2. /\ (IF adaptive THEN MinMs ELSE TtlMs) = MinMs
        /\ (IF adaptive THEN MaxMs ELSE TtlMs) = MaxMs
    BY <1>4
  <2>3. age <= MinMs => ~(age > MaxMs)
    BY <1>2
  <2>4. ~(age > MaxMs) => age <= MaxMs
    BY <1>2
  <2> QED BY <2>1, <2>2, <2>3, <2>4
<1>5. CASE adaptive /\ ~WindowIsOver(d, adaptive, time)
  <2>1. Outlives(age, d, adaptive, time) <=> age * e > MaxMs * e - (MaxMs - MinMs) * busy
    BY <1>5 DEF Outlives
  <2> HIDE DEF e, busy
  <2>2. /\ (IF adaptive THEN MinMs ELSE TtlMs) = MinMs
        /\ (IF adaptive THEN MaxMs ELSE TtlMs) = MaxMs
    BY <1>5
  <2>3. /\ age <= MinMs => ~(age * e > MaxMs * e - (MaxMs - MinMs) * busy)
        /\ age > MaxMs => age * e > MaxMs * e - (MaxMs - MinMs) * busy
    BY <1>1, AdaptiveBounds
  <2>4. age <= MaxMs \/ age > MaxMs
    BY <1>2
  <2> QED BY <2>1, <2>2, <2>3, <2>4, Zenon
<1> QED BY <1>3, <1>4, <1>5

\* A new adaptive window leaves what is remembered.
LEMMA RolledKeeps ==
  ASSUME NEW time \in Nat, NEW d, NEW l, NEW shortest, Remembers(d, l, time, shortest),
         NEW adaptive
  PROVE  /\ Remembers(Rolled(d, adaptive, time), l, time, shortest)
         /\ Rolled(d, adaptive, time).seen = d.seen
<1> DEFINE r == Rolled(d, adaptive, time)
<1>1. r.seen = d.seen /\ r \in Windows(time)
  <2>1. d \in [seen : Seq(Noted(time)), startedAt : 0..time, accepted : Nat]
    BY DEF Remembers, Windows
  <2>2. r = d \/ r = [d EXCEPT !.startedAt = time, !.accepted = 0]
    BY DEF Rolled
  <2>3. time \in 0..time /\ 0 \in Nat
    OBVIOUS
  <2> HIDE DEF r
  <2> QED BY <2>1, <2>2, <2>3 DEF Windows
<1> HIDE DEF r
<1> QED BY <1>1 DEF Remembers, Backed, Recent, Place, r

\* A list is a list of its items.
LEMMA OfItsItems ==
  ASSUME NEW X, NEW list \in Seq(X)
  PROVE  list \in Seq({list[i] : i \in 1..Len(list)})
<1> DEFINE items == {list[i] : i \in 1..Len(list)}
<1>1. \A i \in 1..Len(list) : list[i] \in items
  OBVIOUS
<1> HIDE DEF items
<1>2. /\ Len(list) \in Nat /\ DOMAIN list = 1..Len(list)
      /\ list = [i \in 1..Len(list) |-> list[i]]
  BY LenProperties
<1>3. list \in [1..Len(list) -> items]
  BY <1>1, <1>2
<1>4. list \in Seq(items)
  BY <1>2, <1>3, SeqDef
<1> QED BY <1>4 DEF items

\* pruneExpired keeps what was accepted lately, and nothing old.
LEMMA PruneKeeps ==
  ASSUME NEW time \in Nat, NEW d, NEW l, NEW adaptive \in BOOLEAN,
         NEW shortest, shortest = IF adaptive THEN MinMs ELSE TtlMs,
         Remembers(d, l, time, shortest)
  PROVE  LET r == PruneExpired(d, adaptive, time)
         IN /\ Remembers(r, l, time, shortest)
            /\ \A p \in 1..Len(r.seen) :
                 time - r.seen[p].at <= IF adaptive THEN MaxMs ELSE TtlMs
<1> DEFINE r == PruneExpired(d, adaptive, time)
           young == Young(d, adaptive, time)
           q == Rolled(d, adaptive, time)
           S == {d.seen[i] : i \in 1..Len(d.seen)}
<1>1. Remembers(q, l, time, shortest) /\ q.seen = d.seen
  BY RolledKeeps
<1>2. r = [q EXCEPT !.seen = Kept(d.seen, young)]
  BY DEF PruneExpired
<1>3. d.seen \in Seq(S) /\ d.seen \in Seq(Noted(time)) /\ d \in Windows(time)
      /\ Len(d.seen) <= MaxEntries
  <2>1. d.seen \in Seq(Noted(time)) /\ d \in Windows(time) /\ Len(d.seen) <= MaxEntries
    BY DEF Remembers, Windows
  <2>2. d.seen \in Seq(S)
    BY <2>1, OfItsItems
  <2> QED BY <2>1, <2>2
<1> DEFINE k == Kept(d.seen, young)
<1>4. k \in Seq(S \cap young) /\ k \in Seq(Noted(time)) /\ Len(k) <= Len(d.seen)
  <2>1. k \in Seq(S \cap young) /\ Len(k) <= Len(d.seen) /\ k \in Seq(Noted(time) \cap young)
    BY <1>3, KeptType
  <2> HIDE DEF k, young
  <2> QED BY <2>1
<1>5. r \in Windows(time) /\ r.seen = k
  <2>1. q \in Windows(time)
    BY <1>1 DEF Remembers
  <2> HIDE DEF k, q, r
  <2> QED BY <1>2, <1>4, <2>1 DEF Windows, k
<1>6. \A i \in 1..Len(d.seen) : \A x \in {d.seen[i]} : x \in young <=> ~Outlives(time - x.at, d, adaptive, time)
  BY DEF Young
<1> HIDE DEF r, q, young
<1>7. Len(k) <= MaxEntries
  <2>1. Len(k) \in Nat /\ Len(d.seen) \in Nat /\ MaxEntries \in Nat
    BY <1>3, <1>4, DedupAssumption
  <2> QED BY <1>3, <1>4, <2>1
<1>8. Backed(r, l)
  <2> SUFFICES ASSUME NEW p \in 1..Len(k) PROVE \E i \in 1..Len(l) : l[i] = k[p]
    BY <1>5 DEF Backed
  <2>1. k[p] \in S
    <3> HIDE DEF k, S
    <3> QED BY <1>4
  <2>2. PICK j \in 1..Len(d.seen) : k[p] = d.seen[j]
    BY <2>1
  <2> QED BY <2>2 DEF Remembers, Backed
<1>9. Recent(r, l, time, shortest)
  <2> SUFFICES ASSUME NEW i \in 1..Len(l), time - l[i].at <= shortest, Len(l) - i < MaxEntries
               PROVE  \E p \in 1..Len(k) : k[p] = l[i] /\ Len(k) - p <= Len(l) - i
    BY <1>5 DEF Recent, Place
  <2> HIDE DEF k, S, young, q, r
  <2>1. PICK p \in 1..Len(d.seen) : d.seen[p] = l[i] /\ Len(d.seen) - p <= Len(l) - i
    BY DEF Remembers, Recent, Place
  <2>2. l \in Seq(Noted(time)) /\ l[i] \in Noted(time)
    BY DEF Remembers
  <2>3. time - l[i].at \in Nat
    BY <2>2 DEF Noted
  <2>4. d.seen[p] \in young
    BY <1>3, <1>6, <2>1, <2>3, OutlivesBounds
  <2>5. PICK z \in 1..Len(k) : k[z] = d.seen[p] /\ Len(k) - z <= Len(d.seen) - p
    BY <1>3, <2>4, KeptPlace DEF k
  <2>6. Len(k) - z <= Len(l) - i
    <3>1. Len(k) \in Nat /\ Len(d.seen) \in Nat /\ Len(l) \in Nat
      BY <1>3, <1>4, <2>2, LenProperties
    <3> DEFINE inKept == Len(k) - z
               inSeen == Len(d.seen) - p
               inLog == Len(l) - i
    <3>2. inKept \in Int /\ inSeen \in Int /\ inLog \in Int
      BY <3>1
    <3>3. inKept <= inSeen /\ inSeen <= inLog
      BY <2>1, <2>5
    <3> HIDE DEF inKept, inSeen, inLog
    <3>4. inKept <= inLog
      BY <3>2, <3>3
    <3> QED BY <3>4 DEF inKept, inLog
  <2> QED BY <2>1, <2>5, <2>6
<1>10. ASSUME NEW p \in 1..Len(k)
       PROVE  time - k[p].at <= IF adaptive THEN MaxMs ELSE TtlMs
  <2>1. k[p] \in S /\ k[p] \in young /\ k[p] \in Noted(time)
    <3> HIDE DEF k, S
    <3> QED BY <1>4
  <2>2. PICK j \in 1..Len(d.seen) : k[p] = d.seen[j]
    BY <2>1
  <2> HIDE DEF k
  <2>3. time - k[p].at \in Nat
    BY <2>1 DEF Noted
  <2>4. ~Outlives(time - k[p].at, d, adaptive, time)
    BY <1>6, <2>1, <2>2
  <2> QED BY <1>3, <2>3, <2>4, OutlivesBounds
<1>11. l \in Seq(Noted(time))
  BY DEF Remembers
<1> QED BY <1>5, <1>7, <1>8, <1>9, <1>10, <1>11 DEF Remembers, r

\* The last MaxEntries items stay.
LEMMA CutType ==
  ASSUME NEW S, NEW seen \in Seq(S)
  PROVE  /\ Cut(seen) \in Seq(S) /\ Len(Cut(seen)) <= MaxEntries
         /\ Len(Cut(seen)) = IF Len(seen) <= MaxEntries THEN Len(seen) ELSE MaxEntries
         /\ \A i \in 1..Len(Cut(seen)) : Cut(seen)[i] = seen[Len(seen) - Len(Cut(seen)) + i]
<1>1. MaxEntries \in Nat \ {0} /\ Len(seen) \in Nat
  BY DedupAssumption
<1>2. CASE Len(seen) <= MaxEntries
  BY <1>1, <1>2 DEF Cut
<1>3. CASE ~(Len(seen) <= MaxEntries)
  <2> DEFINE b == Len(seen) - MaxEntries + 1
  <2> DEFINE c == SubSeq(seen, b, Len(seen))
  <2>1. Cut(seen) = c
    BY <1>3 DEF Cut
  <2>2. b \in 1..Len(seen) /\ Len(seen) - b + 1 = MaxEntries
    BY <1>1, <1>3
  <2> HIDE DEF b
  <2>3. /\ c \in Seq(S) /\ Len(c) = MaxEntries
        /\ \A i \in 1..MaxEntries : c[i] = seen[b + i - 1]
    BY <1>1, <2>2
  <2>4. \A i \in 1..MaxEntries : b + i - 1 = Len(seen) - MaxEntries + i
    BY <1>1, <2>2
  <2> HIDE DEF c
  <2>5. \A i \in 1..MaxEntries : c[i] = seen[Len(seen) - MaxEntries + i]
    BY <2>3, <2>4
  <2> QED BY <1>1, <1>3, <2>1, <2>3, <2>5
<1> QED BY <1>2, <1>3

\* isDuplicate of an id that is new.
LEMMA RememberKeeps ==
  ASSUME NEW time \in Nat, NEW d, NEW l, NEW shortest, Remembers(d, l, time, shortest),
         NEW m \in Messages
  PROVE  Remembers(Remember(d, m, time), Append(l, [id |-> m, at |-> time]), time, shortest)
<1> DEFINE x == [id |-> m, at |-> time]
           a == Append(d.seen, x)
           c == Cut(a)
           k == Append(l, x)
           r == Remember(d, m, time)
<1>1. x \in Noted(time) /\ d \in Windows(time) /\ l \in Seq(Noted(time))
      /\ d.seen \in Seq(Noted(time)) /\ Backed(d, l) /\ Recent(d, l, time, shortest)
  BY DEF Noted, Remembers, Windows
<1> DEFINE n == Len(d.seen)
<1>2. /\ a \in Seq(Noted(time)) /\ Len(a) = n + 1 /\ a[n + 1] = x
      /\ \A i \in 1..n : a[i] = d.seen[i]
      /\ n \in Nat
  <2> DEFINE s == d.seen
  <2> HIDE DEF s, x
  <2>1. s \in Seq(Noted(time))
    BY <1>1 DEF s
  <2> QED BY <1>1, <2>1 DEF s
<1>3. /\ k \in Seq(Noted(time)) /\ Len(k) = Len(l) + 1 /\ k[Len(l) + 1] = x
      /\ \A i \in 1..Len(l) : k[i] = l[i]
      /\ Len(l) \in Nat
  <2> HIDE DEF x
  <2> QED BY <1>1
<1> HIDE DEF a, k, x
<1>4. /\ c \in Seq(Noted(time)) /\ Len(c) <= MaxEntries /\ Len(c) \in Nat
      /\ Len(c) = IF n + 1 <= MaxEntries THEN n + 1 ELSE MaxEntries
      /\ \A i \in 1..Len(c) : c[i] = a[n + 1 - Len(c) + i]
  <2>1. /\ c \in Seq(Noted(time)) /\ Len(c) <= MaxEntries
        /\ Len(c) = IF Len(a) <= MaxEntries THEN Len(a) ELSE MaxEntries
        /\ \A i \in 1..Len(c) : c[i] = a[Len(a) - Len(c) + i]
    BY <1>2, CutType
  <2>2. Len(c) \in Nat
    <3> HIDE DEF c
    <3> QED BY <2>1
  <2> HIDE DEF c, n
  <2>3. Len(a) = n + 1
    BY <1>2
  <2>4. \A i \in 1..Len(c) : c[i] = a[(n + 1) - Len(c) + i]
    BY <2>1, <2>3, Zenon
  <2>5. Len(c) = IF n + 1 <= MaxEntries THEN n + 1 ELSE MaxEntries
    BY <2>1, <2>3, Zenon
  <2>6. \A i \in 1..Len(c) : c[i] = a[n + 1 - Len(c) + i]
    <3>1. \A i \in 1..Len(c) : n + 1 - Len(c) + i = (n + 1) - Len(c) + i
      BY <1>2, <2>2
    <3> QED BY <2>4, <3>1, Zenon
  <2> QED BY <2>1, <2>2, <2>5, <2>6
<1> HIDE DEF c, n
<1>5. r \in Windows(time) /\ r.seen = c
  <2>1. r = [d EXCEPT !.seen = c, !.accepted = @ + 1]
    BY DEF Remember, c, a, x
  <2>2. d.accepted + 1 \in Nat
    BY <1>1 DEF Windows
  <2> HIDE DEF r
  <2> QED BY <1>1, <1>4, <2>1, <2>2 DEF Windows
<1> HIDE DEF r
<1>6. Backed(r, k)
  <2> SUFFICES ASSUME NEW p \in 1..Len(c) PROVE \E i \in 1..Len(k) : k[i] = c[p]
    BY <1>5 DEF Backed
  <2> DEFINE j == n + 1 - Len(c) + p
  <2>1. j \in 1..(n + 1) /\ c[p] = a[j]
    BY <1>2, <1>4, DedupAssumption
  <2> HIDE DEF j
  <2>2. CASE j = n + 1
    BY <1>2, <1>3, <2>1, <2>2
  <2>3. CASE j # n + 1
    <3>1. j \in 1..n /\ c[p] = d.seen[j]
      BY <1>2, <2>1, <2>3
    <3>2. PICK i \in 1..Len(l) : l[i] = d.seen[j]
      BY <1>1, <3>1 DEF Backed, n
    <3>3. i \in 1..Len(k) /\ k[i] = l[i]
      BY <1>3
    <3> QED BY <3>1, <3>2, <3>3
  <2> QED BY <2>2, <2>3
<1>7. Recent(r, k, time, shortest)
  <2> SUFFICES ASSUME NEW i \in 1..Len(k), time - k[i].at <= shortest, Len(k) - i < MaxEntries
               PROVE  \E p \in 1..Len(c) : c[p] = k[i] /\ Len(c) - p <= Len(k) - i
    BY <1>5 DEF Recent, Place
  <2>1. MaxEntries \in Nat \ {0}
    BY DedupAssumption
  <2>2. CASE i = Len(l) + 1
    <3>0. Len(c) \in 1..Len(c) /\ n + 1 - Len(c) + Len(c) = n + 1
      BY <1>2, <1>4, <2>1
    <3>1. Len(c) \in 1..Len(c) /\ c[Len(c)] = x
      BY <1>2, <1>4, <3>0
    <3> QED BY <1>3, <1>4, <2>2, <3>1
  <2>3. CASE i # Len(l) + 1
    <3>1. i \in 1..Len(l) /\ k[i] = l[i] /\ Len(l) - i < MaxEntries
      BY <1>3, <2>1, <2>3
    <3>2. PICK p \in 1..n : d.seen[p] = l[i] /\ n - p <= Len(l) - i
      BY <1>1, <3>1 DEF Recent, Place, n
    <3> DEFINE z == p + Len(c) - (n + 1)
    <3>3. n + 1 - p <= Len(k) - i /\ n + 1 - p < MaxEntries
      <4>1. Len(k) = Len(l) + 1 /\ Len(l) \in Nat /\ n \in Nat
        BY <1>2, <1>3
      <4> HIDE DEF k
      <4> QED BY <2>1, <3>1, <3>2, <4>1
    <3>4. z \in 1..Len(c) /\ n + 1 - Len(c) + z = p /\ Len(c) - z = n + 1 - p
      BY <1>2, <1>4, <2>1, <3>3
    <3> HIDE DEF z
    <3>5. c[z] = a[p] /\ a[p] = d.seen[p]
      BY <1>2, <1>4, <3>4
    <3> QED BY <3>1, <3>2, <3>3, <3>4, <3>5
  <2> QED BY <2>2, <2>3, <1>3
<1> QED BY <1>3, <1>4, <1>5, <1>6, <1>7 DEF Remembers, r, k, x

\* A window begins empty.
LEMMA EmptyKeeps ==
  ASSUME NEW time \in Nat, NEW shortest
  PROVE  Remembers(EmptyWindow(time), <<>>, time, shortest)
<1>1. EmptyWindow(time) \in Windows(time) /\ EmptyWindow(time).seen = <<>>
  BY EmptySeq DEF EmptyWindow, Windows
<1>2. Len(<<>>) = 0 /\ 0 <= MaxEntries /\ <<>> \in Seq(Noted(time))
  BY DedupAssumption, EmptySeq
<1> HIDE DEF EmptyWindow
<1> QED BY <1>1, <1>2 DEF Remembers, Backed, Recent

\* Time only makes things older.
LEMMA LaterKeeps ==
  ASSUME NEW time \in Nat, NEW d, NEW l, NEW shortest \in Nat, Remembers(d, l, time, shortest)
  PROVE  Remembers(d, l, time + 1, shortest)
<1>1. Noted(time) \subseteq Noted(time + 1)
  BY DEF Noted
<1>2. l \in Seq(Noted(time)) /\ d.seen \in Seq(Noted(time)) /\ d \in Windows(time)
  BY DEF Remembers, Windows
<1>3. Seq(Noted(time)) \subseteq Seq(Noted(time + 1))
  BY <1>1
<1>4. d \in Windows(time + 1)
  BY <1>2, <1>3 DEF Windows
<1>5. Recent(d, l, time + 1, shortest)
  <2> DEFINE later == time + 1
  <2> SUFFICES ASSUME NEW i \in 1..Len(l), later - l[i].at <= shortest,
                      Len(l) - i < MaxEntries
               PROVE  \E p \in 1..Len(d.seen) : Place(d, l, i, p)
    <3> HIDE DEF later
    <3> SUFFICES Recent(d, l, later, shortest)
      BY DEF later
    <3> QED BY Zenon DEF Recent
  <2>1. l[i] \in Noted(time)
    BY <1>2
  <2>2. time - l[i].at <= shortest
    BY <2>1 DEF Noted
  <2> QED BY <2>2 DEF Remembers, Recent
<1> QED BY <1>2, <1>3, <1>4, <1>5 DEF Remembers

----------------------------------------------------------------------------
(* The route owner cache.                                                  *)

CacheOK(c) == c \in Seq(Entries) /\ Len(c) <= RouteCacheMax
Caches(c) == c \in [Tabs -> Seq(Entries)] /\ \A w \in Tabs : Len(c[w]) <= RouteCacheMax

\* One entry comes, and the oldest go.
LEMMA TouchedOK ==
  ASSUME NEW c, CacheOK(c), NEW e \in Entries
  PROVE  CacheOK(Touched(c, e))
<1> DEFINE left == Without(c, e.topic)
           moved == Append(left, e)
           size == Len(moved)
<1>1. left \in Seq(Entries) /\ Len(left) <= Len(c)
  <2>1. left \in Seq(Entries \cap {x \in Range(c) : x.topic # e.topic}) /\ Len(left) <= Len(c)
    BY KeptType DEF Without, CacheOK
  <2> HIDE DEF left
  <2> QED BY <2>1
<1> HIDE DEF left
<1>2. moved \in Seq(Entries) /\ size \in Nat
  BY <1>1
<1>3. Touched(c, e) = IF size <= RouteCacheMax THEN moved
                      ELSE SubSeq(moved, size - RouteCacheMax + 1, size)
  BY DEF Touched, left
<1> HIDE DEF moved
<1>4. RouteCacheMax \in Nat \ {0}
  BY DeliveryAssumption
<1>5. CASE size <= RouteCacheMax
  BY <1>2, <1>3, <1>5 DEF CacheOK
<1>6. CASE ~(size <= RouteCacheMax)
  <2> DEFINE b == size - RouteCacheMax + 1
  <2>1. b \in 1..size /\ size - b + 1 = RouteCacheMax
    BY <1>2, <1>4, <1>6
  <2> HIDE DEF b
  <2>2. SubSeq(moved, b, size) \in Seq(Entries) /\ Len(SubSeq(moved, b, size)) = RouteCacheMax
    BY <1>2, <1>4, <2>1
  <2>3. Touched(c, e) = SubSeq(moved, b, size)
    BY <1>3, <1>6 DEF b
  <2> QED BY <1>4, <2>2, <2>3 DEF CacheOK
<1> QED BY <1>5, <1>6

\* An entry goes.
LEMMA WithoutOK ==
  ASSUME NEW c, CacheOK(c), NEW topic
  PROVE  CacheOK(Without(c, topic))
<1> DEFINE r == Without(c, topic)
<1>1. r \in Seq(Entries \cap {x \in Range(c) : x.topic # topic}) /\ Len(r) <= Len(c)
  BY KeptType DEF Without, CacheOK
<1> HIDE DEF r
<1>2. r \in Seq(Entries) /\ Len(r) \in Nat /\ Len(c) \in Nat
  BY <1>1 DEF CacheOK
<1>3. RouteCacheMax \in Nat
  BY DeliveryAssumption
<1> QED BY <1>1, <1>2, <1>3 DEF CacheOK, r

\* Resolving an owner keeps the cache in bounds, and leaves the rest.
LEMMA ResolvedCaches ==
  ASSUME Fixtures, NEW s, DOMAIN s = Fields, Caches(s.cache), NEW w \in Tabs, NEW topic \in Topics
  PROVE  LET r == Resolved(s, w, topic)
         IN /\ DOMAIN r = Fields /\ Caches(r.cache)
            /\ r.window = s.window /\ r.log = s.log /\ r.wire = s.wire
<1> DEFINE q == ReadRoute(w, topic)
           c == s.cache[w]
           known == q # NoRoute /\ PublishTarget(s, w, topic) = q.owner
           n == IF known THEN Touched(c, Entry(topic, q)) ELSE Without(c, topic)
           r == Resolved(s, w, topic)
<1>1. CacheOK(c)
  BY DEF Caches, CacheOK
<1>2. known => Entry(topic, q) \in Entries
  <2> SUFFICES ASSUME known PROVE Entry(topic, q) \in Entries
    OBVIOUS
  <2>1. q \in {NoRoute} \cup [owner : Tabs, generation : Nat]
    BY DEF ReadRoute, Fixtures
  <2>2. q \in [owner : Tabs, generation : Nat]
    BY <2>1
  <2> HIDE DEF q
  <2> QED BY <2>2 DEF Entry, Entries
<1>3. CacheOK(n)
  BY <1>1, <1>2, TouchedOK, WithoutOK
<1>4. r = [s EXCEPT !.cache[w] = n]
  BY DEF Resolved
<1> HIDE DEF n, r
<1>5. /\ DOMAIN r = Fields /\ r.cache = [s.cache EXCEPT ![w] = n]
      /\ r.window = s.window /\ r.log = s.log /\ r.wire = s.wire
  BY <1>4 DEF Fields
<1>6. Caches(r.cache)
  BY <1>3, <1>5 DEF Caches, CacheOK
<1> QED BY <1>5, <1>6 DEF r

----------------------------------------------------------------------------
(* What the functions of the bus leave alone.                              *)

Same(s, r) ==
  /\ DOMAIN r = Fields /\ r.cache = s.cache /\ r.window = s.window /\ r.log = s.log
Aside(s, r) == Same(s, r) /\ r.wire = s.wire

\* Messages are only added to the wires.
Longer(s, r) == \A v \in Tabs : Len(s.wire[v]) <= Len(r.wire[v])

\* What is given up is in no cache, window or wire.
LEMMA GiveUpAside ==
  ASSUME NEW s, DOMAIN s = Fields, NEW lost
  PROVE  Aside(s, GiveUp(s, lost))
<1>1. PICK f : GiveUp(s, lost) = [s EXCEPT !.fate = f]
  BY DEF GiveUp
<1> QED BY <1>1 DEF Aside, Same, Fields

\* Nor is a frame.
LEMMA PostAside ==
  ASSUME NEW s, DOMAIN s = Fields, NEW x, NEW T, NEW frame
  PROVE  Aside(s, Post(s, x, T, frame))
<1> DEFINE u == Written(s, x, T, frame)
           r == Post(s, x, T, frame)
<1>1. Aside(s, u)
  <2>1. CASE setup.channel # "storage"
    BY <2>1 DEF Written, Aside, Same
  <2>2. CASE setup.channel = "storage"
    <3> DEFINE q == [s EXCEPT !.key.value = Envelope(s, x, T, frame)]
    <3>1. u = [q EXCEPT !.key.sent[x] = q.key.sent[x] + 1]
      BY <2>2 DEF Written
    <3>2. Aside(s, q)
      BY DEF Aside, Same, Fields
    <3> HIDE DEF q, u
    <3>3. Aside(q, u)
      BY <3>1, <3>2 DEF Aside, Same, Fields
    <3> QED BY <3>2, <3>3 DEF Aside, Same
  <2> QED BY <2>1, <2>2 DEF u
<1>2. PICK l : r = [u EXCEPT !.link = l]
  BY DEF Post
<1> HIDE DEF u, r
<1>3. Aside(u, r)
  BY <1>1, <1>2 DEF Aside, Same, Fields
<1> QED BY <1>1, <1>3 DEF Aside, Same, r

\* An event is a frame.
LEMMA BroadcastAside ==
  ASSUME NEW s, DOMAIN s = Fields, NEW x, NEW frame
  PROVE  Aside(s, Broadcast(s, x, frame))
BY PostAside DEF Broadcast, Aside, Same

\* Nor is a call of a handler.
LEMMA DispatchAside ==
  ASSUME NEW s, DOMAIN s = Fields, NEW v, NEW m
  PROVE  Aside(s, Dispatch(s, v, m))
<1>1. PICK f : Dispatch(s, v, m) = [s EXCEPT !.ran[v] = f]
  BY DEF Dispatch
<1> QED BY <1>1 DEF Aside, Same, Fields

\* What is accepted is counted, broadcast and dispatched.
LEMMA AcceptAside ==
  ASSUME NEW s, DOMAIN s = Fields, NEW w, NEW m
  PROVE  Aside(s, Accept(s, w, m))
<1> DEFINE counted == [s EXCEPT !.fanned[m] = @ + 1]
           told == Broadcast(counted, w, [kind |-> "event", item |-> m])
<1>1. Aside(s, counted)
  BY DEF Aside, Same, Fields
<1> HIDE DEF counted
<1>2. Aside(counted, told)
  BY <1>1, BroadcastAside DEF Aside, Same
<1> HIDE DEF told
<1>3. Aside(told, Dispatch(told, w, m))
  BY <1>2, DispatchAside DEF Aside, Same
<1>4. Accept(s, w, m) = s \/ Accept(s, w, m) = Dispatch(told, w, m)
  BY DEF Accept, told, counted
<1> QED BY <1>1, <1>2, <1>3, <1>4 DEF Aside, Same

\* What is sent comes back on the wires.
LEMMA TransportPublishAside ==
  ASSUME Fixtures, NEW s, WellFormed(s), NEW items \in Seq(Messages),
         NEW w, NEW topic, NEW sent
  PROVE  LET r == TransportPublish(s, w, topic, items, sent)
         IN Same(s, r) /\ Longer(s, r)
<1> DEFINE r == TransportPublish(s, w, topic, items, sent)
           f == FanOut(s, topic, items)
<1>0. DOMAIN s = Fields /\ s.wire \in [Tabs -> Seq(Messages)]
  BY DEF WellFormed
<1>1. CASE ~(sent /\ Up(w))
  <2>1. Aside(s, r)
    BY <1>0, <1>1, GiveUpAside DEF TransportPublish
  <2>2. \A v \in Tabs : Len(s.wire[v]) <= Len(s.wire[v])
    BY <1>0
  <2> QED BY <2>1, <2>2 DEF Aside, Longer
<1>2. CASE sent /\ Up(w)
  <2>1. Same(s, f)
    BY <1>0 DEF FanOut, Same, Fields
  <2>2. ASSUME NEW v \in Tabs PROVE Len(s.wire[v]) <= Len(f.wire[v])
    <3> DEFINE more == Copies(items, Cardinality(Heard(v, topic)))
    <3>1. more \in Seq(Messages) /\ s.wire[v] \in Seq(Messages)
      BY <1>0, HeardFinite, CopiesType
    <3>2. f.wire[v] = s.wire[v] \o more
      BY <1>0 DEF FanOut, Fields
    <3> HIDE DEF more, f
    <3>3. Len(s.wire[v] \o more) = Len(s.wire[v]) + Len(more) /\ Len(more) \in Nat
          /\ Len(s.wire[v]) \in Nat
      BY <3>1, ConcatProperties
    <3> QED BY <3>2, <3>3
  <2>3. PICK a, b : r = [f EXCEPT !.fate = a, !.due = b]
    BY <1>2 DEF TransportPublish
  <2> HIDE DEF r, f
  <2>4. Aside(f, r)
    BY <2>1, <2>3 DEF Aside, Same, Fields
  <2> QED BY <2>1, <2>2, <2>4 DEF Aside, Same, Longer, r
<1> QED BY <1>1, <1>2

\* A request to another tab is a frame, or given up.
LEMMA SendPublishAside ==
  ASSUME NEW s, DOMAIN s = Fields, NEW w, NEW target, NEW topic, NEW items
  PROVE  Aside(s, SendPublish(s, w, target, topic, items))
<1> DEFINE posted == Post(s, w, {target}, [kind |-> "publish", topic |-> topic, items |-> items])
           r == SendPublish(s, w, target, topic, items)
<1>1. Aside(s, posted)
  BY PostAside
<1>2. r = GiveUp(s, Range(items)) \/ r = GiveUp(posted, Range(items)) \/ r = posted
  BY DEF SendPublish
<1> HIDE DEF posted, r
<1>3. Aside(posted, GiveUp(posted, Range(items))) /\ Aside(s, GiveUp(s, Range(items)))
  BY <1>1, GiveUpAside DEF Aside, Same
<1> QED BY <1>1, <1>2, <1>3 DEF Aside, Same, r

\* A publication is looked up in the cache.
LEMMA ClusterPublishAside ==
  ASSUME Fixtures, NEW s, NEW n, NEW items \in Seq(Messages), Sound(s, n, Range(items)),
         Caches(s.cache), NEW w \in Tabs, NEW topic \in Topics, NEW sent
  PROVE  LET r == ClusterPublish(s, w, topic, items, sent)
         IN /\ DOMAIN r = Fields /\ Caches(r.cache)
            /\ r.window = s.window /\ r.log = s.log /\ Longer(s, r)
<1> DEFINE target == PublishTarget(s, w, topic)
           q == Resolved(s, w, topic)
           r == ClusterPublish(s, w, topic, items, sent)
<1>1. WellFormed(s) /\ DOMAIN s = Fields /\ s.wire \in [Tabs -> Seq(Messages)]
  BY DEF Sound, WellFormed
<1>2. WellFormed(q)
  BY ResolvedSound DEF Sound
<1>3. /\ DOMAIN q = Fields /\ Caches(q.cache)
      /\ q.window = s.window /\ q.log = s.log /\ q.wire = s.wire
  BY <1>1, ResolvedCaches
<1>4. CASE topic \in assigned[w]
  <2>1. r = TransportPublish(s, w, topic, items, sent)
    BY <1>4 DEF ClusterPublish
  <2> HIDE DEF r
  <2>2. Same(s, r) /\ Longer(s, r)
    BY <1>1, <2>1, TransportPublishAside
  <2> QED BY <2>2 DEF Same, r
<1> HIDE DEF q
<1>5. CASE topic \notin assigned[w] /\ target = w
  <2>1. r = TransportPublish(q, w, topic, items, sent)
    BY <1>5 DEF ClusterPublish, q
  <2> HIDE DEF r
  <2>2. Same(q, r) /\ Longer(q, r)
    BY <1>2, <2>1, TransportPublishAside
  <2> QED BY <1>3, <2>2 DEF Same, Longer, r
<1>6. CASE topic \notin assigned[w] /\ target # w
  <2>1. r = SendPublish(q, w, target, topic, items)
    BY <1>6 DEF ClusterPublish, q
  <2> HIDE DEF r
  <2>2. Aside(q, r)
    BY <1>3, <2>1, SendPublishAside
  <2>3. \A v \in Tabs : Len(s.wire[v]) <= Len(s.wire[v])
    BY <1>1
  <2> QED BY <1>3, <2>2, <2>3 DEF Same, Aside, Longer, r
<1> QED BY <1>4, <1>5, <1>6

\* A message of the transport is checked against the window, and remembered
\* there and in the log if it is new.
Fresh(m) == [id |-> m, at |-> now]
Gate(s, r, w, m) ==
  LET d == PruneExpired(s.window[w], Adaptive, now)
  IN /\ DOMAIN r = Fields /\ r.cache = s.cache /\ r.wire = s.wire
     /\ \/ setup.dedup = "off" /\ r.window = s.window /\ r.log = s.log
        \/ /\ setup.dedup # "off" /\ Has(d, m)
           /\ r.window = [s.window EXCEPT ![w] = d] /\ r.log = s.log
        \/ /\ setup.dedup # "off" /\ ~Has(d, m)
           /\ r.window = [s.window EXCEPT ![w] = Remember(d, m, now)]
           /\ r.log = [s.log EXCEPT ![w] = Append(s.log[w], Fresh(m))]

\* That is what handleTransportMessage does to them.
LEMMA HandleGate ==
  ASSUME NEW s, DOMAIN s = Fields, NEW w, NEW m
  PROVE  Gate(s, HandleTransportMessage(s, w, m), w, m)
<1> DEFINE d == PruneExpired(s.window[w], Adaptive, now)
           kept == [s EXCEPT !.window[w] = d]
           known == [s EXCEPT !.window[w] = Remember(d, m, now),
                              !.log[w] = Append(@, Fresh(m))]
           r == HandleTransportMessage(s, w, m)
<1>1. CASE setup.dedup = "off"
  <2>1. r = Accept(s, w, m)
    BY <1>1 DEF HandleTransportMessage
  <2> HIDE DEF r
  <2>2. Aside(s, r)
    BY <2>1, AcceptAside
  <2> QED BY <1>1, <2>2 DEF Gate, Aside, Same, r
<1>2. CASE setup.dedup # "off" /\ Has(d, m)
  <2>1. r = kept
    BY <1>2 DEF HandleTransportMessage
  <2> HIDE DEF r
  <2>2. /\ DOMAIN kept = Fields /\ kept.cache = s.cache /\ kept.wire = s.wire
        /\ kept.window = [s.window EXCEPT ![w] = d] /\ kept.log = s.log
    BY DEF Fields
  <2> HIDE DEF kept, d
  <2> QED BY <1>2, <2>1, <2>2 DEF Gate, r, d
<1>3. CASE setup.dedup # "off" /\ ~Has(d, m)
  <2>1. r = Accept(known, w, m)
    BY <1>3 DEF HandleTransportMessage, Fresh
  <2> HIDE DEF r
  <2> DEFINE e == Remember(d, m, now)
  <2>2. known = [s EXCEPT !.window[w] = e, !.log[w] = Append(s.log[w], Fresh(m))]
    BY DEF Fields
  <2> HIDE DEF known, e, d
  <2>3. /\ DOMAIN known = Fields /\ known.cache = s.cache /\ known.wire = s.wire
        /\ known.window = [s.window EXCEPT ![w] = e]
        /\ known.log = [s.log EXCEPT ![w] = Append(s.log[w], Fresh(m))]
    BY <2>2 DEF Fields
  <2>4. Aside(known, r)
    BY <2>1, <2>3, AcceptAside
  <2>5. /\ DOMAIN r = Fields /\ r.cache = s.cache /\ r.wire = s.wire
        /\ r.window = [s.window EXCEPT ![w] = e]
        /\ r.log = [s.log EXCEPT ![w] = Append(s.log[w], Fresh(m))]
    BY <2>3, <2>4 DEF Aside, Same
  <2> QED BY <1>3, <2>5 DEF Gate, r, d, e
<1> QED BY <1>1, <1>2, <1>3

\* A tab that goes away forgets its cache and what it has not read.
LEMMA DeafAside ==
  ASSUME NEW h, WellFormed(h), Caches(h.cache), NEW w \in Tabs
  PROVE  LET r == Deaf(h, w)
         IN /\ DOMAIN r = Fields /\ Caches(r.cache)
            /\ r.window = h.window /\ r.log = h.log
            /\ r.wire = [h.wire EXCEPT ![w] = <<>>]
<1> DEFINE asked == AskedOf(h, w)
           u == GiveUp(h, asked)
           r == Deaf(h, w)
<1>1. DOMAIN h = Fields
  BY DEF WellFormed
<1>2. Aside(h, u)
  BY <1>1, GiveUpAside
<1>3. r = [u EXCEPT
            !.link = [l \in DOMAIN @ |-> IF l[2] = w THEN <<>> ELSE @[l]],
            !.key.closing = IF setup.channel = "storage" /\ Up(w) THEN @ \cup {w} ELSE @,
            !.wire[w] = <<>>, !.cache[w] = <<>>]
  BY AskedOfFrames, Zenon DEF Deaf
<1> HIDE DEF u, r
<1>4. PICK a, b : r = [u EXCEPT !.link = a, !.key = b, !.wire = [u.wire EXCEPT ![w] = <<>>],
                                !.cache = [u.cache EXCEPT ![w] = <<>>]]
  BY <1>2, <1>3 DEF Aside, Same, Fields
<1>5. /\ DOMAIN r = Fields /\ r.cache = [h.cache EXCEPT ![w] = <<>>]
      /\ r.window = h.window /\ r.log = h.log
      /\ r.wire = [h.wire EXCEPT ![w] = <<>>]
  BY <1>2, <1>4 DEF Aside, Same, Fields
<1>6. Caches(r.cache)
  <2>1. <<>> \in Seq(Entries) /\ Len(<<>>) = 0 /\ 0 <= RouteCacheMax
    BY EmptySeq, DeliveryAssumption
  <2> QED BY <1>5, <2>1 DEF Caches
<1> QED BY <1>5, <1>6 DEF r

----------------------------------------------------------------------------
(* The invariant of caches and windows, and what actions do to them.       *)

Memory ==
  /\ Caches(cache) /\ DOMAIN window = Tabs /\ DOMAIN log = Tabs
  /\ \A w \in Tabs : Remembers(window[w], log[w], now, Shortest)
Clocks == /\ now \in 0..setup.time /\ churn \in Nat /\ repeats \in Nat
          /\ churn + repeats <= setup.events

WInv == Inv /\ Memory /\ Clocks

\* No wire gets shorter.
Grown == \A v \in Tabs : Len(wire[v]) <= Len(wire'[v])

\* Times and TTLs are numbers.
LEMMA Numbers ==
  ASSUME WInv
  PROVE  /\ now \in Nat /\ Shortest \in Nat /\ Longest \in Nat /\ Adaptive \in BOOLEAN
         /\ Shortest = IF Adaptive THEN MinMs ELSE TtlMs
         /\ Longest = IF Adaptive THEN MaxMs ELSE TtlMs
         /\ setup.events \in Nat /\ setup.time \in Nat
         /\ wire \in [Tabs -> Seq(Messages)]
<1>1. setup \in Setups
  BY DEF WInv, Inv, Fixtures
<1>2. setup.time \in Nat /\ setup.events \in Nat
  BY <1>1, DeliveryAssumption
<1>3. {TtlMs, MinMs, MaxMs} \subseteq Nat
  BY DedupAssumption
<1>4. wire \in [Tabs -> Seq(Messages)]
  BY Fields0 DEF WInv, Inv, WellFormed
<1> QED BY <1>2, <1>3, <1>4 DEF WInv, Clocks, Shortest, Longest, Adaptive

\* The TTLs are options.
LEMMA SameTtl ==
  ASSUME Setup PROVE Shortest' = Shortest /\ Longest' = Longest
BY DEF Setup, Shortest, Longest, Adaptive

\* Actions that leave windows and logs alone.
LEMMA MemoryStays ==
  ASSUME WInv, Setup, UNCHANGED now, Caches(cache'), UNCHANGED <<window, log>>
  PROVE  Memory'
BY SameTtl DEF WInv, Memory

\* Actions that change the window of one tab.
LEMMA MemoryChanges ==
  ASSUME WInv, Setup, UNCHANGED <<now, cache>>, NEW w \in Tabs,
         DOMAIN window' = Tabs, DOMAIN log' = Tabs,
         \A v \in Tabs \ {w} : window'[v] = window[v] /\ log'[v] = log[v],
         Remembers(window'[w], log'[w], now, Shortest)
  PROVE  Memory'
<1>1. \A v \in Tabs : Remembers(window'[v], log'[v], now, Shortest)
  BY DEF WInv, Memory
<1>2. Caches(cache') /\ now' = now /\ Shortest' = Shortest
  BY SameTtl DEF WInv, Memory
<1> QED BY <1>1, <1>2 DEF Memory

\* What they are after an action that only adds to the wires.
LEMMA SameMemory ==
  ASSUME WInv, Setup, UNCHANGED now, NEW r, Become(r), Caches(r.cache),
         r.window = window, r.log = log, Longer(Here, r)
  PROVE  Memory' /\ Grown
<1>1. cache' = r.cache /\ window' = window /\ log' = log /\ wire' = r.wire
  BY DEF Become
<1>2. Grown
  BY <1>1, Fields0 DEF Longer, Grown
<1> QED BY <1>1, <1>2, MemoryStays

\* Publications are looked up and sent.
LEMMA PublishMemory ==
  ASSUME WInv, NEW w \in Tabs, NEW topic \in Topics, NEW n \in 1..MaxBatch,
         Publish(w, topic, n) \/ PublishRejected(w, topic, n)
  PROVE  Memory' /\ Grown
<1> DEFINE items == [i \in 1..n |-> Len(made) + i]
<1>1. /\ Len(made) + n <= setup.messages /\ made' = made \o [i \in 1..n |-> topic]
      /\ Setup /\ UNCHANGED now
  BY DEF Publish, PublishRejected, Fixed
<1>2. items \in Seq(Messages) /\ Sound(Here, Len(made'), Range(items))
  BY <1>1, Making DEF WInv
<1>3. Fixtures /\ Caches(Here.cache) /\ DOMAIN Here = Fields
  BY Fields0 DEF WInv, Inv, Memory
<1>4. CASE Publish(w, topic, n)
  <2>1. PICK sent \in BOOLEAN : Become(ClusterPublish(Here, w, topic, items, sent))
    BY <1>4 DEF Publish
  <2> HIDE DEF items
  <2> DEFINE r == ClusterPublish(Here, w, topic, items, sent)
  <2>2. Caches(r.cache) /\ r.window = Here.window /\ r.log = Here.log /\ Longer(Here, r)
    BY <1>2, <1>3, ClusterPublishAside
  <2> HIDE DEF r
  <2> QED BY <1>1, <2>1, <2>2, Fields0, SameMemory DEF r
<1>5. CASE PublishRejected(w, topic, n)
  <2> DEFINE r == GiveUp(Here, Range(items))
  <2>1. Become(r)
    BY <1>5 DEF PublishRejected
  <2> HIDE DEF items
  <2>2. Aside(Here, r)
    BY <1>3, GiveUpAside
  <2> HIDE DEF r
  <2>3. Longer(Here, r)
    <3>1. \A v \in Tabs : Len(wire[v]) <= Len(wire[v])
      BY Numbers
    <3> QED BY <2>2, <3>1, Fields0 DEF Aside, Longer
  <2> QED BY <1>1, <1>3, <2>1, <2>2, <2>3, Fields0, SameMemory DEF Aside, Same
<1> QED BY <1>4, <1>5

\* A message is taken from the wire of the tab it arrives at.
LEMMA Arrives ==
  ASSUME WInv, NEW w \in Tabs, Arrive(w)
  PROVE  /\ Head(wire[w]) \in Messages /\ wire' = [wire EXCEPT ![w] = Tail(wire[w])]
         /\ cache' = cache /\ UNCHANGED now /\ Setup
         /\ LET d == PruneExpired(window[w], Adaptive, now)
                m == Head(wire[w])
            IN \/ setup.dedup = "off" /\ UNCHANGED <<window, log>>
               \/ /\ setup.dedup # "off" /\ Has(d, m)
                  /\ window' = [window EXCEPT ![w] = d] /\ UNCHANGED log
               \/ /\ setup.dedup # "off" /\ ~Has(d, m)
                  /\ window' = [window EXCEPT ![w] = Remember(d, m, now)]
                  /\ log' = [log EXCEPT ![w] = Append(log[w], Fresh(m))]
<1> DEFINE s == [Here EXCEPT !.wire[w] = Tail(@)]
           m == Head(wire[w])
           r == HandleTransportMessage(s, w, m)
<1>1. Become(r) /\ Setup /\ UNCHANGED now /\ wire[w] # <<>>
  BY DEF Arrive, Fixed
<1>2. /\ DOMAIN s = Fields /\ s.wire = [wire EXCEPT ![w] = Tail(wire[w])]
      /\ s.cache = cache /\ s.window = window /\ s.log = log
  BY Fields0 DEF Fields
<1> HIDE DEF s
<1>3. Gate(s, r, w, m)
  BY <1>2, HandleGate
<1>4. m \in Messages
  <2>1. wire[w] \in Seq(Messages)
    BY Numbers
  <2> QED BY <1>1, <2>1, HeadTailProperties
<1> HIDE DEF r, m
<1>5. cache' = r.cache /\ window' = r.window /\ log' = r.log /\ wire' = r.wire
  BY <1>1 DEF Become
<1> QED BY <1>1, <1>2, <1>3, <1>4, <1>5, Zenon DEF Gate, m

\* What it takes is remembered.
LEMMA ArriveMemory ==
  ASSUME WInv, NEW w \in Tabs, Arrive(w)
  PROVE  Memory' /\ \A v \in Tabs \ {w} : wire'[v] = wire[v]
<1> DEFINE d == PruneExpired(window[w], Adaptive, now)
           m == Head(wire[w])
<1>1. /\ Remembers(window[w], log[w], now, Shortest) /\ Caches(cache)
      /\ DOMAIN log = Tabs /\ DOMAIN window = Tabs
  BY DEF WInv, Memory
<1>2. Remembers(d, log[w], now, Shortest)
  BY <1>1, Numbers, PruneKeeps
<1>3. Remembers(Remember(d, m, now), Append(log[w], Fresh(m)), now, Shortest)
  BY <1>2, Arrives, Numbers, RememberKeeps DEF Fresh
<1> HIDE DEF d, m
<1>4. /\ m \in Messages /\ wire' = [wire EXCEPT ![w] = Tail(wire[w])]
      /\ cache' = cache /\ UNCHANGED now /\ Setup
      /\ \/ UNCHANGED <<window, log>>
         \/ window' = [window EXCEPT ![w] = d] /\ UNCHANGED log
         \/ /\ window' = [window EXCEPT ![w] = Remember(d, m, now)]
            /\ log' = [log EXCEPT ![w] = Append(log[w], Fresh(m))]
  BY Arrives, Zenon DEF d, m
<1>5. Setup /\ UNCHANGED <<now, cache>>
  BY <1>4
<1>6. CASE UNCHANGED <<window, log>>
  BY <1>1, <1>4, <1>6, MemoryStays
<1>7. CASE window' = [window EXCEPT ![w] = d] /\ UNCHANGED log
  <2>1. /\ DOMAIN window' = Tabs /\ DOMAIN log' = Tabs
        /\ \A v \in Tabs \ {w} : window'[v] = window[v] /\ log'[v] = log[v]
        /\ window'[w] = d /\ log'[w] = log[w]
    BY <1>1, <1>7
  <2> QED BY <1>2, <1>4, <1>5, <2>1, MemoryChanges
<1>8. CASE /\ window' = [window EXCEPT ![w] = Remember(d, m, now)]
           /\ log' = [log EXCEPT ![w] = Append(log[w], Fresh(m))]
  <2>1. /\ DOMAIN window' = Tabs /\ DOMAIN log' = Tabs
        /\ \A v \in Tabs \ {w} : window'[v] = window[v] /\ log'[v] = log[v]
        /\ window'[w] = Remember(d, m, now) /\ log'[w] = Append(log[w], Fresh(m))
    BY <1>1, <1>8
  <2>2. Remembers(window'[w], log'[w], now, Shortest)
    BY <1>3, <2>1, Zenon
  <2>3. /\ DOMAIN window' = Tabs /\ DOMAIN log' = Tabs
        /\ \A v \in Tabs \ {w} : window'[v] = window[v] /\ log'[v] = log[v]
    BY <2>1
  <2>4. Memory'
    BY <1>5, <2>2, <2>3, MemoryChanges
  <2> QED BY <1>4, <2>4, Numbers
<1>9. \A v \in Tabs \ {w} : wire'[v] = wire[v]
  BY <1>4, Numbers
<1> QED BY <1>4, <1>6, <1>7, <1>8, <1>9

----------------------------------------------------------------------------
(* Action by action: caches and windows, and which wires get shorter.      *)

\* No wire of a tab that goes on running gets shorter.
Spared == \A v \in Tabs : phase'[v] = "up" => Len(wire[v]) <= Len(wire'[v])

\* Frames are not remembered.
LEMMA ReceiveMemory ==
  ASSUME WInv, NEW x \in Tabs, NEW w \in Tabs, Receive(x, w)
  PROVE  Memory' /\ Grown
<1> DEFINE frame == Head(link[<<x, w>>])
           s == Popping(Here, <<x, w>>)
<1>1. /\ Here.link = link /\ link[<<x, w>>] # <<>> /\ Sound(Here, Len(made), {}) /\ Fixtures
      /\ s = [Here EXCEPT !.link[<<x, w>>] = Tail(@)]
  BY HereSound, Fields0 DEF Receive, WInv, Inv, Popping
<1>2. /\ UNCHANGED now /\ Setup
      /\ \/ /\ frame.kind = "publish"
            /\ \E sent \in BOOLEAN :
                 Become(TransportPublish(s, w, frame.topic, frame.items, sent))
         \/ /\ frame.kind = "event"
            /\ Become(IF HasLocalSubscriber(w, made[frame.item]) THEN Dispatch(s, w, frame.item)
                      ELSE s)
  BY <1>1 DEF Receive, Fixed
<1>3. Aside(Here, s)
  BY <1>1, Fields0 DEF Aside, Same, Fields
<1> HIDE DEF s
<1>4. Longer(Here, s) /\ Caches(s.cache) /\ s.window = window /\ s.log = log /\ DOMAIN s = Fields
  <2>1. \A v \in Tabs : Len(wire[v]) <= Len(wire[v])
    BY Numbers
  <2> QED BY <1>3, <2>1, Fields0 DEF Aside, Same, Longer, WInv, Memory
<1>5. ASSUME NEW r, Become(r), Same(s, r), Longer(s, r)
      PROVE  Memory' /\ Grown
  <2>1. Longer(Here, r)
    BY <1>3, <1>5, Fields0 DEF Aside, Longer
  <2>2. Caches(r.cache) /\ r.window = window /\ r.log = log
    BY <1>4, <1>5 DEF Same
  <2> QED BY <1>2, <1>5, <2>1, <2>2, SameMemory
<1>6. CASE frame.kind = "publish"
  <2>1. frame.items \in Seq(Messages) /\ Sound(s, Len(made), Range(frame.items))
    BY <1>1, <1>6, AskTaken DEF s
  <2>2. PICK sent \in BOOLEAN : Become(TransportPublish(s, w, frame.topic, frame.items, sent))
    BY <1>2, <1>6
  <2> HIDE DEF frame
  <2> DEFINE r == TransportPublish(s, w, frame.topic, frame.items, sent)
  <2>3. Same(s, r) /\ Longer(s, r)
    BY <1>1, <2>1, TransportPublishAside DEF Sound
  <2> HIDE DEF r
  <2> QED BY <1>5, <2>2, <2>3 DEF r
<1>7. CASE frame.kind = "event"
  <2>1. Become(s) \/ Become(Dispatch(s, w, frame.item))
    BY <1>2, <1>7
  <2> HIDE DEF frame
  <2>2. Same(s, s) /\ Longer(s, s)
    BY <1>3, <1>4, Fields0 DEF Same, Longer, Aside
  <2>3. Aside(s, Dispatch(s, w, frame.item))
    BY <1>4, DispatchAside
  <2>4. Same(s, Dispatch(s, w, frame.item)) /\ Longer(s, Dispatch(s, w, frame.item))
    BY <2>2, <2>3 DEF Aside, Longer
  <2> QED BY <1>5, <2>1, <2>2, <2>4
<1> QED BY <1>2, <1>6, <1>7

\* A message sent again makes a wire longer.
LEMMA RedeliverMemory ==
  ASSUME WInv, NEW w \in Tabs, NEW m \in 1..Len(made), Redeliver(w, m)
  PROVE  Memory' /\ Grown
<1> DEFINE s == [Here EXCEPT !.wire[w] = Append(@, m)]
<1>1. Become(s) /\ UNCHANGED now /\ Setup
  BY DEF Redeliver
<1>2. /\ s.wire = [wire EXCEPT ![w] = Append(wire[w], m)] /\ s.cache = cache
      /\ s.window = window /\ s.log = log
  BY Fields0 DEF Fields
<1> HIDE DEF s
<1>3. Longer(Here, s)
  BY <1>2, Numbers, Fields0 DEF Longer
<1>4. Caches(s.cache)
  BY <1>2 DEF WInv, Memory
<1> QED BY <1>1, <1>2, <1>3, <1>4, SameMemory

\* Sweeps and statistics drop what has expired, resets everything.
LEMMA WindowMemory ==
  ASSUME WInv, NEW w \in Tabs,
         Sweep(w) \/ GetDedupStats(w) \/ ResetDedup(w) \/ Stopped(w)
  PROVE  Memory' /\ Grown
<1> DEFINE d == PruneExpired(window[w], Adaptive, now)
           e == Rolled(window[w], Adaptive, now)
<1>1. /\ Remembers(window[w], log[w], now, Shortest)
      /\ DOMAIN log = Tabs /\ DOMAIN window = Tabs
  BY DEF WInv, Memory
<1>2. Setup /\ UNCHANGED now
  BY DEF Sweep, GetDedupStats, ResetDedup, Stopped, Fixed, Churns
<1>3. ASSUME NEW a, NEW b, Remembers(a, b, now, Shortest), UNCHANGED <<cache, wire>>,
             window' = [window EXCEPT ![w] = a],
             log' = [log EXCEPT ![w] = b] \/ (log' = log /\ b = log[w])
      PROVE  Memory' /\ Grown
  <2>1. /\ DOMAIN window' = Tabs /\ DOMAIN log' = Tabs
        /\ \A v \in Tabs \ {w} : window'[v] = window[v] /\ log'[v] = log[v]
        /\ window'[w] = a /\ log'[w] = b
    BY <1>1, <1>3
  <2>2. Remembers(window'[w], log'[w], now, Shortest)
    BY <1>3, <2>1, Zenon
  <2>3. Setup /\ UNCHANGED <<now, cache>>
    BY <1>2, <1>3
  <2>4. Memory'
    BY <2>1, <2>2, <2>3, MemoryChanges
  <2> QED BY <1>3, <2>4, Numbers DEF Grown
<1>4. CASE Sweep(w)
  <2> DEFINE r == [Here EXCEPT !.window[w] = PruneExpired(@, Adaptive, now)]
  <2>1. Become(r)
    BY <1>4 DEF Sweep
  <2>2. /\ r.window = [window EXCEPT ![w] = d] /\ r.log = log
        /\ r.cache = cache /\ r.wire = wire
    BY Fields0 DEF Fields
  <2> HIDE DEF r
  <2>3. Remembers(d, log[w], now, Shortest)
    BY <1>1, Numbers, PruneKeeps
  <2> HIDE DEF d
  <2>4. window' = [window EXCEPT ![w] = d] /\ log' = log /\ UNCHANGED <<cache, wire>>
    BY <2>1, <2>2 DEF Become
  <2> QED BY <1>3, <2>3, <2>4
<1>5. CASE GetDedupStats(w)
  <2> DEFINE r == [Here EXCEPT !.window[w] = Rolled(@, Adaptive, now)]
  <2>1. Become(r)
    BY <1>5 DEF GetDedupStats
  <2>2. /\ r.window = [window EXCEPT ![w] = e] /\ r.log = log
        /\ r.cache = cache /\ r.wire = wire
    BY Fields0 DEF Fields
  <2> HIDE DEF r
  <2>3. Remembers(e, log[w], now, Shortest)
    BY <1>1, Numbers, RolledKeeps
  <2> HIDE DEF e
  <2>4. window' = [window EXCEPT ![w] = e] /\ log' = log /\ UNCHANGED <<cache, wire>>
    BY <2>1, <2>2 DEF Become
  <2> QED BY <1>3, <2>3, <2>4
<1>6. CASE ResetDedup(w) \/ Stopped(w)
  <2> DEFINE r == Emptied(w)
             a == EmptyWindow(now)
  <2>1. Become(r)
    BY <1>6 DEF ResetDedup, Stopped
  <2>2. /\ r.window = [window EXCEPT ![w] = a] /\ r.log = [log EXCEPT ![w] = <<>>]
        /\ r.cache = cache /\ r.wire = wire
    BY Fields0 DEF Fields, Emptied
  <2> HIDE DEF r
  <2>3. Remembers(a, <<>>, now, Shortest)
    BY Numbers, EmptyKeeps
  <2> HIDE DEF a
  <2>4. /\ window' = [window EXCEPT ![w] = a] /\ log' = [log EXCEPT ![w] = <<>>]
        /\ UNCHANGED <<cache, wire>>
    BY <2>1, <2>2 DEF Become
  <2> QED BY <1>3, <2>3, <2>4
<1> QED BY <1>4, <1>5, <1>6

\* A tab that goes away keeps its window; its wire is dropped.
LEMMA DeafMemory ==
  ASSUME WInv, NEW w \in Tabs, Suspend(w) \/ Stop(w) \/ Crash(w)
  PROVE  Memory' /\ Spared
<1> DEFINE d == Deaf(Here, w)
           c == [Deaf(Here, w) EXCEPT !.key.closing = @ \ {w}]
<1>1. WellFormed(Here) /\ Caches(Here.cache)
  BY Fields0 DEF WInv, Inv, Memory
<1>2. /\ DOMAIN d = Fields /\ Caches(d.cache) /\ d.window = window /\ d.log = log
      /\ d.wire = [wire EXCEPT ![w] = <<>>]
  BY <1>1, Fields0, DeafAside
<1>3. c.cache = d.cache /\ c.window = d.window /\ c.log = d.log /\ c.wire = d.wire
  <2>1. c = [d EXCEPT !.key.closing = @ \ {w}]
    OBVIOUS
  <2> HIDE DEF c, d
  <2> QED BY <1>2, <2>1 DEF Fields
<1>4. (Become(d) \/ Become(c)) /\ Setup /\ UNCHANGED now
  BY DEF Suspend, Stop, Crash, Churns
<1>5. phase'[w] # "up"
  BY DEF Suspend, Stop, Crash, WInv, Inv, Fixtures
<1> HIDE DEF c, d
<1>6. Caches(cache') /\ UNCHANGED <<window, log>> /\ wire' = [wire EXCEPT ![w] = <<>>]
  BY <1>2, <1>3, <1>4 DEF Become
<1>7. Memory'
  BY <1>4, <1>6, MemoryStays
<1> QED BY <1>5, <1>6, <1>7, Numbers DEF Spared

\* Actions that change neither caches nor windows, time aside.
LEMMA StillMemory ==
  ASSUME WInv, Setup, UNCHANGED now \/ (now' = now + 1),
         UNCHANGED <<cache, window, log, wire>>
  PROVE  Memory' /\ Grown
<1>1. Caches(cache') /\ DOMAIN window' = Tabs /\ DOMAIN log' = Tabs
  BY DEF WInv, Memory
<1>2. \A v \in Tabs : Remembers(window[v], log[v], now', Shortest)
  BY Numbers, LaterKeeps DEF WInv, Memory
<1>3. Memory'
  BY <1>1, <1>2, SameTtl DEF Memory
<1> QED BY <1>3, Numbers DEF Grown

\* These are the changes of keys, owners, subscribers and the clock.
LEMMA OtherMemory ==
  ASSUME WInv,
         \/ Tick \/ Quota
         \/ \E w \in Tabs : \/ \E n \in Names : \/ Subscribe(w, n) \/ Unsubscribe(w, n)
                                                \/ Take(w, n) \/ LetGo(w, n)
                            \/ WriteRecord(w) \/ Start(w) \/ CloseChannel(w)
         \/ \E topic \in Topics, owner \in Tabs \cup {None} : WriteRoute(topic, owner)
         \/ UNCHANGED vars
  PROVE  Memory' /\ Grown
<1>1. Become(Here) => UNCHANGED <<cache, window, log, wire>>
  BY Fields0 DEF Become
<1>2. ASSUME NEW r, Become(r), NEW k, r = [Here EXCEPT !.key = k]
      PROVE  UNCHANGED <<cache, window, log, wire>>
  BY <1>2, Fields0 DEF Become, Fields
<1>3. CASE Tick \/ UNCHANGED vars
  <2>1. Setup /\ (UNCHANGED now \/ now' = now + 1) /\ UNCHANGED <<cache, window, log, wire>>
    BY <1>1, <1>3 DEF Tick, vars, Setup
  <2> QED BY <2>1, StillMemory
<1>4. CASE Quota
  <2> DEFINE k == [key EXCEPT !.full = ~@]
             r == [Here EXCEPT !.key.full = ~@]
  <2>1. Become(r) /\ Setup /\ UNCHANGED now
    BY <1>4 DEF Quota, Churns
  <2>2. r = [Here EXCEPT !.key = k]
    BY Fields0 DEF Fields
  <2> HIDE DEF k, r
  <2> QED BY <1>2, <2>1, <2>2, StillMemory
<1>5. ASSUME NEW w \in Tabs, CloseChannel(w) PROVE Memory' /\ Grown
  <2> DEFINE k == [Here.key EXCEPT !.value = Empty, !.closing = @ \ {w}]
             r == [Here EXCEPT !.key.value = Empty, !.key.closing = @ \ {w}]
  <2>1. Become(r) /\ Setup /\ UNCHANGED now
    BY <1>5 DEF CloseChannel, Fixed
  <2>2. r = [Here EXCEPT !.key = k]
    OBVIOUS
  <2> HIDE DEF k, r
  <2> QED BY <1>2, <2>1, <2>2, StillMemory
<1>6. ASSUME NEW w \in Tabs, NEW n \in Names,
             Subscribe(w, n) \/ Unsubscribe(w, n) \/ Take(w, n) \/ LetGo(w, n)
      PROVE  Memory' /\ Grown
  <2>1. Become(Here) /\ Setup /\ UNCHANGED now
    BY <1>6 DEF Subscribe, Unsubscribe, Take, LetGo, Churns
  <2> QED BY <1>1, <2>1, StillMemory
<1>7. ASSUME NEW w \in Tabs, WriteRecord(w) \/ Start(w) PROVE Memory' /\ Grown
  <2>1. Become(Here) /\ Setup /\ UNCHANGED now
    BY <1>7 DEF WriteRecord, Start, Churns
  <2> QED BY <1>1, <2>1, StillMemory
<1>8. ASSUME NEW topic \in Topics, NEW owner \in Tabs \cup {None}, WriteRoute(topic, owner)
      PROVE  Memory' /\ Grown
  <2>1. Become(Here) /\ Setup /\ UNCHANGED now
    BY <1>8 DEF WriteRoute, Churns
  <2> QED BY <1>1, <2>1, StillMemory
<1> QED BY <1>3, <1>4, <1>5, <1>6, <1>7, <1>8

----------------------------------------------------------------------------
(* The invariant, step by step.                                            *)

\* The clock, the changes and the repetitions stay within their bounds.
LEMMA Counts ==
  ASSUME WInv, [Next]_vars
  PROVE  Clocks'
<1>1. /\ Setup
      /\ \/ UNCHANGED <<now, churn, repeats>>
         \/ now < setup.time /\ now' = now + 1 /\ UNCHANGED <<churn, repeats>>
         \/ More /\ churn' = churn + 1 /\ UNCHANGED <<now, repeats>>
         \/ More /\ repeats' = repeats + 1 /\ UNCHANGED <<now, churn>>
  <2>1. CASE UNCHANGED vars
    BY <2>1 DEF vars, Setup
  <2>2. ASSUME NEW w \in Tabs,
               \/ \E topic \in Topics, n \in 1..MaxBatch :
                    Publish(w, topic, n) \/ PublishRejected(w, topic, n)
               \/ Arrive(w) \/ Sweep(w) \/ GetDedupStats(w) \/ Stopped(w) \/ CloseChannel(w)
               \/ \E x \in Tabs : Receive(x, w)
        PROVE  Fixed
    BY <2>2, Zenon DEF Publish, PublishRejected, Arrive, Sweep, GetDedupStats, Stopped,
       CloseChannel, Receive
  <2>3. ASSUME NEW w \in Tabs,
               \/ \E n \in Names : Subscribe(w, n) \/ Unsubscribe(w, n) \/ Take(w, n) \/ LetGo(w, n)
               \/ WriteRecord(w) \/ Suspend(w) \/ Crash(w) \/ Stop(w)
               \/ ResetDedup(w) \/ Start(w)
        PROVE  Churns
    BY <2>3, Zenon DEF Subscribe, Unsubscribe, Take, LetGo, WriteRecord, Suspend, Crash, Stop,
       ResetDedup, Start
  <2>4. ASSUME \/ \E topic \in Topics, owner \in Tabs \cup {None} : WriteRoute(topic, owner)
               \/ Quota
        PROVE  Churns
    BY <2>4, Zenon DEF WriteRoute, Quota
  <2>5. ASSUME NEW w \in Tabs, NEW m \in 1..Len(made), Redeliver(w, m)
        PROVE  Setup /\ More /\ repeats' = repeats + 1 /\ UNCHANGED <<now, churn>>
    BY <2>5 DEF Redeliver
  <2>6. CASE Tick
    BY <2>6 DEF Tick
  <2>7. \/ UNCHANGED vars \/ Fixed \/ Churns \/ Tick
        \/ Setup /\ More /\ repeats' = repeats + 1 /\ UNCHANGED <<now, churn>>
    BY <2>2, <2>3, <2>4, <2>5, Zenon DEF Next
  <2> QED BY <2>1, <2>6, <2>7 DEF Fixed, Churns
<1>2. now \in 0..setup.time /\ churn \in Nat /\ repeats \in Nat
      /\ churn + repeats <= setup.events /\ setup.time \in Nat /\ setup.events \in Nat
  BY Numbers DEF WInv, Clocks
<1>3. CASE UNCHANGED <<now, churn, repeats>>
  BY <1>1, <1>2, <1>3 DEF Clocks, Setup
<1>4. CASE now < setup.time /\ now' = now + 1 /\ UNCHANGED <<churn, repeats>>
  BY <1>1, <1>2, <1>4 DEF Clocks, Setup
<1>5. CASE More /\ churn' = churn + 1 /\ UNCHANGED <<now, repeats>>
  BY <1>1, <1>2, <1>5 DEF Clocks, Setup, More
<1>6. CASE More /\ repeats' = repeats + 1 /\ UNCHANGED <<now, churn>>
  BY <1>1, <1>2, <1>6 DEF Clocks, Setup, More
<1> QED BY <1>1, <1>3, <1>4, <1>5, <1>6

\* Every step keeps caches and windows, and only the arrival of a message takes
\* one from the wire of a tab that goes on running.
LEMMA Moves ==
  ASSUME WInv, [Next]_vars
  PROVE  /\ Memory'
         /\ \/ Spared
            \/ \E w \in Tabs : Arrive(w) /\ \A v \in Tabs \ {w} : wire'[v] = wire[v]
<1>0. Grown => Spared
  BY DEF Grown, Spared
<1> DEFINE Goal == /\ Memory'
                   /\ \/ Spared
                      \/ \E w \in Tabs : Arrive(w) /\ \A v \in Tabs \ {w} : wire'[v] = wire[v]
<1>1. Memory' /\ Grown => Goal
  BY <1>0
<1>2. ASSUME NEW w \in Tabs, NEW topic \in Topics, NEW n \in 1..MaxBatch,
             Publish(w, topic, n) \/ PublishRejected(w, topic, n)
      PROVE  Goal
  BY <1>1, <1>2, PublishMemory
<1>3. ASSUME NEW w \in Tabs, Arrive(w) PROVE Goal
  BY <1>3, ArriveMemory
<1>4. ASSUME NEW w \in Tabs, NEW x \in Tabs, Receive(x, w) PROVE Goal
  BY <1>1, <1>4, ReceiveMemory
<1>5. ASSUME NEW w \in Tabs, NEW m \in 1..Len(made), Redeliver(w, m) PROVE Goal
  BY <1>1, <1>5, RedeliverMemory
<1>6. ASSUME NEW w \in Tabs, Sweep(w) \/ GetDedupStats(w) \/ ResetDedup(w) \/ Stopped(w)
      PROVE  Goal
  BY <1>1, <1>6, WindowMemory
<1>7. ASSUME NEW w \in Tabs, Suspend(w) \/ Stop(w) \/ Crash(w) PROVE Goal
  BY <1>7, DeafMemory
<1>8. ASSUME \/ Tick \/ Quota
             \/ \E w \in Tabs : \/ \E n \in Names : \/ Subscribe(w, n) \/ Unsubscribe(w, n)
                                                    \/ Take(w, n) \/ LetGo(w, n)
                                \/ WriteRecord(w) \/ Start(w) \/ CloseChannel(w)
             \/ \E topic \in Topics, owner \in Tabs \cup {None} : WriteRoute(topic, owner)
             \/ UNCHANGED vars
      PROVE  Goal
  BY <1>1, <1>8, OtherMemory
<1> HIDE DEF Goal
<1>9. Goal
  BY <1>2, <1>3, <1>4, <1>5, <1>6, <1>7, <1>8, Zenon DEF Next
<1> QED BY <1>9 DEF Goal

\* Nothing is cached or remembered at first.
LEMMA InitWInv == Init => WInv
<1> SUFFICES ASSUME Init PROVE WInv
  OBVIOUS
<1>1. Inv
  BY InitInv
<1>2. now = 0 /\ churn = 0 /\ repeats = 0 /\ setup \in Setups
      /\ window = [w \in Tabs |-> EmptyWindow(0)] /\ log = [w \in Tabs |-> <<>>]
      /\ cache = [w \in Tabs |-> <<>>]
  BY DEF Init
<1>3. setup.time \in Nat /\ setup.events \in Nat
  BY <1>2, DeliveryAssumption
<1>4. Clocks
  BY <1>2, <1>3 DEF Clocks
<1>5. Caches(cache)
  <2>1. <<>> \in Seq(Entries) /\ Len(<<>>) = 0 /\ 0 <= RouteCacheMax
    BY EmptySeq, DeliveryAssumption
  <2> QED BY <1>2, <2>1 DEF Caches
<1>6. \A w \in Tabs : Remembers(window[w], log[w], now, Shortest)
  BY <1>2, EmptyKeeps
<1> QED BY <1>1, <1>2, <1>4, <1>5, <1>6 DEF WInv, Memory

\* It stays.
LEMMA NextWInv ==
  ASSUME WInv, [Next]_vars
  PROVE  WInv'
BY NextInv, Moves, Counts DEF WInv

\* It gives every variable its type, and the two caches their caps.
LEMMA WInvTypes == WInv => TypeOK
<1> SUFFICES ASSUME WInv PROVE TypeOK
  OBVIOUS
<1>1. Fixtures /\ WellFormed(Here) /\ KeyOK(key)
  BY Fields0 DEF WInv, Inv, WellFormed
<1>2. /\ link \in [Tabs \X Tabs -> Seq(Frames)] /\ wire \in [Tabs -> Seq(Messages)]
      /\ fate \in [Messages -> [handed : Nat, lost : Nat]] /\ fanned \in [Messages -> Nat]
  BY <1>1, Fields0 DEF WellFormed, Links
<1>3. ASSUME NEW w \in Tabs
      PROVE  /\ cache[w] \in Seq(Entries) /\ Len(cache[w]) <= RouteCacheMax
             /\ wire[w] \in Seq(Messages)
             /\ window[w].seen \in Seq([id : Messages, at : 0..now])
             /\ Len(window[w].seen) <= MaxEntries
             /\ window[w].startedAt \in 0..now /\ window[w].accepted \in Nat
             /\ \A x \in Tabs : link[<<x, w>>] \in Seq(Frames)
  <2>1. cache[w] \in Seq(Entries) /\ Len(cache[w]) <= RouteCacheMax
    BY DEF WInv, Memory, Caches
  <2>2. window[w] \in Windows(now) /\ Len(window[w].seen) <= MaxEntries
    BY DEF WInv, Memory, Remembers
  <2>3. /\ window[w].seen \in Seq([id : Messages, at : 0..now])
        /\ window[w].startedAt \in 0..now /\ window[w].accepted \in Nat
    BY <2>2 DEF Windows, Noted
  <2>4. \A x \in Tabs : link[<<x, w>>] \in Seq(Frames)
    BY <1>2
  <2> QED BY <1>2, <2>1, <2>2, <2>3, <2>4
<1>4. now \in 0..setup.time /\ churn + repeats \in 0..setup.events
  BY Numbers DEF WInv, Clocks
<1> QED BY <1>1, <1>2, <1>3, <1>4 DEF TypeOK, Fixtures, KeyOK

\* A message that is not new is among those remembered, and one that was
\* accepted lately is not new.
LEMMA WInvWindow ==
  ASSUME WInv, [Next]_vars, NEW w \in Tabs, setup.dedup # "off", phase'[w] = "up",
         wire[w] # <<>>, wire'[w] = Tail(wire[w])
  PROVE  LET earlier == {i \in 1..Len(log[w]) : log[w][i].id = Head(wire[w])}
         IN /\ (\E i \in earlier : Age(log[w][i]) <= Shortest /\ Len(log[w]) - i < MaxEntries)
                => log'[w] = log[w]
            /\ log'[w] = log[w] => \E i \in earlier : Age(log[w][i]) <= Longest
<1> DEFINE m == Head(wire[w])
           l == log[w]
           d == PruneExpired(window[w], Adaptive, now)
<1>1. wire \in [Tabs -> Seq(Messages)] /\ Len(wire'[w]) < Len(wire[w])
  <2>1. wire \in [Tabs -> Seq(Messages)]
    BY Numbers
  <2>2. wire[w] \in Seq(Messages)
    BY <2>1
  <2>3. Len(Tail(wire[w])) = Len(wire[w]) - 1 /\ Len(wire[w]) \in Nat
    BY <2>2, HeadTailProperties, LenProperties
  <2> QED BY <2>1, <2>3
<1>2. Arrive(w)
  <2>1. ~Spared
    <3>1. Len(wire[w]) \in Nat /\ Len(wire'[w]) \in Nat
      BY <1>1
    <3> QED BY <1>1, <3>1 DEF Spared
  <2>2. PICK v \in Tabs : Arrive(v) /\ \A u \in Tabs \ {v} : wire'[u] = wire[u]
    BY <2>1, Moves
  <2>3. wire'[w] # wire[w]
    BY <1>1
  <2> QED BY <2>2, <2>3
<1>3. /\ Remembers(window[w], l, now, Shortest) /\ DOMAIN log = Tabs
  BY DEF WInv, Memory
<1>4. /\ Remembers(d, l, now, Shortest)
      /\ \A p \in 1..Len(d.seen) : now - d.seen[p].at <= Longest
  BY <1>3, Numbers, PruneKeeps
<1>5. \/ Has(d, m) /\ UNCHANGED log
      \/ ~Has(d, m) /\ log' = [log EXCEPT ![w] = Append(l, Fresh(m))]
  BY <1>2, Arrives, Zenon
<1> HIDE DEF d, m
<1>6. l \in Seq(Noted(now)) /\ d.seen \in Seq(Noted(now))
      /\ Backed(d, l) /\ Recent(d, l, now, Shortest)
  BY <1>4 DEF Remembers, Windows
<1>7. ASSUME NEW i \in 1..Len(l), l[i].id = m, now - l[i].at <= Shortest,
             Len(l) - i < MaxEntries
      PROVE  log'[w] = l
  <2>1. PICK p \in 1..Len(d.seen) : d.seen[p] = l[i]
    BY <1>6, <1>7 DEF Recent, Place
  <2>2. Has(d, m)
    BY <1>7, <2>1 DEF Has
  <2> QED BY <1>5, <2>2
<1>8. ASSUME log'[w] = l
      PROVE  \E i \in 1..Len(l) : l[i].id = m /\ now - l[i].at <= Longest
  <2>1. Has(d, m)
    <3>1. SUFFICES ASSUME log'[w] = Append(l, Fresh(m)) PROVE FALSE
      BY <1>3, <1>5
    <3>2. Len(Append(l, Fresh(m))) = Len(l) + 1 /\ Len(l) \in Nat
      BY <1>6
    <3> QED BY <1>8, <3>1, <3>2
  <2>2. PICK p \in 1..Len(d.seen) : d.seen[p].id = m
    BY <2>1 DEF Has
  <2>3. PICK i \in 1..Len(l) : l[i] = d.seen[p]
    BY <1>6 DEF Backed
  <2> QED BY <1>4, <2>2, <2>3
<1> QED BY <1>7, <1>8 DEF Age, m
\* A publication goes to the transport of one tab, once, or is given up, once,
\* and a tab that publishes believes a cached owner only while it is the live
\* one: publish of cluster.ts, for any tabs, topics, owners, channel and bounds.
THEOREM PublishedOnce == Spec => []GoesToOwnerOnce
<1>1. Inv => GoesToOwnerOnce
  BY InvSentOnce, InvCacheIsHonest DEF GoesToOwnerOnce
<1> QED BY InitInv, NextInv, <1>1, PTL DEF Spec

\* No handler is called more often than some tab accepted the message, the
\* events on their way counted: dispatch and the broadcast of data-bus.ts.
THEOREM CalledOnce == Spec => []OncePerAcceptance
<1>1. Inv => OncePerAcceptance
  <2>1. \A v, m : ToldIn(Here, v, m) = Told(v, m)
    BY Fields0 DEF ToldIn, Told
  <2> QED BY <2>1, Fields0 DEF Inv, Called, OncePerAcceptance
<1> QED BY InitInv, NextInv, <1>1, PTL DEF Spec

\* Every variable has its type, and neither the owners a tab caches nor the ids
\* it remembers outgrow their caps: touchRouteOwnerCache of cluster.ts and
\* isDuplicate of dedup-manager.ts, for any caps.
THEOREM TypeCorrect == Spec => []TypeOK
BY InitWInv, NextWInv, WInvTypes, PTL DEF Spec

\* A duplicate is suppressed while it is among the last MaxEntries accepted and
\* younger than the shortest TTL, and nothing is suppressed that was not accepted
\* within the longest: isDuplicate of dedup-manager.ts behind
\* handleTransportMessage of data-bus.ts, for any cap, TTL and clock.
THEOREM WindowKept == Spec => WindowIsKept
<1> DEFINE Suppresses == \A w \in Tabs :
       /\ setup.dedup # "off" /\ phase'[w] = "up"
       /\ wire[w] # <<>> /\ wire'[w] = Tail(wire[w])
       => LET earlier == {i \in 1..Len(log[w]) : log[w][i].id = Head(wire[w])}
          IN /\ (\E i \in earlier : Age(log[w][i]) <= Shortest /\ Len(log[w]) - i < MaxEntries)
                => log'[w] = log[w]
             /\ log'[w] = log[w] => \E i \in earlier : Age(log[w][i]) <= Longest
<1>1. WInv /\ [Next]_vars => [Suppresses]_vars
  <2> SUFFICES ASSUME WInv, [Next]_vars PROVE Suppresses
    OBVIOUS
  <2> QED BY WInvWindow, Zenon
<1> QED BY <1>1, InitWInv, NextWInv, PTL DEF Spec, WindowIsKept
=============================================================================
