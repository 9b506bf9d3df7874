--------------------------- MODULE DataBusProofs ---------------------------
(***************************************************************************)
(* Proofs about DataBus, for any topics, transports, reactions and bounds: *)
(* that the types are kept, that the calls of the transport come in order  *)
(* (CallsInOrder), that a closed recovery gate has a keeper                *)
(* (GateHasKeeper), that what ready() answers is about the connection      *)
(* there is (ReadyIsReal), and that no connection is taken for a new one   *)
(* (StartsFresh).                                                          *)
(*                                                                         *)
(* The functions of Lifecycle map a state of the bus to another and call   *)
(* the application in between.  So the invariant is stated of such states: *)
(* Core holds whenever the application is called, also in the middle of a  *)
(* function; Bound, only when a step is over.  One lemma per function says *)
(* that it keeps them, first for the calls that a status handler makes     *)
(* (Plain!...), then for those of everybody else.                          *)
(***************************************************************************)
EXTENDS DataBus, FiniteSetTheorems, TLAPS

----------------------------------------------------------------------------
(* States.                                                                 *)

Refs == Chains \cup {None}
Downs == [at : {"none", "opening", "waiting", "stopping"}, on : Refs]
Buses ==
  [limit : Nat, started : BOOLEAN, stopping : BOOLEAN, suspended : BOOLEAN,
   status : Statuses, ready : BOOLEAN, connected : BOOLEAN, config : BOOLEAN,
   current : Refs, heard : BOOLEAN, startPromise : Refs, pendingStop : Refs,
   queued : BOOLEAN, down : Downs, gate : BOOLEAN, demand : BOOLEAN, timer : BOOLEAN,
   cooled : BOOLEAN, attempt : Nat, exhausted : BOOLEAN, lastError : BOOLEAN,
   topics : SUBSET Topics]
Clusters == [running : BOOLEAN, listening : BOOLEAN, paused : BOOLEAN, assigned : SUBSET Topics]
Pages == {"visible", "hidden", "gone"}
States == [bus : Buses, chain : [Chains -> ChainRecords], ops : SUBSET Waiters,
           link : Links(Topics), cluster : Clusters, page : Pages]

Counted(s) == s.bus.attempt <= s.bus.limit + 1

----------------------------------------------------------------------------
(* The invariant: the chains.                                              *)

Flying(s) == {c \in Chains : s.chain[c].at \in {"waiting", "dialing", "stopping"}}

\* The fields of a chain agree.
Shaped(x) ==
  /\ x.at = "idle" => x = NoChain
  /\ x.at # "idle" => x.kind \in {"open", "stop"}
  /\ x.kind = "stop" => x.at \in {"waiting", "stopping", "ok"} /\ x.then = {}
  /\ x.kind = "open" => x.at \in {"waiting", "dialing", "ok", "failed"}
  /\ x.at # "waiting" => x.after = None
Chained(s) == \A c \in Chains : Shaped(s.chain[c])

\* Nothing refers to an idle chain.
Alive(s, c) == c \in Chains => s.chain[c].at # "idle"
Named(s) == /\ Alive(s, s.bus.startPromise) /\ Alive(s, s.bus.pendingStop)
            /\ Alive(s, s.bus.down.on) /\ Alive(s, s.bus.current)
            /\ \A c \in Chains : Alive(s, s.chain[c].after)
            /\ \A o \in s.ops : Alive(s, o.on)

\* The chains in flight form a queue: pos is the place of each, the first one
\* waits for nobody, each other one for the one before it, and Latest is last.
Head(s, c) == s.chain[c].at = "waiting" => Done(s, s.chain[c].after)
Placed(s, pos) ==
  /\ \A c, d \in Flying(s) : pos[c] = pos[d] => c = d
  /\ \A c \in Flying(s) : ~Head(s, c) => pos[c] = pos[s.chain[c].after] + 1
  /\ \A c, d \in Flying(s) : Head(s, c) => pos[c] <= pos[d]
  /\ \A c \in Flying(s) : Latest(s) \in Flying(s) /\ pos[c] <= pos[Latest(s)]
Queued(s) == \E pos \in [Chains -> Int] : Placed(s, pos)

----------------------------------------------------------------------------
(* The invariant: the bus.                                                 *)

Hushed(s) == s.bus.suspended \/ s.bus.stopping

\* A stop is the start promise of a bus that is suspended or stopping only.
StopsAreStops(s) ==
  /\ s.bus.pendingStop # None => s.chain[s.bus.pendingStop].kind = "stop"
  /\ s.bus.startPromise # None /\ s.chain[s.bus.startPromise].kind = "stop"
       => s.bus.startPromise = s.bus.pendingStop /\ Hushed(s)

CurrentIsOpen(s) ==
  /\ s.bus.current # None => s.chain[s.bus.current].kind = "open"
  /\ s.bus.current \in Flying(s) => s.bus.startPromise = s.bus.current
  /\ Hushed(s) => s.bus.current = None /\ ~s.bus.heard

Phased(s) == /\ ~s.bus.started => s.bus.startPromise = None /\ ~s.bus.suspended
             /\ s.bus.started => s.bus.config
             /\ s.bus.suspended => ~s.bus.ready

\* The start promise of an active bus is its current opening, or the one that
\* made it ready.
OpeningIsCurrent(s) ==
  s.bus.startPromise # None /\ s.chain[s.bus.startPromise].kind = "open" /\ ~Hushed(s)
    => /\ s.bus.current = s.bus.startPromise
       /\ \/ s.bus.startPromise \in Flying(s)
          \/ s.chain[s.bus.startPromise].at = "ok" /\ s.bus.ready

\* performStop, from beginStop to its finally.
Torn(s) ==
  /\ s.bus.stopping <=> s.bus.down.at # "none"
  /\ s.bus.down.at = "opening" => s.bus.startPromise \in {s.bus.down.on, None}
  /\ s.bus.down.at = "waiting" => /\ s.bus.down.on = s.bus.pendingStop
                                  /\ s.bus.pendingStop # None
                                  /\ Done(s, s.bus.startPromise)
  /\ s.bus.down.at = "stopping" => Flying(s) = {} /\ ~s.link.live

\* A transport that was stopped is down until an opening begins.
Dark(s) ==
  /\ \A c \in Chains : s.chain[c].at = "stopping" => ~s.link.live
  /\ s.bus.pendingStop # None /\ Done(s, s.bus.pendingStop) => ~s.link.live
  /\ ~s.bus.started /\ ~s.bus.stopping /\ s.bus.pendingStop = None => ~s.link.live
  /\ s.link.kind = "websocket" /\ s.link.live => s.link.phase # "closed"

ReadyRests(s) ==
  s.bus.ready /\ ~s.bus.stopping => s.bus.pendingStop = None /\ Flying(s) = {}

RuntimeOff(s) ==
  ~s.bus.started \/ s.bus.stopping
    => ~s.cluster.running /\ ~s.cluster.listening /\ ~s.cluster.paused

GateIsOurs(s) == /\ s.bus.gate => s.bus.started /\ ~Hushed(s)
                 /\ s.bus.gate /\ ~s.bus.cooled => s.bus.timer

Base(s) == /\ s \in States /\ Counted(s)
           /\ Chained(s) /\ Named(s) /\ Queued(s)
           /\ StopsAreStops(s) /\ CurrentIsOpen(s) /\ Phased(s) /\ OpeningIsCurrent(s)
           /\ Torn(s) /\ Dark(s) /\ ReadyRests(s) /\ RuntimeOff(s) /\ GateIsOurs(s)

----------------------------------------------------------------------------
(* The invariant: the current opening, and who helps a bus that is lost.   *)

Able(l) == ~l.live \/ l.phase = "closed"

At(s) == IF s.bus.current = None THEN "none" ELSE s.chain[s.bus.current].at

\* The current opening waits for the pending stop, or the transport is down.
WaitsWell(s) ==
  At(s) = "waiting" => /\ s.chain[s.bus.current].after = s.bus.pendingStop
                       /\ s.bus.pendingStop = None => Able(s.link)
                       /\ s.bus.status = "connecting" /\ ~s.bus.heard

\* A bus with a connection, or about to have one, hears of its end.
Using(s) == At(s) = "dialing" \/ (s.bus.ready /\ ~s.bus.stopping)
UsesWell(s) ==
  Using(s) => /\ s.bus.pendingStop = None
              /\ s.bus.status \in {"error", "disconnected"} => Able(s.link)
              /\ s.bus.heard \/ (s.link.kind = "worker" /\ s.link.phase = "closed")
Runs(s) == WaitsWell(s) /\ UsesWell(s)

\* An active bus without an opening is ready, or has failed.
LostIsTold(s) ==
  s.bus.started /\ ~Hushed(s) /\ s.bus.startPromise = None /\ ~s.bus.ready
    => s.bus.lastError /\ s.bus.pendingStop # None

Kept(s) == s.bus.gate => \/ s.bus.timer \/ s.bus.demand
                         \/ s.bus.current \in Flying(s)
                         \/ \E c \in Chains : {"recovery", "demand"} \cap s.chain[c].then # {}

Core(s) == Base(s) /\ Runs(s) /\ LostIsTold(s) /\ Kept(s)

\* When a step is over: a suspended bus holds its stop, and the runtime pauses
\* only while the bus is suspended.
Gates(s) == s.bus.suspended /\ ~s.bus.stopping
              => s.bus.startPromise # None /\ s.bus.startPromise = s.bus.pendingStop
Pauses(s) == /\ s.cluster.listening <=> s.cluster.running \/ s.cluster.paused
             /\ ~(s.cluster.running /\ s.cluster.paused)
             /\ s.cluster.paused => s.bus.suspended
Bound(s) == Gates(s) /\ Pauses(s)

Inv == Core(Here) /\ Bound(Here)

----------------------------------------------------------------------------
(* Changes that leave the chains and the phase of the bus alone.           *)

Soft(s, t) ==
  /\ t.chain = s.chain /\ t.page = s.page
  /\ \A o \in t.ops : Alive(s, o.on)
  /\ t.link.live = s.link.live /\ t.link.phase = s.link.phase /\ t.link.kind = s.link.kind
  /\ t.cluster.running = s.cluster.running /\ t.cluster.listening = s.cluster.listening
  /\ t.cluster.paused = s.cluster.paused
  /\ t.bus.started = s.bus.started /\ t.bus.stopping = s.bus.stopping
  /\ t.bus.suspended = s.bus.suspended /\ t.bus.ready = s.bus.ready
  /\ t.bus.current = s.bus.current /\ t.bus.heard = s.bus.heard
  /\ t.bus.startPromise = s.bus.startPromise /\ t.bus.pendingStop = s.bus.pendingStop
  /\ t.bus.down = s.bus.down /\ t.bus.limit = s.bus.limit
  /\ s.bus.config => t.bus.config

\* Soft, and nothing is told, lost or gated by it.
Calm(s, t) ==
  /\ Soft(s, t) /\ Counted(t)
  /\ t.bus.status = s.bus.status /\ t.bus.lastError = s.bus.lastError
  /\ t.bus.gate => /\ s.bus.gate /\ t.bus.timer = s.bus.timer
                   /\ t.bus.demand = s.bus.demand /\ t.bus.cooled = s.bus.cooled

\* What a soft change keeps of Base: everything but the gate and the attempts.
LEMMA SoftBase ==
  ASSUME NEW s, Base(s), NEW t \in States, Soft(s, t), GateIsOurs(t), Counted(t)
  PROVE  Base(t)
<1>1. Chained(t) BY DEF Base, Soft, Chained
<1>2. Named(t) BY DEF Base, Soft, Named, Alive
<1>3. Queued(t)
  BY DEF Base, Soft, Queued, Placed, Flying, Head, Done, Latest
<1>4. StopsAreStops(t) /\ CurrentIsOpen(t) /\ Phased(t) /\ OpeningIsCurrent(t)
  BY DEF Base, Soft, StopsAreStops, CurrentIsOpen, Phased, OpeningIsCurrent, Flying, Hushed
<1>5. Torn(t) /\ Dark(t) /\ ReadyRests(t) /\ RuntimeOff(t)
  BY DEF Base, Soft, Torn, Dark, ReadyRests, RuntimeOff, Flying, Done
<1> QED BY <1>1, <1>2, <1>3, <1>4, <1>5 DEF Base

\* A calm change keeps each part of the invariant.
LEMMA CalmKeeps ==
  ASSUME NEW s, Base(s), NEW t \in States, Calm(s, t)
  PROVE  /\ Base(t) /\ (Runs(s) => Runs(t))
         /\ LostIsTold(s) => LostIsTold(t)
         /\ Kept(s) => Kept(t)
         /\ Gates(s) => Gates(t)
         /\ Pauses(s) => Pauses(t)
<1>1. GateIsOurs(t) BY DEF Base, Calm, Soft, GateIsOurs, Hushed
<1>2. Base(t) BY <1>1, SoftBase DEF Calm
<1>3. Runs(s) => Runs(t)
  BY DEF Calm, Soft, Runs, WaitsWell, UsesWell, Using, At, Able
<1>4. LostIsTold(s) => LostIsTold(t) BY DEF Calm, Soft, LostIsTold, Hushed
<1>5. Kept(s) => Kept(t) BY DEF Calm, Soft, Kept, Flying
<1>6. (Gates(s) => Gates(t)) /\ (Pauses(s) => Pauses(t))
  BY DEF Calm, Soft, Gates, Pauses
<1> QED BY <1>2, <1>3, <1>4, <1>5, <1>6

\* The whole of it.
LEMMA CalmCore ==
  ASSUME NEW s, Core(s), NEW t \in States, Calm(s, t)
  PROVE  Core(t)
BY CalmKeeps DEF Core

\* Calm changes compose.
LEMMA CalmTwice ==
  ASSUME NEW s, NEW t, NEW u, Calm(s, t), Calm(t, u)
  PROVE  Calm(s, u)
<1>1. Soft(s, u) BY DEF Calm, Soft, Alive
<1> QED BY <1>1 DEF Calm

\* Doing nothing is calm.
LEMMA CalmSame ==
  ASSUME NEW s, Base(s)
  PROVE  Calm(s, s)
BY DEF Calm, Soft, Base, Named

\* releaseRecoveryGate opens the gate and moves its waiters on.
LEMMA ReleaseGateCalm ==
  ASSUME NEW s \in States, Named(s), Counted(s)
  PROVE  /\ ReleaseGate(s) \in States /\ Calm(s, ReleaseGate(s))
         /\ ReleaseGate(s).bus.gate = FALSE
         /\ ReleaseGate(s).cluster = s.cluster /\ ReleaseGate(s).link = s.link
<1> DEFINE t == ReleaseGate(s)
<1> DEFINE b == [s.bus EXCEPT !.gate = FALSE, !.demand = FALSE]
<1> DEFINE O == {[o EXCEPT !.on = IF @ = Gate THEN Released ELSE @] : o \in s.ops}
<1>1. b \in Buses BY DEF States, Buses
<1>2. O \subseteq Waiters BY DEF States, Waiters
<1>3. t.bus = b /\ t.ops = O /\ t.chain = s.chain /\ t.page = s.page /\ t.link = s.link
      /\ t.cluster = s.cluster
  BY DEF States, ReleaseGate
<1>4. t \in States BY <1>1, <1>2, <1>3 DEF States, ReleaseGate
<1>5. \A o \in O : Alive(s, o.on) BY DEF Named, Alive, States, Waiters, Released, Chains
<1>6. Calm(s, t) /\ t.bus.gate = FALSE BY <1>3, <1>5 DEF Soft, Calm, Counted, States, Buses
<1> QED BY <1>3, <1>4, <1>6

\* cancelScheduledRecovery drops what waits for the gate.
LEMMA CancelRecoverySoft ==
  ASSUME NEW s \in States, Named(s), Counted(s)
  PROVE  /\ CancelRecovery(s) \in States /\ Calm(s, CancelRecovery(s))
         /\ CancelRecovery(s).bus = [s.bus EXCEPT !.timer = FALSE, !.gate = FALSE, !.demand = FALSE]
         /\ CancelRecovery(s).ops \subseteq s.ops
         /\ CancelRecovery(s).cluster = s.cluster /\ CancelRecovery(s).link = s.link
<1> DEFINE t == CancelRecovery(s)
<1> DEFINE b == [s.bus EXCEPT !.timer = FALSE, !.gate = FALSE, !.demand = FALSE]
<1>1. b \in Buses BY DEF States, Buses
<1>3. t.bus = b /\ t.ops \subseteq s.ops /\ t.chain = s.chain /\ t.page = s.page
      /\ t.link = s.link /\ t.cluster = s.cluster
  BY DEF States, CancelRecovery
<1>4. t \in States BY <1>1, <1>3 DEF States, CancelRecovery
<1>6. Calm(s, t) BY <1>3 DEF Soft, Calm, Named, Counted, States, Buses
<1> QED BY <1>3, <1>4, <1>6

\* resetFailureState forgets the failures; it may keep the gate closed, for an
\* opening that follows.
LEMMA ResetFailureSoft ==
  ASSUME NEW s \in States, Named(s), NEW keep \in BOOLEAN
  PROVE  LET t == ResetFailure(s, keep)
         IN /\ t \in States /\ Soft(s, t) /\ Counted(t)
            /\ t.bus.status = s.bus.status /\ t.bus.cooled = TRUE
            /\ t.bus.gate = (s.bus.gate /\ keep)
            /\ t.cluster = s.cluster /\ t.link = s.link
<1> DEFINE b == [s.bus EXCEPT !.timer = FALSE, !.demand = FALSE, !.attempt = 0,
                   !.exhausted = FALSE, !.cooled = TRUE, !.lastError = FALSE]
<1> DEFINE r == [s EXCEPT !.bus.timer = FALSE, !.bus.demand = FALSE,
                      !.bus.attempt = 0, !.bus.exhausted = FALSE, !.bus.cooled = TRUE,
                      !.bus.lastError = FALSE]
<1>1. b \in Buses BY DEF States, Buses
<1>2. r = [s EXCEPT !.bus = b] BY DEF States, Buses
<1>3. r \in States /\ r.bus = b /\ r.ops = s.ops /\ r.chain = s.chain /\ r.page = s.page
      /\ r.link = s.link /\ r.cluster = s.cluster
  BY <1>1, <1>2 DEF States
<1>k. ResetFailure(s, keep) = IF keep THEN r ELSE ReleaseGate(r) BY DEF ResetFailure
<1> HIDE DEF r
<1>b. /\ b.started = s.bus.started /\ b.stopping = s.bus.stopping /\ b.suspended = s.bus.suspended
      /\ b.ready = s.bus.ready /\ b.config = s.bus.config
      /\ b.current = s.bus.current /\ b.heard = s.bus.heard
      /\ b.startPromise = s.bus.startPromise /\ b.pendingStop = s.bus.pendingStop
      /\ b.down = s.bus.down /\ b.limit = s.bus.limit /\ b.limit \in Nat /\ b.attempt = 0
      /\ b.status = s.bus.status /\ b.cooled = TRUE /\ b.gate = s.bus.gate /\ b.gate \in BOOLEAN
  BY DEF States, Buses
<1> HIDE DEF b
<1>4. Soft(s, r) /\ Counted(r) /\ r.bus.status = s.bus.status /\ r.bus.cooled = TRUE
  BY <1>3, <1>b DEF Soft, Named, Counted
<1>5. CASE keep
  <2>1. ResetFailure(s, keep) = r BY <1>5, <1>k
  <2> QED BY <1>5, <1>3, <1>4, <1>b, <2>1
<1>6. CASE ~keep
  <2>1. ResetFailure(s, keep) = ReleaseGate(r) BY <1>6, <1>k
  <2>2. Named(r) BY <1>3, <1>4 DEF Named, Alive, Soft
  <2>3. /\ ReleaseGate(r) \in States /\ Calm(r, ReleaseGate(r))
        /\ ReleaseGate(r).bus.gate = FALSE
        /\ ReleaseGate(r).cluster = r.cluster /\ ReleaseGate(r).link = r.link
    BY <1>3, <1>4, <2>2, ReleaseGateCalm
  <2>4. ReleaseGate(r).bus.cooled = TRUE BY <1>3, <1>4 DEF ReleaseGate, States, Buses
  <2>5. Soft(s, ReleaseGate(r)) BY <1>4, <2>3 DEF Calm, Soft, Alive
  <2> QED BY <1>6, <1>3, <1>4, <2>1, <2>3, <2>4, <2>5 DEF Calm
<1> QED BY <1>5, <1>6

\* updateStatus sets the status, and forgets the topics of a lost transport.
LEMMA SetStatusSoft ==
  ASSUME NEW s \in States, Named(s), Counted(s), NEW status \in Statuses
  PROVE  LET t == SetStatus(s, status)
         IN /\ t \in States /\ Soft(s, t) /\ Counted(t) /\ t.bus.status = status
            /\ t.bus.lastError = s.bus.lastError /\ t.bus.gate = s.bus.gate
            /\ t.bus.timer = s.bus.timer /\ t.bus.demand = s.bus.demand
            /\ t.bus.cooled = s.bus.cooled
            /\ t.ops = s.ops /\ t.cluster = s.cluster /\ t.link = s.link
<1> DEFINE t == SetStatus(s, status)
<1> DEFINE T == IF status \in {"disconnected", "error"} THEN {} ELSE s.bus.topics
<1> DEFINE C == s.bus.connected \/ status = "connected"
<1> DEFINE b == [s.bus EXCEPT !.status = status, !.connected = C, !.topics = T]
<1>1. T \in SUBSET Topics /\ C \in BOOLEAN BY DEF States, Buses
<1> HIDE DEF T, C
<1>2. b \in Buses BY <1>1 DEF States, Buses
<1>3. t = [s EXCEPT !.bus = b] BY DEF SetStatus, T, C, States, Buses
<1>4. t \in States /\ t.bus = b /\ t.ops = s.ops /\ t.chain = s.chain /\ t.page = s.page
      /\ t.link = s.link /\ t.cluster = s.cluster
  BY <1>2, <1>3 DEF States
<1> HIDE DEF t
<1>5. Soft(s, t) BY <1>4 DEF Soft, Named, States, Buses
<1>6. Counted(t) BY <1>4 DEF Counted, States, Buses
<1>7. /\ t.bus.status = status /\ t.bus.lastError = s.bus.lastError
      /\ t.bus.gate = s.bus.gate /\ t.bus.timer = s.bus.timer /\ t.bus.demand = s.bus.demand
      /\ t.bus.cooled = s.bus.cooled
  BY <1>4 DEF States, Buses
<1> QED BY <1>4, <1>5, <1>6, <1>7 DEF t

\* The commands of the operations reach the link, whatever it does with them.
LEMMA ExecuteCalm ==
  ASSUME NEW s, Base(s), NEW act \in {"subscribe", "unsubscribe", "publish"},
         NEW topics \in SUBSET Topics
  PROVE  Execute(s, act, topics) \in States /\ Calm(s, Execute(s, act, topics))
         /\ Execute(s, act, topics).cluster = s.cluster
<1> DEFINE L == {l \in Links(Topics) : /\ l.live = s.link.live /\ l.phase = s.link.phase
                                       /\ l.kind = s.link.kind}
<1>1. Subscribed(s.link, topics) \in L BY DEF Base, States, Subscribed, Links
<1>2. Unsubscribed(s.link, topics) \in L BY DEF Base, States, Unsubscribed, Links
<1>3. ASSUME NEW l \in L
      PROVE  /\ [s EXCEPT !.link = l] \in States /\ Calm(s, [s EXCEPT !.link = l])
             /\ [s EXCEPT !.link = l].cluster = s.cluster
  BY DEF Base, States, Calm, Soft, Named, Counted
<1>4. Execute(s, "subscribe", topics) = [s EXCEPT !.link = Subscribed(s.link, topics)]
      /\ Execute(s, "unsubscribe", topics) = [s EXCEPT !.link = Unsubscribed(s.link, topics)]
      /\ Execute(s, "publish", topics) = s
  BY DEF Execute, Base, States
<1> HIDE DEF L
<1>5. CASE act = "subscribe" BY <1>1, <1>3, <1>4, <1>5
<1>6. CASE act = "unsubscribe" BY <1>2, <1>3, <1>4, <1>6
<1>7. CASE act = "publish" BY <1>4, <1>7, CalmSame DEF Base
<1> QED BY <1>5, <1>6, <1>7

\* An operation that waits for what is there is calm.
LEMMA WaitCalm ==
  ASSUME NEW s, Base(s), NEW act \in {"subscribe", "unsubscribe", "publish"},
         NEW topics \in SUBSET Topics, NEW on \in Chains \cup {Gate, Released}, Alive(s, on)
  PROVE  Wait(s, act, topics, on) \in States /\ Calm(s, Wait(s, act, topics, on))
         /\ Wait(s, act, topics, on).cluster = s.cluster
<1> DEFINE W == {[act |-> act, topic |-> t, on |-> on] : t \in topics}
<1>1. W \subseteq Waiters /\ \A o \in W : o.on = on BY DEF Waiters
<1> HIDE DEF W
<1>2. Wait(s, act, topics, on) = [s EXCEPT !.ops = s.ops \cup W] BY DEF Wait, W, Base, States
<1>3. [s EXCEPT !.ops = s.ops \cup W] \in States BY <1>1 DEF Base, States
<1>4. Calm(s, [s EXCEPT !.ops = s.ops \cup W]) BY <1>1 DEF Base, States, Calm, Soft, Named, Counted
<1> QED BY <1>2, <1>3, <1>4 DEF Base, States

\* So is an operation that leaves.
LEMMA LeaveCalm ==
  ASSUME NEW s, Base(s), NEW O, O \subseteq s.ops
  PROVE  [s EXCEPT !.ops = O] \in States /\ Calm(s, [s EXCEPT !.ops = O])
BY DEF Base, States, Calm, Soft, Named, Counted

\* The topics the bus serves are of no account here.
LEMMA TopicsCalm ==
  ASSUME NEW s, Base(s), NEW T \in SUBSET Topics
  PROVE  /\ [s EXCEPT !.bus.topics = T] \in States /\ Calm(s, [s EXCEPT !.bus.topics = T])
         /\ [s EXCEPT !.bus.topics = T].cluster = s.cluster
<1> DEFINE b == [s.bus EXCEPT !.topics = T]
<1>1. b \in Buses BY DEF Base, States, Buses
<1>2. [s EXCEPT !.bus.topics = T] = [s EXCEPT !.bus = b] BY DEF Base, States
<1>3. [s EXCEPT !.bus = b] \in States BY <1>1 DEF Base, States
<1>4. Calm(s, [s EXCEPT !.bus = b]) BY DEF Base, States, Buses, Calm, Soft, Named, Counted
<1> QED BY <1>2, <1>3, <1>4 DEF Base, States

\* Nor whether a start is queued.
LEMMA QueuedCalm ==
  ASSUME NEW s, Base(s), NEW v \in BOOLEAN
  PROVE  /\ [s EXCEPT !.bus.queued = v] \in States /\ Calm(s, [s EXCEPT !.bus.queued = v])
         /\ [s EXCEPT !.bus.queued = v].cluster = s.cluster
<1> DEFINE b == [s.bus EXCEPT !.queued = v]
<1>1. b \in Buses BY DEF Base, States, Buses
<1>2. [s EXCEPT !.bus.queued = v] = [s EXCEPT !.bus = b] BY DEF Base, States
<1>3. [s EXCEPT !.bus = b] \in States BY <1>1 DEF Base, States
<1>4. Calm(s, [s EXCEPT !.bus = b]) BY DEF Base, States, Buses, Calm, Soft, Named, Counted
<1> QED BY <1>2, <1>3, <1>4 DEF Base, States

----------------------------------------------------------------------------
(* The queue of the chains in flight.                                      *)

\* A new chain behind the last one.
LEMMA QueueGrows ==
  ASSUME NEW s, s.chain \in [Chains -> ChainRecords], Named(s), Queued(s),
         Latest(s) \in Refs, NEW c \in Idle(s),
         NEW x \in ChainRecords, x.at = "waiting", x.after = Latest(s),
         NEW t, t.chain = [s.chain EXCEPT ![c] = x], Latest(t) = c
  PROVE  Queued(t)
<1>1. PICK pos \in [Chains -> Int] : Placed(s, pos) BY DEF Queued
<1> DEFINE last == IF Flying(s) = {} THEN 0 ELSE pos[Latest(s)] + 1
<1> DEFINE p == [pos EXCEPT ![c] = last]
<1>2. c \in Chains /\ s.chain[c].at = "idle" /\ c \notin Flying(s) BY DEF Idle, NoChain, Flying
<1>3. Flying(t) = Flying(s) \cup {c} BY <1>2 DEF Flying
<1>4. Flying(s) # {} => Latest(s) \in Flying(s) BY <1>1 DEF Placed
<1>5. last \in Int BY <1>4 DEF Flying
<1>6. p \in [Chains -> Int] /\ p[c] = last /\ \A d \in Flying(s) : p[d] = pos[d]
  BY <1>2, <1>5 DEF Flying
<1>7. Latest(s) # c /\ Alive(s, Latest(s)) BY <1>2 DEF Latest, Named, Alive
<1>8. \A d \in Flying(s) : Head(t, d) <=> Head(s, d)
  BY <1>2 DEF Head, Done, Named, Alive, Flying, ChainRecords
<1>9. Head(t, c) => Flying(s) = {}
  <2> SUFFICES ASSUME Head(t, c), Latest(s) \in Flying(s) PROVE FALSE BY <1>4
  <2>1. Done(t, Latest(s)) BY <1>2 DEF Head
  <2> QED BY <2>1, <1>7, <1>2 DEF Done, Flying, None, Chains
<1>10. Flying(s) = {} => Head(t, c)
  <2> SUFFICES ASSUME Flying(s) = {}, Latest(s) # None PROVE Done(t, Latest(s)) BY <1>2 DEF Head, Done
  <2>1. Latest(s) \in Chains BY DEF Refs
  <2>2. s.chain[Latest(s)].at \in {"ok", "failed"} BY <2>1, <1>7 DEF Flying, Alive, ChainRecords
  <2> QED BY <2>1, <2>2, <1>7 DEF Done
<1> HIDE DEF p, last
<1>11. \A d \in Flying(s) : p[d] < p[c]
  <2> TAKE d \in Flying(s)
  <2>1. last = pos[Latest(s)] + 1 /\ pos[d] <= pos[Latest(s)] BY <1>1 DEF last, Placed
  <2>2. pos[d] \in Int /\ pos[Latest(s)] \in Int BY <1>4 DEF Flying
  <2> QED BY <2>1, <2>2, <1>6
<1>12. \A d, e \in Flying(t) : p[d] = p[e] => d = e
  BY <1>1, <1>3, <1>6, <1>11 DEF Placed, Flying
<1>13. \A d \in Flying(t) : ~Head(t, d) => p[d] = p[t.chain[d].after] + 1
  <2> TAKE d \in Flying(t)
  <2> HAVE ~Head(t, d)
  <2>1. CASE d = c
    BY <2>1, <1>2, <1>4, <1>6, <1>10 DEF last
  <2>2. CASE d # c
    <3>1. d \in Flying(s) /\ ~Head(s, d) /\ t.chain[d] = s.chain[d] BY <2>2, <1>3, <1>8 DEF Flying
    <3>2. pos[d] = pos[s.chain[d].after] + 1 BY <3>1, <1>1 DEF Placed
    <3>3. s.chain[d].after \in Chains /\ s.chain[d].after # c
      BY <3>1, <1>2 DEF Flying, ChainRecords, Head, Done, Named, Alive
    <3> QED BY <3>1, <3>2, <3>3, <1>6 DEF p
  <2> QED BY <2>1, <2>2
<1>14. \A d, e \in Flying(t) : Head(t, d) => p[d] <= p[e]
  <2> TAKE d, e \in Flying(t)
  <2> HAVE Head(t, d)
  <2>1. CASE d = c BY <2>1, <1>3, <1>5, <1>6, <1>9
  <2>2. CASE d # c
    <3>1. d \in Flying(s) /\ Head(s, d) BY <2>2, <1>3, <1>8
    <3>2. CASE e = c BY <3>1, <3>2, <1>11, <1>6 DEF Flying
    <3>3. CASE e # c BY <3>1, <3>3, <1>3, <1>1, <1>6 DEF Placed
    <3> QED BY <3>2, <3>3
  <2> QED BY <2>1, <2>2
<1>15. \A d \in Flying(t) : Latest(t) \in Flying(t) /\ p[d] <= p[Latest(t)]
  BY <1>3, <1>5, <1>6, <1>11 DEF Flying
<1>16. Placed(t, p) BY <1>12, <1>13, <1>14, <1>15 DEF Placed
<1> QED BY <1>6, <1>16 DEF Queued

\* The first chain begins its call.
LEMMA QueueBegins ==
  ASSUME NEW s, s.chain \in [Chains -> ChainRecords], Queued(s),
         NEW c \in Flying(s), Head(s, c),
         NEW x \in ChainRecords, x.at \in {"dialing", "stopping"},
         NEW t, t.chain = [s.chain EXCEPT ![c] = x], Latest(t) = Latest(s)
  PROVE  Queued(t) /\ Flying(t) = Flying(s)
<1>1. PICK pos \in [Chains -> Int] : Placed(s, pos) BY DEF Queued
<1>2. c \in Chains /\ Flying(t) = Flying(s) BY DEF Flying
<1>3. \A d \in Chains : Done(t, d) <=> Done(s, d) BY <1>2 DEF Done, Flying
<1>4. \A d \in Flying(s) : Head(t, d) <=> Head(s, d)
  <2> TAKE d \in Flying(s)
  <2>1. CASE d = c BY <2>1, <1>2 DEF Head
  <2>2. CASE d # c
    <3>1. t.chain[d] = s.chain[d] /\ s.chain[d].after \in Chains \cup {None} BY <2>2, <1>2 DEF Flying, ChainRecords
    <3> QED BY <3>1, <1>3 DEF Head, Done
  <2> QED BY <2>1, <2>2
<1>5. \A d \in Flying(t) : ~Head(t, d) => pos[d] = pos[t.chain[d].after] + 1
  <2> TAKE d \in Flying(t)
  <2> HAVE ~Head(t, d)
  <2>1. d # c /\ t.chain[d] = s.chain[d] /\ ~Head(s, d) BY <1>2, <1>4 DEF Flying
  <2> QED BY <2>1, <1>1, <1>2 DEF Placed
<1>6. Placed(t, pos) BY <1>1, <1>2, <1>4, <1>5 DEF Placed
<1> QED BY <1>2, <1>6 DEF Queued

\* The first chain settles: the next one is first, if there is one.
LEMMA QueueSettles ==
  ASSUME NEW s, s.chain \in [Chains -> ChainRecords], Queued(s),
         NEW c \in Flying(s), Head(s, c),
         NEW x \in ChainRecords, x.at \in {"ok", "failed"},
         NEW t, t.chain = [s.chain EXCEPT ![c] = x],
         Latest(s) # c => Latest(t) = Latest(s)
  PROVE  /\ Queued(t) /\ Flying(t) = Flying(s) \ {c}
         /\ Latest(s) = c => Flying(t) = {}
<1>1. PICK pos \in [Chains -> Int] : Placed(s, pos) BY DEF Queued
<1>2. c \in Chains /\ Flying(t) = Flying(s) \ {c} BY DEF Flying
<1>a. \A d \in Flying(s) : d \in Chains /\ pos[d] \in Int BY DEF Flying
<1>3. Latest(s) = c => Flying(t) = {}
  <2> SUFFICES ASSUME Latest(s) = c, NEW d \in Flying(t) PROVE FALSE OBVIOUS
  <2>1. pos[d] <= pos[c] /\ pos[c] <= pos[d] /\ (pos[c] = pos[d] => c = d) BY <1>1, <1>2 DEF Placed
  <2> QED BY <2>1, <1>a, <1>2
<1>4. \A d \in Flying(t) : /\ t.chain[d] = s.chain[d]
                           /\ ~Head(t, d) => ~Head(s, d)
                           /\ Head(t, d) => Head(s, d) \/ s.chain[d].after = c
  <2> TAKE d \in Flying(t)
  <2>1. d \in Chains /\ t.chain[d] = s.chain[d] /\ s.chain[d].after \in Chains \cup {None} BY <1>2 DEF Flying, ChainRecords
  <2>2. Done(s, s.chain[d].after) => Done(t, s.chain[d].after) BY <2>1, <1>2 DEF Done
  <2>3. s.chain[d].after # c /\ Done(t, s.chain[d].after) => Done(s, s.chain[d].after) BY <2>1, <1>2 DEF Done
  <2> QED BY <2>1, <2>2, <2>3 DEF Head
<1>5. \A d \in Flying(t) : ~Head(t, d) => pos[d] = pos[t.chain[d].after] + 1
  BY <1>1, <1>2, <1>4 DEF Placed
<1>6. \A d, e \in Flying(t) : Head(t, d) => pos[d] <= pos[e]
  <2> TAKE d, e \in Flying(t)
  <2> HAVE Head(t, d)
  <2>1. CASE Head(s, d) BY <2>1, <1>1, <1>2 DEF Placed
  <2>2. CASE ~Head(s, d)
    <3>1. s.chain[d].after = c BY <2>2, <1>4
    <3>2. pos[d] = pos[c] + 1 BY <3>1, <2>2, <1>1, <1>2 DEF Placed
    <3>3. pos[c] <= pos[e] /\ pos[c] # pos[e] BY <1>1, <1>2 DEF Placed
    <3> QED BY <3>2, <3>3, <1>a, <1>2
  <2> QED BY <2>1, <2>2
<1>7. \A d \in Flying(t) : Latest(t) \in Flying(t) /\ pos[d] <= pos[Latest(t)]
  <2> TAKE d \in Flying(t)
  <2>1. Latest(s) # c /\ Latest(t) = Latest(s) BY <1>3
  <2> QED BY <2>1, <1>1, <1>2 DEF Placed
<1>8. Placed(t, pos) BY <1>1, <1>2, <1>5, <1>6, <1>7 DEF Placed
<1> QED BY <1>2, <1>3, <1>8 DEF Queued

\* When nothing is in flight, there is no queue to keep.
LEMMA QueueEmpty ==
  ASSUME NEW t, Flying(t) = {}
  PROVE  Queued(t)
<1> DEFINE p == [c \in Chains |-> 0]
<1>1. p \in [Chains -> Int] OBVIOUS
<1>2. Placed(t, p) BY DEF Placed
<1> QED BY <1>1, <1>2 DEF Queued

\* The first in the queue is alone there, and what the latest call waits for is
\* over when nothing is in flight, and the other way round.
LEMMA QueueFirst ==
  ASSUME NEW s, s.chain \in [Chains -> ChainRecords], Queued(s)
  PROVE  /\ \A c, d \in Flying(s) : Head(s, c) /\ Head(s, d) => c = d
         /\ Latest(s) \notin Flying(s) => Flying(s) = {}
<1>1. PICK pos \in [Chains -> Int] : Placed(s, pos) BY DEF Queued
<1>2. \A c \in Flying(s) : pos[c] \in Int BY DEF Flying
<1> QED BY <1>1, <1>2 DEF Placed

----------------------------------------------------------------------------
(* Openings, stops and handlers.                                           *)

\* Chains that may still begin.
Room(s, n) == Cardinality(Idle(s)) >= n

\* Taking a fresh chain leaves the others.
LEMMA FreshIsIdle ==
  ASSUME NEW s, NEW n \in Nat, Room(s, n + 1)
  PROVE  /\ Fresh(s) \in Idle(s) /\ Fresh(s) \in Chains
         /\ Fresh(s) # None
         /\ s.chain[Fresh(s)] = NoChain
         /\ \A t : Idle(t) = Idle(s) \ {Fresh(s)} => Room(t, n)
<1>1. IsFiniteSet(Chains) BY FS_Interval, BusAssumption DEF Chains
<1>2. IsFiniteSet(Idle(s)) BY <1>1, FS_Subset DEF Idle
<1>3. Idle(s) # {}
  <2> SUFFICES ASSUME Idle(s) = {} PROVE FALSE OBVIOUS
  <2>1. Cardinality(Idle(s)) = 0 BY FS_EmptySet
  <2> QED BY <2>1 DEF Room
<1>4. Fresh(s) \in Idle(s) BY <1>3 DEF Fresh
<1>5. Cardinality(Idle(s) \ {Fresh(s)}) = Cardinality(Idle(s)) - 1 BY <1>2, <1>4, FS_RemoveElement
<1>6. Cardinality(Idle(s)) \in Nat BY <1>2, FS_CardinalityType
<1> QED BY <1>4, <1>5, <1>6 DEF Room, Idle, Chains, None

\* Less room is room too.
LEMMA RoomLess ==
  ASSUME NEW s, NEW n \in Nat, Room(s, n), NEW m \in Nat, m <= n
  PROVE  Room(s, m)
<1>1. IsFiniteSet(Chains) BY FS_Interval, BusAssumption DEF Chains
<1>2. Cardinality(Idle(s)) \in Nat BY <1>1, FS_Subset, FS_CardinalityType DEF Idle
<1> QED BY <1>2 DEF Room

WaitingOpening(after, initial, trace) ==
  [kind |-> "open", at |-> "waiting", after |-> after, initial |-> initial, trace |-> trace,
   then |-> {}]
Owner(b, c) == [b EXCEPT !.current = c, !.heard = FALSE, !.startPromise = c, !.started = TRUE,
                         !.suspended = FALSE, !.ready = FALSE]
With(chains, c, x) == [chains EXCEPT ![c] = x]

\* The fields of an opening that begins.
LEMMA NewOpeningFields ==
  ASSUME NEW s \in States, NEW after \in Refs, NEW initial \in BOOLEAN, NEW trace \in BOOLEAN,
         Fresh(s) \in Chains
  PROVE  /\ NewOpening(s, after, initial, trace) \in States
         /\ NewOpening(s, after, initial, trace).chain
              = With(s.chain, Fresh(s), WaitingOpening(after, initial, trace))
         /\ NewOpening(s, after, initial, trace).bus = Owner(s.bus, Fresh(s))
         /\ NewOpening(s, after, initial, trace).ops = s.ops
         /\ NewOpening(s, after, initial, trace).link = s.link
         /\ NewOpening(s, after, initial, trace).cluster = s.cluster
         /\ NewOpening(s, after, initial, trace).page = s.page
<1> DEFINE c == Fresh(s)
<1> DEFINE x == WaitingOpening(after, initial, trace)
<1> DEFINE b == Owner(s.bus, c)
<1> DEFINE ch == With(s.chain, c, x)
<1>1. x \in ChainRecords BY DEF ChainRecords, Refs, WaitingOpening
<1>2. b \in Buses BY DEF States, Buses, Refs, Owner
<1>3. ch \in [Chains -> ChainRecords] BY <1>1 DEF States, With
<1>4. NewOpening(s, after, initial, trace) = [s EXCEPT !.bus = b, !.chain = ch]
  BY DEF NewOpening, NewEpoch, States, Buses, Owner, With, WaitingOpening
<1>5. [s EXCEPT !.bus = b, !.chain = ch] \in States BY <1>2, <1>3 DEF States
<1> QED BY <1>1, <1>4, <1>5 DEF States

Connecting(s, initial, trace) ==
  SetStatus(NewOpening(s, s.bus.pendingStop, initial, trace), "connecting")

Openable(s) == s.bus.pendingStop = None => Able(s.link)

\* An opening that begins behind the pending stop, and is told.
LEMMA OpeningBegins ==
  ASSUME NEW s, Base(s), ~s.bus.stopping, s.bus.config, ~Opening(s),
         NEW initial \in BOOLEAN, NEW trace \in BOOLEAN, NEW n \in Nat, Room(s, n + 1)
  PROVE  LET u == Connecting(s, initial, trace)
         IN /\ Base(u) /\ LostIsTold(u) /\ Kept(u) /\ Room(u, n)
            /\ Openable(s) => Core(u)
            /\ u.bus.startPromise = Fresh(s) /\ u.bus.current = Fresh(s)
            /\ u.chain[Fresh(s)].kind = "open" /\ Opening(u) /\ Fresh(s) \in Chains
            /\ u.bus.started /\ ~Hushed(u)
            /\ u.cluster = s.cluster /\ u.link = s.link /\ u.page = s.page
<1> DEFINE c == Fresh(s)
<1> DEFINE after == s.bus.pendingStop
<1> DEFINE x == WaitingOpening(after, initial, trace)
<1> DEFINE o == NewOpening(s, after, initial, trace)
<1>1. /\ c \in Idle(s) /\ c \in Chains /\ c # None
      /\ s.chain[c] = NoChain
      /\ \A t : Idle(t) = Idle(s) \ {c} => Room(t, n)
  BY FreshIsIdle
<1>2. s \in States /\ after \in Refs BY DEF Base, States, Buses
<1>x. /\ x \in ChainRecords /\ x.at = "waiting" /\ x.after = after /\ x.kind = "open"
      /\ x.then = {}
  BY <1>2 DEF ChainRecords, Refs, WaitingOpening
<1>3. /\ o \in States /\ o.chain = With(s.chain, c, x) /\ o.bus = Owner(s.bus, c)
      /\ o.ops = s.ops /\ o.link = s.link /\ o.cluster = s.cluster /\ o.page = s.page
  BY <1>1, <1>2, NewOpeningFields
<1> HIDE DEF o, c, x
<1>4. s.chain[c].at = "idle" BY <1>1 DEF NoChain
<1>5. Latest(s) = after /\ (s.bus.startPromise = None \/ s.bus.startPromise = after)
  BY DEF Opening, Latest
<1>6. Latest(o) = c BY <1>1, <1>3, <1>2 DEF Latest, States, Buses, Owner
<1>7. after # c /\ \A r : Alive(s, r) => r # c BY <1>4, <1>1 DEF Base, Named, Alive
<1>8. Chained(o)
  <2>1. Shaped(x) BY <1>x DEF Shaped
  <2> QED BY <2>1, <1>2, <1>3 DEF Base, Chained, States, With
<1>9. \A r : Alive(s, r) => Alive(o, r) BY <1>x, <1>2, <1>3 DEF Alive, States, With
<1>10. /\ o.bus.startPromise = c /\ o.bus.current = c /\ o.bus.started /\ ~o.bus.suspended
       /\ ~o.bus.stopping /\ ~o.bus.ready /\ ~o.bus.heard /\ o.bus.config
       /\ o.bus.pendingStop = after /\ o.bus.down = s.bus.down
       /\ o.bus.gate = s.bus.gate /\ o.bus.timer = s.bus.timer /\ o.bus.cooled = s.bus.cooled
       /\ o.bus.attempt = s.bus.attempt /\ o.bus.limit = s.bus.limit
  BY <1>2, <1>3 DEF States, Buses, Owner
<1>11. /\ o.chain[c] = x /\ \A d \in Chains \ {c} : o.chain[d] = s.chain[d]
  BY <1>1, <1>2, <1>3 DEF States, With
<1>12. Named(o)
  <2>1. Alive(o, c) BY <1>x, <1>11 DEF Alive
  <2>2. \A d \in Chains : Alive(o, o.chain[d].after) BY <1>x, <1>9, <1>11 DEF Base, Named
  <2> QED BY <2>1, <2>2, <1>3, <1>9, <1>10 DEF Base, Named
<1>13. Queued(o)
  <2>1. Latest(s) \in Refs /\ x.at = "waiting" /\ x.after = Latest(s) BY <1>x, <1>2, <1>5
  <2>2. s.chain \in [Chains -> ChainRecords] /\ Named(s) /\ Queued(s) BY DEF Base, States
  <2>3. o.chain = [s.chain EXCEPT ![c] = x] BY <1>3 DEF With
  <2> HIDE DEF after
  <2> QED BY <2>1, <2>2, <2>3, <1>x, <1>1, <1>6, QueueGrows
<1>14. StopsAreStops(o) BY <1>1, <1>2, <1>x, <1>7, <1>10, <1>11 DEF StopsAreStops, Base, Refs
<1>15. c \in Flying(o) BY <1>1, <1>x, <1>11 DEF Flying
<1>16. CurrentIsOpen(o) /\ Phased(o) /\ OpeningIsCurrent(o)
  BY <1>10, <1>x, <1>11, <1>15 DEF CurrentIsOpen, Phased, OpeningIsCurrent, Hushed
<1>17. Torn(o) BY <1>10 DEF Torn, Base
<1>18. Dark(o)
  <2>1. after # None /\ Done(o, after) => Done(s, after) BY <1>2, <1>x, <1>7, <1>11 DEF Done, Refs
  <2> QED BY <2>1, <1>3, <1>x, <1>10, <1>11 DEF Dark, Base
<1>19. ReadyRests(o) /\ RuntimeOff(o) /\ GateIsOurs(o)
  BY <1>10 DEF ReadyRests, RuntimeOff, GateIsOurs, Hushed, Base
<1>20. Base(o)
  BY <1>3, <1>8, <1>10, <1>12, <1>13, <1>14, <1>16, <1>17, <1>18, <1>19 DEF Base, Counted
<1> DEFINE u == SetStatus(o, "connecting")
<1>21. /\ u \in States /\ Soft(o, u) /\ Counted(u) /\ u.bus.status = "connecting"
       /\ u.bus.lastError = o.bus.lastError /\ u.bus.gate = o.bus.gate
       /\ u.bus.timer = o.bus.timer /\ u.bus.demand = o.bus.demand
       /\ u.bus.cooled = o.bus.cooled
       /\ u.ops = o.ops /\ u.cluster = o.cluster /\ u.link = o.link
  BY <1>20, SetStatusSoft DEF Base, Statuses
<1>22. u = Connecting(s, initial, trace) BY DEF Connecting, o
<1> HIDE DEF u
<1>23. Base(u)
  <2>1. GateIsOurs(u) BY <1>21, <1>19 DEF Soft, GateIsOurs, Hushed
  <2> QED BY <2>1, <1>20, <1>21, SoftBase
<1>24. /\ u.bus.startPromise = c /\ u.bus.current = c /\ u.bus.started /\ ~Hushed(u)
       /\ u.chain = o.chain /\ u.bus.pendingStop = after
  BY <1>10, <1>21 DEF Soft, Hushed
<1>25. LostIsTold(u) /\ Kept(u)
  BY <1>1, <1>15, <1>24 DEF LostIsTold, Kept, Flying
<1>26. Openable(s) => Runs(u)
  <2>1. At(u) = "waiting" BY <1>1, <1>x, <1>11, <1>24 DEF At
  <2>2. ~u.bus.ready /\ ~u.bus.heard /\ u.link = s.link BY <1>3, <1>10, <1>21 DEF Soft
  <2> QED BY <2>1, <2>2, <1>x, <1>11, <1>21, <1>24 DEF Runs, WaitsWell, UsesWell, Using, Openable
<1>27. Room(u, n)
  <2>1. Idle(u) = Idle(s) \ {c} BY <1>1, <1>x, <1>11, <1>24, <1>4 DEF Idle, NoChain
  <2> QED BY <2>1, <1>1
<1>28. u.page = s.page /\ u.chain[c].kind = "open" /\ Opening(u)
  BY <1>1, <1>3, <1>7, <1>x, <1>11, <1>21, <1>24 DEF Soft, Opening
<1> QED
  BY <1>1, <1>3, <1>21, <1>22, <1>23, <1>24, <1>25, <1>26, <1>27, <1>28 DEF Core, c

----------------------------------------------------------------------------
\* s with the handlers X of the chain c.
Handled(s, c, X) ==
  [s EXCEPT !.chain = With(s.chain, c, [s.chain[c] EXCEPT !.then = X])]

\* Only the handlers of an opening change: the gate may lose its keeper by it,
\* and nothing else depends on them.
LEMMA HandledKeeps ==
  ASSUME NEW s, Base(s), NEW c \in Chains, s.chain[c].kind = "open", NEW X \in SUBSET Handlers
  PROVE  /\ Base(Handled(s, c, X)) /\ (Runs(s) => Runs(Handled(s, c, X)))
         /\ LostIsTold(s) => LostIsTold(Handled(s, c, X))
         /\ Kept(s) /\ s.chain[c].then \ {"watch"} \subseteq X => Kept(Handled(s, c, X))
         /\ X \cap {"recovery", "demand"} # {} => Kept(Handled(s, c, X))
         /\ Idle(Handled(s, c, X)) = Idle(s)
         /\ Handled(s, c, X).bus = s.bus /\ Handled(s, c, X).cluster = s.cluster
         /\ Handled(s, c, X).link = s.link /\ Handled(s, c, X).page = s.page
         /\ Handled(s, c, X).ops = s.ops
         /\ \A d \in Chains : /\ Handled(s, c, X).chain[d].at = s.chain[d].at
                              /\ Handled(s, c, X).chain[d].kind = s.chain[d].kind
<1> DEFINE t == Handled(s, c, X)
<1> DEFINE x == [s.chain[c] EXCEPT !.then = X]
<1>1. s \in States /\ s.chain[c] \in ChainRecords BY DEF Base, States
<1>2. x \in ChainRecords /\ x.at = s.chain[c].at /\ x.after = s.chain[c].after
      /\ x.kind = s.chain[c].kind /\ x.then = X
  BY <1>1 DEF ChainRecords
<1> HIDE DEF x
<1>3. t = [s EXCEPT !.chain = With(s.chain, c, x)] BY DEF Handled, x
<1>4. With(s.chain, c, x) \in [Chains -> ChainRecords] BY <1>1, <1>2 DEF States, With
<1>5. /\ t \in States /\ t.chain = With(s.chain, c, x) /\ t.bus = s.bus /\ t.ops = s.ops
      /\ t.link = s.link /\ t.cluster = s.cluster /\ t.page = s.page
  BY <1>1, <1>3, <1>4 DEF States
<1> HIDE DEF t
<1>6. /\ \A d \in Chains : /\ t.chain[d].at = s.chain[d].at /\ t.chain[d].kind = s.chain[d].kind
                           /\ t.chain[d].after = s.chain[d].after
      /\ t.chain[c].then = X /\ \A d \in Chains \ {c} : t.chain[d] = s.chain[d]
  BY <1>1, <1>2, <1>5 DEF States, With
<1>7. s.chain[c].at # "idle" BY DEF Base, Chained, Shaped, NoChain
<1>8. Chained(t)
  <2>1. Shaped(t.chain[c]) BY <1>6, <1>7 DEF Base, Chained, Shaped
  <2> QED BY <2>1, <1>6 DEF Base, Chained
<1>9. Named(t) BY <1>5, <1>6 DEF Base, Named, Alive
<1>10. Flying(t) = Flying(s) /\ Latest(t) = Latest(s) BY <1>5, <1>6 DEF Flying, Latest
<1>11. \A d \in Refs : Done(t, d) <=> Done(s, d) BY <1>6 DEF Done, Refs
<1>12. Queued(t)
  <2>1. \A d \in Flying(s) : d \in Chains /\ s.chain[d].after \in Refs BY <1>1 DEF Flying, States, ChainRecords, Refs
  <2>2. \A d \in Flying(s) : Head(t, d) <=> Head(s, d) BY <2>1, <1>6, <1>11 DEF Head
  <2> QED BY <2>1, <2>2, <1>6, <1>10 DEF Base, Queued, Placed
<1>13. \A d \in {s.bus.current, s.bus.startPromise, s.bus.pendingStop} : d \in Refs BY <1>1 DEF States, Buses
<1>14. StopsAreStops(t) /\ CurrentIsOpen(t) /\ Phased(t) /\ OpeningIsCurrent(t)
  BY <1>5, <1>6, <1>10, <1>13 DEF Base, StopsAreStops, CurrentIsOpen, Phased, OpeningIsCurrent, Hushed, Refs
<1>15. Torn(t) /\ Dark(t) /\ ReadyRests(t) /\ RuntimeOff(t) /\ GateIsOurs(t)
  BY <1>5, <1>6, <1>10, <1>11, <1>13 DEF Base, Torn, Dark, ReadyRests, RuntimeOff, GateIsOurs, Hushed
<1>16. Base(t) BY <1>5, <1>8, <1>9, <1>12, <1>14, <1>15 DEF Base, Counted
<1>17. Runs(s) => Runs(t)
  BY <1>5, <1>6, <1>13 DEF Runs, WaitsWell, UsesWell, Using, At, Refs
<1>18. LostIsTold(s) => LostIsTold(t) BY <1>5 DEF LostIsTold, Hushed
<1>19. Kept(s) /\ s.chain[c].then \ {"watch"} \subseteq X => Kept(t)
  <2> SUFFICES ASSUME Kept(s), s.chain[c].then \ {"watch"} \subseteq X, t.bus.gate,
                      NEW d \in Chains, {"recovery", "demand"} \cap s.chain[d].then # {}
               PROVE  \E e \in Chains : {"recovery", "demand"} \cap t.chain[e].then # {}
    BY <1>5, <1>10 DEF Kept
  <2>1. CASE d = c BY <2>1, <1>6
  <2>2. CASE d # c BY <2>2, <1>6
  <2> QED BY <2>1, <2>2
<1>20. X \cap {"recovery", "demand"} # {} => Kept(t) BY <1>6 DEF Kept
<1>21. Idle(t) = Idle(s)
  <2>1. t.chain[c] # NoChain /\ s.chain[c] # NoChain BY <1>6, <1>7 DEF NoChain
  <2> QED BY <2>1, <1>6 DEF Idle
<1> QED BY <1>5, <1>6, <1>16, <1>17, <1>18, <1>19, <1>20, <1>21 DEF t

\* A handler attached to the start promise; it is an opening unless the bus is
\* hushed, and a bus without a start promise does not care.
LEMMA AttachKeeps ==
  ASSUME NEW s, Base(s), NEW h \in Handlers,
         s.bus.startPromise # None => s.chain[s.bus.startPromise].kind = "open"
  PROVE  /\ Base(Attach(s, h)) /\ (Runs(s) => Runs(Attach(s, h)))
         /\ LostIsTold(s) => LostIsTold(Attach(s, h))
         /\ Kept(s) => Kept(Attach(s, h))
         /\ h # "watch" /\ s.bus.startPromise # None => Kept(Attach(s, h))
         /\ Idle(Attach(s, h)) = Idle(s)
         /\ Attach(s, h).bus = s.bus /\ Attach(s, h).cluster = s.cluster
         /\ Attach(s, h).link = s.link /\ Attach(s, h).page = s.page
         /\ \A d \in Chains : Attach(s, h).chain[d].kind = s.chain[d].kind
<1> DEFINE c == s.bus.startPromise
<1>1. s \in States /\ c \in Refs BY DEF Base, States, Buses
<1>2. CASE c = None
  <2>1. None \notin Chains BY DEF None, Chains
  <2>2. Attach(s, h) = s BY <1>1, <1>2, <2>1 DEF Attach, States
  <2> QED BY <2>2, <1>2
<1>3. CASE c # None
  <2>1. c \in Chains /\ s.chain[c].kind = "open" BY <1>1, <1>3 DEF Refs
  <2> DEFINE X == s.chain[c].then \cup {h}
  <2>2. X \in SUBSET Handlers BY <1>1, <2>1 DEF States, ChainRecords
  <2>3. Attach(s, h) = Handled(s, c, X) BY <1>1, <2>1 DEF Attach, Handled, With, States, ChainRecords
  <2>4. h # "watch" => X \cap {"recovery", "demand"} # {} BY DEF Handlers
  <2>5. s.chain[c].then \ {"watch"} \subseteq X OBVIOUS
  <2> HIDE DEF X, c
  <2> QED BY <2>1, <2>2, <2>3, <2>4, <2>5, HandledKeeps
<1> QED BY <1>2, <1>3

\* The start promise of a bus that is not hushed is an opening.
LEMMA ActiveIsOpen ==
  ASSUME NEW s, Base(s), ~Hushed(s), s.bus.startPromise # None
  PROVE  s.chain[s.bus.startPromise].kind = "open"
<1>1. s.bus.startPromise \in Chains BY DEF Base, States, Buses, Refs
<1>2. s.chain[s.bus.startPromise].kind \in {"open", "stop"}
  BY <1>1 DEF Base, Named, Alive, Chained, Shaped
<1> QED BY <1>2 DEF Base, StopsAreStops

----------------------------------------------------------------------------
(* Stopping and suspending.                                                *)

Stopping(s) ==
  [s.bus EXCEPT !.queued = FALSE, !.current = None, !.heard = FALSE, !.stopping = TRUE,
                !.timer = FALSE, !.gate = FALSE, !.demand = FALSE,
                !.down = [at |-> "opening", on |-> s.bus.startPromise]]

\* stop() voids what is in flight, or has nothing to do.
LEMMA StopKeeps ==
  ASSUME NEW s, Base(s)
  PROVE  /\ Base(Stop(s)) /\ Idle(Stop(s)) = Idle(s)
         /\ Runs(s) => Runs(Stop(s))
         /\ LostIsTold(s) => LostIsTold(Stop(s))
         /\ Kept(s) => Kept(Stop(s))
         /\ Pauses(s) => Pauses(Stop(s))
         /\ Gates(s) => Gates(Stop(s))
         /\ s.bus.startPromise # None => Stop(s).bus.stopping
         /\ s.bus.startPromise # None => Core(Stop(s)) /\ Bound(Stop(s))
         /\ Stop(s).chain = s.chain /\ Stop(s).bus.startPromise = s.bus.startPromise
         /\ Stop(s).page = s.page /\ Stop(s).link = s.link
         /\ Stop(s).bus.stopping \/ Stop(s).cluster = s.cluster
<1> DEFINE t == Stop(s)
<1> DEFINE s1 == [s EXCEPT !.bus.queued = FALSE]
<1> DEFINE lazy == s.bus.stopping \/ (~s.bus.started /\ s.bus.startPromise = None
                                       /\ s.bus.pendingStop = None /\ ~s.bus.ready)
<1>1. s \in States BY DEF Base
<1>2. CASE lazy
  <2>1. t = s1 BY <1>2 DEF Stop
  <2>2. s1 \in States /\ Calm(s, s1) /\ s1.cluster = s.cluster BY QueuedCalm
  <2>3. s1.link = s.link BY <1>1 DEF States
  <2>4. s.bus.startPromise # None => s.bus.stopping BY <1>2
  <2>5. s.bus.stopping => Core(s1) /\ Bound(s1)
    <3> SUFFICES ASSUME s.bus.stopping PROVE Core(s1) /\ Bound(s1) OBVIOUS
    <3>1. Base(s1) BY <2>2, CalmKeeps
    <3>2. s1.bus.stopping /\ s1.bus.current = None /\ ~s1.bus.gate
      BY <2>2, <3>1 DEF Calm, Soft, Base, CurrentIsOpen, GateIsOurs, Hushed
    <3>3. Runs(s1) /\ LostIsTold(s1) /\ Kept(s1)
      BY <3>2 DEF Runs, WaitsWell, UsesWell, Using, At, LostIsTold, Kept, Hushed
    <3>4. Bound(s1) BY <3>1, <3>2 DEF Bound, Gates, Pauses, Base, RuntimeOff
    <3> QED BY <3>1, <3>3, <3>4 DEF Core
  <2>6. Idle(s1) = Idle(s) BY <1>1 DEF Idle, States
  <2> HIDE DEF s1
  <2> QED BY <2>1, <2>2, <2>3, <2>4, <2>5, <2>6, CalmKeeps DEF Calm, Soft, t
<1>3. CASE ~lazy
  <2>1. t.bus = Stopping(s) /\ Stopping(s) \in Buses
    BY <1>1, <1>3 DEF Stop, ClusterStop, CancelRecovery, NewEpoch, States, Buses, Stopping, Downs, Refs
  <2>2. /\ t.chain = s.chain /\ t.ops \subseteq s.ops /\ t.link = s.link /\ t.page = s.page
        /\ t.cluster = [running |-> FALSE, listening |-> FALSE, paused |-> FALSE, assigned |-> {}]
    BY <1>1, <1>3 DEF Stop, ClusterStop, CancelRecovery, NewEpoch, States
  <2>3. t \in States
    <3>1. t = [bus |-> t.bus, chain |-> t.chain, ops |-> t.ops, link |-> t.link,
               cluster |-> t.cluster, page |-> t.page]
      BY <1>1, <1>3 DEF Stop, ClusterStop, CancelRecovery, NewEpoch, States
    <3> HIDE DEF t
    <3>2. t.cluster \in Clusters BY <2>2 DEF Clusters
    <3>3. /\ t.bus \in Buses /\ t.chain \in [Chains -> ChainRecords] /\ t.ops \in SUBSET Waiters
          /\ t.link \in Links(Topics) /\ t.page \in Pages
      BY <1>1, <2>1, <2>2 DEF States
    <3> QED BY <3>1, <3>2, <3>3 DEF States
  <2> HIDE DEF t
  <2>4. /\ t.bus.current = None /\ ~t.bus.heard /\ t.bus.stopping /\ ~t.bus.gate
        /\ t.bus.started = s.bus.started
        /\ t.bus.suspended = s.bus.suspended /\ t.bus.ready = s.bus.ready
        /\ t.bus.config = s.bus.config
        /\ t.bus.startPromise = s.bus.startPromise /\ t.bus.pendingStop = s.bus.pendingStop
        /\ t.bus.down.at = "opening" /\ t.bus.down.on = s.bus.startPromise
        /\ t.bus.attempt = s.bus.attempt /\ t.bus.limit = s.bus.limit
    <3> DEFINE b == Stopping(s)
    <3>1. /\ b.current = None /\ ~b.heard /\ b.stopping /\ ~b.gate
          /\ b.down.at = "opening" /\ b.down.on = s.bus.startPromise
      BY <1>1 DEF Stopping, States, Buses
    <3>2. /\ b.started = s.bus.started
          /\ b.suspended = s.bus.suspended /\ b.ready = s.bus.ready
          /\ b.config = s.bus.config
          /\ b.startPromise = s.bus.startPromise /\ b.pendingStop = s.bus.pendingStop
          /\ b.attempt = s.bus.attempt /\ b.limit = s.bus.limit
      BY <1>1 DEF Stopping, States, Buses
    <3> HIDE DEF b
    <3> QED BY <2>1, <3>1, <3>2 DEF b
  <2>5. Hushed(t) BY <2>4 DEF Hushed
  <2>6. Chained(t) /\ Named(t) BY <2>2, <2>4 DEF Base, Chained, Named, Alive, None, Chains
  <2>7. Queued(t)
    BY <2>2, <2>4 DEF Base, Queued, Placed, Flying, Head, Done, Latest
  <2>8. StopsAreStops(t) /\ CurrentIsOpen(t) /\ Phased(t) /\ OpeningIsCurrent(t)
    <3>1. None \notin Flying(t) BY DEF Flying, None, Chains
    <3> QED BY <2>2, <2>4, <2>5, <3>1 DEF Base, StopsAreStops, CurrentIsOpen, Phased, OpeningIsCurrent
  <2>9. Torn(t) /\ Dark(t) /\ ReadyRests(t) /\ RuntimeOff(t) /\ GateIsOurs(t)
    BY <2>2, <2>4 DEF Base, Torn, Dark, ReadyRests, RuntimeOff, GateIsOurs, Done
  <2>10. Base(t) BY <2>3, <2>4, <2>6, <2>7, <2>8, <2>9 DEF Base, Counted
  <2>11. Runs(t) /\ LostIsTold(t) /\ Kept(t)
    BY <2>4, <2>5 DEF Runs, WaitsWell, UsesWell, Using, At, LostIsTold, Kept
  <2>12. Bound(t) /\ Gates(t) /\ Pauses(t) BY <2>2, <2>4, <2>9 DEF Bound, Gates, Pauses
  <2>13. Idle(t) = Idle(s) BY <2>2 DEF Idle
  <2> QED BY <2>2, <2>4, <2>10, <2>11, <2>12, <2>13 DEF Core, t
<1> QED BY <1>2, <1>3

Hiding(s) ==
  [s.bus EXCEPT !.current = None, !.heard = FALSE, !.timer = FALSE, !.gate = FALSE,
                !.demand = FALSE, !.suspended = TRUE, !.ready = FALSE, !.topics = {}]

\* suspendTransport, up to the status it tells.
Hidden(s) ==
  SetStatus([CancelRecovery(NewEpoch(s, None)) EXCEPT
               !.bus.suspended = TRUE, !.bus.ready = FALSE, !.bus.topics = {}], "disconnected")

\* A bus that is hidden has no current opening; it need not hold its stop yet.
LEMMA HiddenKeeps ==
  ASSUME NEW s, Base(s), s.bus.started, ~s.bus.stopping
  PROVE  /\ Core(Hidden(s)) /\ Idle(Hidden(s)) = Idle(s)
         /\ Hidden(s).bus.suspended /\ ~Hidden(s).bus.stopping
         /\ Hidden(s).cluster = s.cluster /\ Hidden(s).page = s.page /\ Hidden(s).link = s.link
<1> DEFINE h == [CancelRecovery(NewEpoch(s, None)) EXCEPT
                   !.bus.suspended = TRUE, !.bus.ready = FALSE, !.bus.topics = {}]
<1>1. s \in States BY DEF Base
<1>2. h.bus = Hiding(s) /\ Hiding(s) \in Buses
  BY <1>1 DEF CancelRecovery, NewEpoch, States, Buses, Hiding, Refs
<1>3. /\ h.chain = s.chain /\ h.ops \subseteq s.ops /\ h.link = s.link /\ h.page = s.page
      /\ h.cluster = s.cluster
  BY <1>1 DEF CancelRecovery, NewEpoch, States
<1>4. h \in States
  <2>1. h = [bus |-> h.bus, chain |-> h.chain, ops |-> h.ops, link |-> h.link,
             cluster |-> h.cluster, page |-> h.page]
    <3> DEFINE g == CancelRecovery(NewEpoch(s, None))
    <3>1. g = [bus |-> g.bus, chain |-> g.chain, ops |-> g.ops, link |-> g.link,
               cluster |-> g.cluster, page |-> g.page]
      <4> DEFINE e == NewEpoch(s, None)
      <4> DEFINE b == [s.bus EXCEPT !.current = None, !.heard = FALSE]
      <4>0. e = [s EXCEPT !.bus = b] BY <1>1 DEF NewEpoch, States, Buses
      <4> HIDE DEF e, b
      <4>1. e = [bus |-> e.bus, chain |-> e.chain, ops |-> e.ops, link |-> e.link,
                 cluster |-> e.cluster, page |-> e.page]
        BY <1>1, <4>0 DEF States
      <4> HIDE DEF e
      <4>2. CancelRecovery(e) = [e EXCEPT !.bus = CancelRecovery(e).bus,
                                          !.ops = CancelRecovery(e).ops]
        BY <4>1 DEF CancelRecovery
      <4> QED BY <4>1, <4>2 DEF e
    <3> HIDE DEF g
    <3>2. h = [g EXCEPT !.bus = h.bus] BY <3>1 DEF g
    <3> HIDE DEF h
    <3>3. /\ h.chain = g.chain /\ h.ops = g.ops /\ h.link = g.link /\ h.cluster = g.cluster
          /\ h.page = g.page
      BY <3>1, <3>2
    <3> QED BY <3>1, <3>2, <3>3
  <2> HIDE DEF h
  <2> QED BY <1>1, <1>2, <1>3, <2>1 DEF States
<1> HIDE DEF h
<1>5. /\ h.bus.current = None /\ ~h.bus.heard /\ ~h.bus.gate /\ h.bus.started /\ ~h.bus.stopping
      /\ h.bus.suspended /\ ~h.bus.ready /\ h.bus.config = s.bus.config
      /\ h.bus.startPromise = s.bus.startPromise /\ h.bus.pendingStop = s.bus.pendingStop
      /\ h.bus.down = s.bus.down
      /\ h.bus.attempt = s.bus.attempt /\ h.bus.limit = s.bus.limit
  <2> DEFINE b == Hiding(s)
  <2>1. /\ b.current = None /\ ~b.heard /\ ~b.gate /\ b.suspended /\ ~b.ready
        /\ b.started = s.bus.started /\ b.stopping = s.bus.stopping /\ b.config = s.bus.config
    BY <1>1 DEF Hiding, States, Buses
  <2>2. /\ b.startPromise = s.bus.startPromise /\ b.pendingStop = s.bus.pendingStop
        /\ b.down = s.bus.down
        /\ b.attempt = s.bus.attempt /\ b.limit = s.bus.limit
    BY <1>1 DEF Hiding, States, Buses
  <2> HIDE DEF b
  <2> QED BY <1>2, <2>1, <2>2 DEF b
<1>6. Hushed(h) BY <1>5 DEF Hushed
<1>7. Chained(h) /\ Named(h) BY <1>3, <1>5 DEF Base, Chained, Named, Alive, None, Chains
<1>8. Queued(h) BY <1>3, <1>5 DEF Base, Queued, Placed, Flying, Head, Done, Latest
<1>9. StopsAreStops(h) /\ CurrentIsOpen(h) /\ Phased(h) /\ OpeningIsCurrent(h)
  <2>1. None \notin Flying(h) BY DEF Flying, None, Chains
  <2> QED BY <1>3, <1>5, <1>6, <2>1 DEF Base, StopsAreStops, CurrentIsOpen, Phased, OpeningIsCurrent
<1>10. Torn(h) /\ Dark(h) /\ ReadyRests(h) /\ RuntimeOff(h) /\ GateIsOurs(h)
  BY <1>3, <1>5 DEF Base, Torn, Dark, ReadyRests, RuntimeOff, GateIsOurs, Done, Flying
<1>11. Base(h) BY <1>4, <1>5, <1>7, <1>8, <1>9, <1>10 DEF Base, Counted
<1> DEFINE t == SetStatus(h, "disconnected")
<1>12. /\ t \in States /\ Soft(h, t) /\ Counted(t) /\ t.bus.gate = h.bus.gate
       /\ t.cluster = h.cluster /\ t.link = h.link
  BY <1>11, SetStatusSoft DEF Base, Statuses
<1>13. t = Hidden(s) BY DEF Hidden, h
<1> HIDE DEF t
<1>14. /\ ~t.bus.gate /\ t.bus.suspended /\ ~t.bus.stopping /\ ~t.bus.ready
       /\ t.bus.current = None /\ t.chain = s.chain /\ t.page = s.page
  BY <1>3, <1>5, <1>12 DEF Soft
<1>15. Base(t)
  <2>1. GateIsOurs(t) BY <1>14 DEF GateIsOurs
  <2> QED BY <2>1, <1>11, <1>12, SoftBase
<1>16. Runs(t) /\ LostIsTold(t) /\ Kept(t)
  BY <1>14 DEF Runs, WaitsWell, UsesWell, Using, At, LostIsTold, Kept, Hushed
<1>17. Idle(t) = Idle(s) BY <1>14 DEF Idle
<1> QED BY <1>3, <1>12, <1>13, <1>14, <1>15, <1>16, <1>17 DEF Core

----------------------------------------------------------------------------
\* A hushed bus uses nothing and waits for nobody.
LEMMA HushedCore ==
  ASSUME NEW s, Base(s), Hushed(s)
  PROVE  Core(s)
<1>1. s.bus.current = None /\ ~s.bus.gate /\ (s.bus.stopping \/ ~s.bus.ready)
  BY DEF Base, CurrentIsOpen, GateIsOurs, Phased, Hushed
<1> QED BY <1>1 DEF Core, Runs, WaitsWell, UsesWell, Using, At, LostIsTold, Kept

WaitingStop(after) == [NoChain EXCEPT !.kind = "stop", !.at = "waiting", !.after = after]
Holding(b, start, stop) == [b EXCEPT !.startPromise = start, !.pendingStop = stop]

\* A stop that exists covers the hide, if no opening came after it.
LEMMA GatedKeeps ==
  ASSUME NEW s, Base(s), s.bus.suspended, ~s.bus.stopping, s.bus.pendingStop # None, ~Opening(s)
  PROVE  /\ Base(Gated(s)) /\ Gates(Gated(s)) /\ Idle(Gated(s)) = Idle(s)
         /\ Gated(s).cluster = s.cluster /\ Gated(s).page = s.page
         /\ Gated(s).bus.suspended /\ ~Gated(s).bus.stopping
<1> DEFINE t == Gated(s)
<1>1. s \in States BY DEF Base
<1>2. t = [s EXCEPT !.bus = Holding(s.bus, s.bus.pendingStop, s.bus.pendingStop)]
      /\ Holding(s.bus, s.bus.pendingStop, s.bus.pendingStop) \in Buses
  BY <1>1 DEF Gated, Holding, States, Buses
<1>3. /\ t \in States /\ t.bus = Holding(s.bus, s.bus.pendingStop, s.bus.pendingStop)
      /\ t.chain = s.chain /\ t.ops = s.ops /\ t.link = s.link /\ t.cluster = s.cluster /\ t.page = s.page
  BY <1>1, <1>2 DEF States
<1> HIDE DEF t
<1>4. /\ t.bus.startPromise = s.bus.pendingStop /\ t.bus.pendingStop = s.bus.pendingStop
      /\ t.bus.suspended /\ ~t.bus.stopping /\ t.bus.started = s.bus.started
      /\ t.bus.ready = s.bus.ready /\ t.bus.config = s.bus.config
      /\ t.bus.current = s.bus.current /\ t.bus.heard = s.bus.heard
      /\ t.bus.down = s.bus.down
      /\ t.bus.gate = s.bus.gate /\ t.bus.timer = s.bus.timer /\ t.bus.cooled = s.bus.cooled
      /\ t.bus.attempt = s.bus.attempt /\ t.bus.limit = s.bus.limit
  BY <1>1, <1>3 DEF Holding, States, Buses
<1>5. Latest(t) = Latest(s) BY <1>4 DEF Latest, Opening
<1>6. Chained(t) /\ Named(t) BY <1>3, <1>4 DEF Base, Chained, Named, Alive
<1>7. Queued(t) BY <1>3, <1>5 DEF Base, Queued, Placed, Flying, Head, Done
<1>8. t.bus.current = None /\ ~t.bus.heard /\ None \notin Flying(t)
  BY <1>4 DEF Base, CurrentIsOpen, Hushed, Flying, None, Chains
<1>9. StopsAreStops(t) /\ CurrentIsOpen(t) /\ Phased(t) /\ OpeningIsCurrent(t)
  BY <1>3, <1>4, <1>8 DEF Base, StopsAreStops, CurrentIsOpen, Phased, OpeningIsCurrent, Hushed
<1>10. Torn(t) /\ Dark(t) /\ ReadyRests(t) /\ RuntimeOff(t) /\ GateIsOurs(t)
  BY <1>3, <1>4 DEF Base, Torn, Dark, ReadyRests, RuntimeOff, GateIsOurs, Hushed, Done, Flying
<1>11. Base(t) BY <1>3, <1>4, <1>6, <1>7, <1>9, <1>10 DEF Base, Counted
<1>12. Gates(t) /\ Idle(t) = Idle(s) BY <1>3, <1>4 DEF Gates, Idle
<1> QED BY <1>3, <1>4, <1>11, <1>12 DEF t

\* Otherwise a new stop covers it.
LEMMA NewStopKeeps ==
  ASSUME NEW s, Base(s), s.bus.suspended, ~s.bus.stopping, NEW n \in Nat, Room(s, n + 1)
  PROVE  LET t == Gated(NewStop(s, Latest(s)))
         IN /\ Base(t) /\ Gates(t) /\ Room(t, n) /\ t.cluster = s.cluster /\ t.page = s.page
            /\ t.bus.suspended /\ ~t.bus.stopping
<1> DEFINE c == Fresh(s)
<1> DEFINE x == WaitingStop(Latest(s))
<1> DEFINE t == Gated(NewStop(s, Latest(s)))
<1>1. /\ c \in Idle(s) /\ c \in Chains /\ c # None
      /\ s.chain[c] = NoChain
      /\ \A u : Idle(u) = Idle(s) \ {c} => Room(u, n)
  BY FreshIsIdle
<1> HIDE DEF c
<1>2. s \in States /\ Latest(s) \in Refs BY DEF Base, States, Buses, Latest
<1>x. x \in ChainRecords /\ x.kind = "stop" /\ x.at = "waiting" /\ x.after = Latest(s) /\ x.then = {}
  BY <1>2 DEF WaitingStop, NoChain, ChainRecords, Refs
<1>3. /\ Holding(s.bus, c, c) \in Buses
      /\ With(s.chain, c, x) \in [Chains -> ChainRecords]
  BY <1>1, <1>2, <1>x DEF Holding, With, States, Buses, Refs
<1>4. t = [s EXCEPT !.bus = Holding(s.bus, c, c), !.chain = With(s.chain, c, x)]
  BY <1>2 DEF Gated, NewStop, Holding, With, WaitingStop, States, Buses, c
<1> HIDE DEF t, x
<1>5. /\ t \in States /\ t.bus = Holding(s.bus, c, c) /\ t.chain = With(s.chain, c, x)
      /\ t.ops = s.ops /\ t.link = s.link /\ t.cluster = s.cluster /\ t.page = s.page
  BY <1>2, <1>3, <1>4 DEF States
<1>6. /\ t.bus.startPromise = c /\ t.bus.pendingStop = c
      /\ t.bus.suspended /\ ~t.bus.stopping /\ t.bus.started = s.bus.started
      /\ t.bus.ready = s.bus.ready /\ t.bus.config = s.bus.config
      /\ t.bus.current = s.bus.current /\ t.bus.heard = s.bus.heard
      /\ t.bus.down = s.bus.down
      /\ t.bus.gate = s.bus.gate /\ t.bus.timer = s.bus.timer /\ t.bus.cooled = s.bus.cooled
      /\ t.bus.attempt = s.bus.attempt /\ t.bus.limit = s.bus.limit
  BY <1>2, <1>5 DEF Holding, States, Buses
<1>7. t.chain[c] = x /\ \A d \in Chains \ {c} : t.chain[d] = s.chain[d]
  BY <1>1, <1>2, <1>5 DEF With, States
<1>8. s.chain[c].at = "idle" BY <1>1 DEF NoChain
<1>9. \A r : Alive(s, r) => r # c /\ Alive(t, r) BY <1>1, <1>7, <1>8 DEF Alive
<1>10. Chained(t)
  <2>1. Shaped(x) BY <1>x DEF Shaped
  <2> QED BY <2>1, <1>7 DEF Base, Chained
<1>11. Named(t)
  <2>1. Alive(t, c) BY <1>x, <1>7 DEF Alive
  <2>2. Alive(s, Latest(s)) BY DEF Base, Named, Latest
  <2>3. \A d \in Chains : Alive(t, t.chain[d].after) BY <2>2, <1>x, <1>7, <1>9 DEF Base, Named
  <2> QED BY <2>1, <2>3, <1>5, <1>6, <1>9 DEF Base, Named
<1>12. Queued(t)
  <2>1. Latest(t) = c BY <1>1, <1>6 DEF Latest
  <2>2. s.chain \in [Chains -> ChainRecords] /\ Named(s) /\ Queued(s) BY DEF Base, States
  <2>3. t.chain = [s.chain EXCEPT ![c] = x] BY <1>5 DEF With
  <2> QED BY <2>1, <2>2, <2>3, <1>x, <1>1, <1>2, QueueGrows
<1>13. t.bus.current = None /\ ~t.bus.heard /\ None \notin Flying(t)
  BY <1>6 DEF Base, CurrentIsOpen, Hushed, Flying, None, Chains
<1>14. StopsAreStops(t) /\ CurrentIsOpen(t) /\ Phased(t) /\ OpeningIsCurrent(t)
  BY <1>x, <1>6, <1>7, <1>13 DEF Base, StopsAreStops, CurrentIsOpen, Phased, OpeningIsCurrent, Hushed
<1>15. Torn(t) BY <1>6 DEF Base, Torn
<1>16. Dark(t) /\ ReadyRests(t) /\ RuntimeOff(t) /\ GateIsOurs(t)
  BY <1>x, <1>1, <1>5, <1>6, <1>7 DEF Base, Phased, Dark, ReadyRests, RuntimeOff, GateIsOurs, Hushed, Done
<1>17. Base(t) BY <1>5, <1>6, <1>10, <1>11, <1>12, <1>14, <1>15, <1>16 DEF Base, Counted
<1>18. Gates(t) BY <1>1, <1>6 DEF Gates
<1>19. Room(t, n)
  <2>1. Idle(t) = Idle(s) \ {c} BY <1>x, <1>1, <1>7 DEF Idle, NoChain
  <2> QED BY <2>1, <1>1
<1> QED BY <1>5, <1>6, <1>17, <1>18, <1>19 DEF t

\* Whatever the application made of a hide, the bus ends up holding its stop
\* if it is still suspended.
LEMMA StopSuspendedKeeps ==
  ASSUME NEW s, Core(s), NEW n \in Nat, Room(s, n + 1)
  PROVE  LET t == StopSuspended(s)
         IN /\ Core(t) /\ Gates(t) /\ Room(t, n) /\ t.cluster = s.cluster /\ t.page = s.page
            /\ t.bus.suspended = s.bus.suspended /\ t.bus.stopping = s.bus.stopping
<1>0. Base(s) /\ Room(s, n) /\ s.bus.suspended \in BOOLEAN /\ s.bus.stopping \in BOOLEAN
  <2>1. n + 1 \in Nat /\ n <= n + 1 OBVIOUS
  <2> QED BY <2>1, RoomLess DEF Core, Base, States, Buses
<1>1. CASE s.bus.stopping \/ ~s.bus.suspended
  <2>1. StopSuspended(s) = s BY <1>1 DEF StopSuspended
  <2> QED BY <1>0, <1>1, <2>1 DEF Gates
<1>2. CASE ~s.bus.stopping /\ s.bus.suspended /\ s.bus.pendingStop # None /\ ~Opening(s)
  <2>1. StopSuspended(s) = Gated(s) BY <1>2 DEF StopSuspended
  <2>2. /\ Base(Gated(s)) /\ Gates(Gated(s)) /\ Idle(Gated(s)) = Idle(s)
        /\ Gated(s).cluster = s.cluster /\ Gated(s).page = s.page
        /\ Gated(s).bus.suspended /\ ~Gated(s).bus.stopping
    BY <1>0, <1>2, GatedKeeps
  <2>3. Gated(s).bus.suspended = TRUE /\ Gated(s).bus.stopping = FALSE
    BY <2>2 DEF Base, States, Buses
  <2>4. Core(Gated(s)) BY <2>2, HushedCore DEF Hushed
  <2>5. Room(Gated(s), n) BY <1>0, <2>2 DEF Room
  <2> QED BY <1>0, <1>2, <2>1, <2>2, <2>3, <2>4, <2>5
<1>3. CASE ~s.bus.stopping /\ s.bus.suspended /\ ~(s.bus.pendingStop # None /\ ~Opening(s))
  <2> DEFINE t == Gated(NewStop(s, Latest(s)))
  <2>1. StopSuspended(s) = t BY <1>3 DEF StopSuspended
  <2>2. /\ Base(t) /\ Gates(t) /\ Room(t, n) /\ t.cluster = s.cluster /\ t.page = s.page
        /\ t.bus.suspended /\ ~t.bus.stopping
    BY <1>0, <1>3, NewStopKeeps
  <2> HIDE DEF t
  <2>3. t.bus.suspended = TRUE /\ t.bus.stopping = FALSE BY <2>2 DEF Base, States, Buses
  <2>4. Core(t) BY <2>2, HushedCore DEF Hushed
  <2> QED BY <1>0, <1>3, <2>1, <2>2, <2>3, <2>4
<1> QED BY <1>1, <1>2, <1>3

----------------------------------------------------------------------------
(* What a status handler of the application may call: nobody reacts to the *)
(* statuses that this tells.                                               *)

\* What does not tell a status is the same for everybody.
LEMMA PlainSame ==
  /\ \A s : Plain!Opening(s) = Opening(s) /\ Plain!Fresh(s) = Fresh(s) /\ Plain!Latest(s) = Latest(s)
  /\ \A s, status : Plain!SetStatus(s, status) = SetStatus(s, status)
  /\ \A s, keep : Plain!ResetFailure(s, keep) = ResetFailure(s, keep)
  /\ \A s, a, i, b : Plain!NewOpening(s, a, i, b) = NewOpening(s, a, i, b)
  /\ \A s, h : Plain!Attach(s, h) = Attach(s, h)
  /\ \A s : Plain!StopSuspended(s) = StopSuspended(s)
  /\ \A s : Plain!CancelRecovery(Plain!NewEpoch(s, Plain!None)) = CancelRecovery(NewEpoch(s, None))
  /\ \A s : Plain!Stop(s) = Stop(s)
<1>1. \A s : Plain!Opening(s) = Opening(s) BY DEF Plain!Opening, Opening, Plain!None, None
<1>2. \A s : Plain!Idle(s) = Idle(s)
  BY DEF Plain!Idle, Idle, Plain!NoChain, NoChain, Plain!None, None, Plain!Chains, Chains
<1>3. \A s : Plain!Fresh(s) = Fresh(s) BY <1>2 DEF Plain!Fresh, Fresh
<1>4. \A s : Plain!Latest(s) = Latest(s) BY DEF Plain!Latest, Latest, Plain!None, None
<1>5. \A s, status : Plain!SetStatus(s, status) = SetStatus(s, status)
  BY DEF Plain!SetStatus, SetStatus
<1>6. \A s : Plain!ReleaseGate(s) = ReleaseGate(s)
  BY DEF Plain!ReleaseGate, ReleaseGate, Plain!Gate, Gate, Plain!Released, Released
<1>7. \A s, keep : Plain!ResetFailure(s, keep) = ResetFailure(s, keep)
  BY <1>6 DEF Plain!ResetFailure, ResetFailure
<1>8. \A s, c : Plain!NewEpoch(s, c) = NewEpoch(s, c) BY DEF Plain!NewEpoch, NewEpoch
<1>9. \A s, a, i, b : Plain!NewOpening(s, a, i, b) = NewOpening(s, a, i, b)
  <2> TAKE s, a, i, b
  <2>1. Plain!Fresh(s) = Fresh(s) /\ Plain!NewEpoch(s, Fresh(s)) = NewEpoch(s, Fresh(s))
    BY <1>3, <1>8
  <2> QED BY Zenon, <2>1 DEF Plain!NewOpening, NewOpening
<1>10. \A s, h : Plain!Attach(s, h) = Attach(s, h) BY DEF Plain!Attach, Attach
<1>11. \A s, a : Plain!NewStop(s, a) = NewStop(s, a)
  BY <1>3 DEF Plain!NewStop, NewStop, Plain!NoChain, NoChain, Plain!None, None
<1>12. \A s : Plain!Gated(s) = Gated(s) BY DEF Plain!Gated, Gated
<1>13. \A s : Plain!StopSuspended(s) = StopSuspended(s)
  BY <1>1, <1>4, <1>11, <1>12 DEF Plain!StopSuspended, StopSuspended, Plain!None, None
<1>14. \A s : Plain!CancelRecovery(s) = CancelRecovery(s)
  BY DEF Plain!CancelRecovery, CancelRecovery, Plain!Gate, Gate, Plain!Released, Released
<1>15. \A s : Plain!ClusterStop(s) = ClusterStop(s) BY DEF Plain!ClusterStop, ClusterStop
<1>16. \A s : Plain!Stop(s) = Stop(s)
  BY <1>8, <1>14, <1>15 DEF Plain!Stop, Stop, Plain!None, None
<1>17. \A s : Plain!CancelRecovery(Plain!NewEpoch(s, Plain!None)) = CancelRecovery(NewEpoch(s, None))
  BY <1>8, <1>14 DEF Plain!None, None
<1> QED BY <1>1, <1>3, <1>4, <1>5, <1>7, <1>9, <1>10, <1>13, <1>16, <1>17

\* What an opening that began leaves of s.
Begun(s, t) ==
  /\ Base(t) /\ LostIsTold(t) /\ Kept(t) /\ (Openable(s) => Core(t))
  /\ t.bus.startPromise # None /\ t.chain[t.bus.startPromise].kind = "open"
  /\ t.page = s.page /\ t.link = s.link
  /\ t.bus.stopping \/ (t.bus.started /\ ~t.bus.suspended /\ t.cluster = s.cluster)

\* The watching of an opening that was told.
LEMMA ReopenedKeeps ==
  ASSUME NEW s, NEW t, Begun(s, t), NEW c, NEW n \in Nat, Room(t, n)
  PROVE  Begun(s, Reopened(t, c)) /\ Room(Reopened(t, c), n)
         /\ Reopened(t, c).bus = t.bus /\ Reopened(t, c).cluster = t.cluster
<1>1. CASE t.bus.current # c \/ t.bus.stopping \/ t.bus.suspended
  <2>1. Reopened(t, c) = t BY <1>1 DEF Reopened
  <2> QED BY <2>1
<1>2. CASE ~(t.bus.current # c \/ t.bus.stopping \/ t.bus.suspended)
  <2> DEFINE u == Attach(t, "watch")
  <2>1. Reopened(t, c) = u BY <1>2 DEF Reopened
  <2>2. /\ Base(u) /\ (Runs(t) => Runs(u)) /\ LostIsTold(u) /\ Kept(u) /\ Idle(u) = Idle(t)
        /\ u.bus = t.bus /\ u.cluster = t.cluster
        /\ u.link = t.link /\ u.page = t.page
        /\ \A d \in Chains : u.chain[d].kind = t.chain[d].kind
    BY AttachKeeps DEF Begun, Handlers
  <2>3. t.bus.startPromise \in Chains BY DEF Begun, Base, States, Buses, Refs
  <2> HIDE DEF u
  <2> QED BY <2>1, <2>2, <2>3 DEF Begun, Core, Room
<1> QED BY <1>1, <1>2

\* Where reopenTransport has nothing to do.
Settled(s) == s.bus.stopping \/ ~s.bus.config \/ Opening(s)

\* reopenTransport.
LEMMA PlainReopenKeeps ==
  ASSUME NEW s, Base(s), ~Settled(s), NEW byTimer \in BOOLEAN, NEW r, NEW n \in Nat, Room(s, n + 1)
  PROVE  /\ Begun(s, Plain!Reopen(s, byTimer, r)) /\ Room(Plain!Reopen(s, byTimer, r), n)
         /\ ~Hushed(Plain!Reopen(s, byTimer, r))
<1> DEFINE tr == byTimer \/ s.bus.attempt > 0
<1> DEFINE u == Connecting(s, FALSE, tr)
<1>1. tr \in BOOLEAN OBVIOUS
<1>2. Latest(s) = s.bus.pendingStop BY DEF Settled, Latest, Opening
<1>3. Plain!Reopen(s, byTimer, r) = Reopened(u, Fresh(s))
  BY <1>2, PlainSame DEF Plain!Reopen, Plain!Reopened, Reopened, Ignored, Settled, Connecting
<1> HIDE DEF tr
<1>4. /\ Base(u) /\ LostIsTold(u) /\ Kept(u) /\ Room(u, n)
      /\ Openable(s) => Core(u)
      /\ u.bus.startPromise = Fresh(s) /\ u.bus.current = Fresh(s)
      /\ u.chain[Fresh(s)].kind = "open" /\ Opening(u) /\ Fresh(s) \in Chains
      /\ u.bus.started /\ ~Hushed(u)
      /\ u.cluster = s.cluster /\ u.link = s.link /\ u.page = s.page
  BY <1>1, OpeningBegins DEF Settled
<1> HIDE DEF u
<1>5. Begun(s, u) BY <1>4 DEF Begun, Opening, Hushed
<1>6. Begun(s, Reopened(u, Fresh(s))) /\ Room(Reopened(u, Fresh(s)), n)
      /\ Reopened(u, Fresh(s)).bus = u.bus
  BY <1>4, <1>5, ReopenedKeeps
<1> QED BY <1>3, <1>4, <1>6 DEF Hushed

\* suspendTransport ends with the stop as the start promise.
LEMMA PlainSuspendKeeps ==
  ASSUME NEW s, Base(s), s.bus.started, ~s.bus.stopping, NEW r, NEW n \in Nat, Room(s, n + 1)
  PROVE  LET t == Plain!SuspendTransport(s, r)
         IN /\ Core(t) /\ Gates(t) /\ Room(t, n) /\ t.cluster = s.cluster /\ t.page = s.page
            /\ t.bus.suspended /\ ~t.bus.stopping
<1> DEFINE h == [CancelRecovery(NewEpoch(s, None)) EXCEPT
                   !.bus.suspended = TRUE, !.bus.ready = FALSE, !.bus.topics = {}]
<1>1. Plain!SuspendTransport(s, r) = StopSuspended(Plain!UpdateStatus(h, "disconnected", r))
  BY PlainSame DEF Plain!SuspendTransport
<1> HIDE DEF h
<1>2. Plain!UpdateStatus(h, "disconnected", r) = SetStatus(h, "disconnected")
  BY PlainSame DEF Plain!UpdateStatus, Ignored
<1>3. SetStatus(h, "disconnected") = Hidden(s) BY DEF h, Hidden
<1>4. /\ Core(Hidden(s)) /\ Idle(Hidden(s)) = Idle(s)
      /\ Hidden(s).bus.suspended /\ ~Hidden(s).bus.stopping
      /\ Hidden(s).cluster = s.cluster /\ Hidden(s).page = s.page
  BY HiddenKeeps
<1>5. Room(Hidden(s), n + 1) BY <1>4 DEF Room
<1> DEFINE t == StopSuspended(Hidden(s))
<1>6. /\ Core(t) /\ Gates(t) /\ Room(t, n) /\ t.cluster = Hidden(s).cluster /\ t.page = Hidden(s).page
      /\ t.bus.suspended = Hidden(s).bus.suspended /\ t.bus.stopping = Hidden(s).bus.stopping
  BY <1>4, <1>5, StopSuspendedKeeps
<1> HIDE DEF t
<1>7. Plain!SuspendTransport(s, r) = t BY <1>1, <1>2, <1>3 DEF t
<1> QED BY <1>4, <1>6, <1>7

----------------------------------------------------------------------------
\* s with another state of the runtime.
Running(s, C) == [s EXCEPT !.cluster = C]

\* The runtime of a bus that is started, and not stopping, may do as it likes.
LEMMA RunningKeeps ==
  ASSUME NEW s, Base(s), s.bus.started, ~s.bus.stopping, NEW C \in Clusters
  PROVE  LET t == Running(s, C)
         IN /\ Base(t) /\ (Runs(s) => Runs(t)) /\ (LostIsTold(s) => LostIsTold(t))
            /\ (Kept(s) => Kept(t)) /\ (Gates(s) => Gates(t)) /\ (Core(s) => Core(t))
            /\ Idle(t) = Idle(s) /\ t.cluster = C
            /\ t.bus = s.bus /\ t.chain = s.chain /\ t.link = s.link /\ t.page = s.page
            /\ (Openable(s) => Openable(t)) /\ (Opening(t) <=> Opening(s))
<1> DEFINE t == Running(s, C)
<1>1. s \in States BY DEF Base
<1>2. /\ t \in States /\ t.cluster = C /\ t.bus = s.bus /\ t.chain = s.chain /\ t.ops = s.ops
      /\ t.link = s.link /\ t.page = s.page
  BY <1>1 DEF Running, States
<1> HIDE DEF t
<1>3. Chained(t) /\ Named(t) BY <1>2 DEF Base, Chained, Named, Alive
<1>4. Queued(t) BY <1>2 DEF Base, Queued, Placed, Flying, Head, Done, Latest
<1>5. StopsAreStops(t) /\ CurrentIsOpen(t) /\ Phased(t) /\ OpeningIsCurrent(t)
  BY <1>2 DEF Base, StopsAreStops, CurrentIsOpen, Phased, OpeningIsCurrent, Hushed, Flying
<1>6. Torn(t) /\ Dark(t) /\ ReadyRests(t) /\ RuntimeOff(t) /\ GateIsOurs(t)
  BY <1>2 DEF Base, Torn, Dark, ReadyRests, RuntimeOff, GateIsOurs, Done, Flying, Hushed
<1>7. Base(t) BY <1>2, <1>3, <1>4, <1>5, <1>6 DEF Base, Counted
<1>8. (Runs(s) => Runs(t)) /\ (LostIsTold(s) => LostIsTold(t))
      /\ (Kept(s) => Kept(t)) /\ (Gates(s) => Gates(t))
  BY <1>2 DEF Runs, WaitsWell, UsesWell, Using, At, LostIsTold, Kept, Gates, Hushed, Flying
<1>9. Idle(t) = Idle(s) /\ (Openable(s) => Openable(t)) /\ (Opening(t) <=> Opening(s))
  BY <1>2 DEF Idle, Openable, Opening
<1> QED BY <1>2, <1>7, <1>8, <1>9 DEF t, Core

\* The runtime as cluster.start() leaves it.
Resuming(C) == [C EXCEPT !.listening = TRUE, !.paused = FALSE, !.running = TRUE]
Pausing(C) == [C EXCEPT !.listening = TRUE, !.paused = TRUE]

Woken(s) == [s EXCEPT !.cluster.listening = TRUE, !.cluster.paused = FALSE,
                      !.cluster.running = TRUE]
Paused(s) == [s EXCEPT !.cluster.listening = TRUE, !.cluster.paused = TRUE]

\* cluster.start(), in terms of Running.
LEMMA Turning ==
  ASSUME NEW s \in States
  PROVE  /\ Woken(s) = Running(s, Resuming(s.cluster)) /\ Paused(s) = Running(s, Pausing(s.cluster))
         /\ Resuming(s.cluster) \in Clusters /\ Pausing(s.cluster) \in Clusters
         /\ Resuming(s.cluster).running /\ Resuming(s.cluster).listening
         /\ ~Resuming(s.cluster).paused
         /\ Pausing(s.cluster).running = s.cluster.running /\ Pausing(s.cluster).listening
         /\ Pausing(s.cluster).paused
<1>1. s.cluster \in Clusters BY DEF States
<1>2. Woken(s) = Running(s, Resuming(s.cluster)) BY <1>1 DEF States, Clusters, Woken, Running, Resuming
<1>3. Paused(s) = Running(s, Pausing(s.cluster)) BY <1>1 DEF States, Clusters, Paused, Running, Pausing
<1>4. /\ Resuming(s.cluster) \in Clusters
      /\ Resuming(s.cluster).running /\ Resuming(s.cluster).listening
      /\ ~Resuming(s.cluster).paused
  BY <1>1 DEF Clusters, Resuming
<1>5. /\ Pausing(s.cluster) \in Clusters
      /\ Pausing(s.cluster).running = s.cluster.running /\ Pausing(s.cluster).listening
      /\ Pausing(s.cluster).paused
  BY <1>1 DEF Clusters, Pausing
<1> QED BY <1>2, <1>3, <1>4, <1>5

\* cluster.start() suspends the bus at once in a page that is not visible.  The
\* opening may be one that a live transport would not be fit for, if the bus is
\* about to be suspended again.
LEMMA PlainClusterStartKeeps ==
  ASSUME NEW s, Base(s), s.bus.started, ~Hushed(s), s.cluster.running => Pauses(s),
         Core(s) \/ (~s.cluster.running /\ s.page # "visible"),
         NEW r, NEW n \in Nat, Room(s, n + 1)
  PROVE  LET t == Plain!ClusterStart(s, r)
         IN Core(t) /\ Gates(t) /\ Pauses(t) /\ Room(t, n) /\ t.page = s.page
<1>0. s \in States /\ ~s.bus.stopping /\ ~s.bus.suspended /\ Room(s, n)
  <2>1. n + 1 \in Nat /\ n <= n + 1 OBVIOUS
  <2> QED BY <2>1, RoomLess DEF Base, Hushed
<1>1. CASE s.cluster.running
  <2>1. Plain!ClusterStart(s, r) = s BY <1>1 DEF Plain!ClusterStart
  <2> QED BY <1>0, <1>1, <2>1 DEF Gates
<1>2. CASE ~s.cluster.running /\ s.page = "visible"
  <2> DEFINE C == Resuming(s.cluster)
  <2> DEFINE t == Running(s, C)
  <2>0. Plain!ClusterStart(s, r) = Woken(s) BY <1>2 DEF Plain!ClusterStart, Woken
  <2>1. Plain!ClusterStart(s, r) = t /\ C \in Clusters BY <1>0, <2>0, Turning
  <2>2. C.running /\ C.listening /\ ~C.paused BY <1>0, Turning
  <2> HIDE DEF C
  <2>3. /\ (Core(s) => Core(t)) /\ Idle(t) = Idle(s) /\ t.cluster = C /\ t.bus = s.bus
        /\ t.page = s.page
    BY <1>0, <2>1, RunningKeeps
  <2> HIDE DEF t
  <2>4. Gates(t) /\ Pauses(t) BY <1>0, <2>2, <2>3 DEF Gates, Pauses
  <2> QED BY <1>0, <1>2, <2>1, <2>3, <2>4 DEF Room
<1>3. CASE ~s.cluster.running /\ s.page # "visible"
  <2> DEFINE C == Pausing(s.cluster)
  <2> DEFINE h == Running(s, C)
  <2> DEFINE t == Plain!SuspendTransport(h, r)
  <2>0. Plain!ClusterStart(s, r) = Plain!SuspendTransport(Paused(s), r)
    BY <1>3 DEF Plain!ClusterStart, Paused
  <2>1. Plain!ClusterStart(s, r) = t /\ C \in Clusters BY <1>0, <1>3, <2>0, Turning
  <2>2. ~C.running /\ C.listening /\ C.paused BY <1>0, <1>3, Turning
  <2> HIDE DEF C
  <2>3. Base(h) /\ Idle(h) = Idle(s) /\ h.cluster = C /\ h.bus = s.bus /\ h.page = s.page
    BY <1>0, <2>1, RunningKeeps
  <2> HIDE DEF h
  <2>4. Room(h, n + 1) BY <2>3 DEF Room
  <2>5. /\ Core(t) /\ Gates(t) /\ Room(t, n) /\ t.cluster = h.cluster /\ t.page = h.page
        /\ t.bus.suspended /\ ~t.bus.stopping
    BY <1>0, <2>3, <2>4, PlainSuspendKeeps
  <2> HIDE DEF t
  <2>6. Pauses(t) BY <2>2, <2>3, <2>5 DEF Pauses
  <2> QED BY <2>1, <2>3, <2>5, <2>6
<1> QED BY <1>1, <1>2, <1>3

\* What the last steps of a first start watch is an opening.
LEMMA JoinedKeeps ==
  ASSUME NEW s, Core(s), NEW c, c # None
  PROVE  LET t == Joined(s, c)
         IN /\ Core(t) /\ Idle(t) = Idle(s) /\ t.page = s.page /\ t.bus = s.bus
            /\ t.cluster = s.cluster
            /\ (Gates(s) => Gates(t)) /\ (Pauses(s) => Pauses(t))
<1>1. CASE s.bus.current # c \/ s.bus.stopping
  <2>1. Joined(s, c) = s BY <1>1 DEF Joined
  <2> QED BY <2>1
<1>2. CASE ~(s.bus.current # c \/ s.bus.stopping)
  <2> DEFINE t == Attach(s, "watch")
  <2>1. Joined(s, c) = t BY <1>2 DEF Joined
  <2>2. ~Hushed(s) BY <1>2 DEF Core, Base, CurrentIsOpen, Hushed
  <2>3. s.bus.startPromise # None => s.chain[s.bus.startPromise].kind = "open"
    BY <2>2, ActiveIsOpen DEF Core
  <2>4. /\ Base(t) /\ (Runs(s) => Runs(t)) /\ (LostIsTold(s) => LostIsTold(t))
        /\ (Kept(s) => Kept(t)) /\ Idle(t) = Idle(s)
        /\ t.bus = s.bus /\ t.cluster = s.cluster /\ t.page = s.page
    BY <2>3, AttachKeeps DEF Core, Handlers
  <2> HIDE DEF t
  <2> QED BY <2>1, <2>4 DEF Core, Gates, Pauses
<1> QED BY <1>1, <1>2

\* A start resets the failures, and keeps or opens the gate.
ResetTo(s, keep) == [ResetFailure(s, keep) EXCEPT !.bus.config = TRUE]

\* The state that a start begins its opening from: its gate may have no keeper
\* and its failure is forgotten, until the opening has begun.
LEMMA ResetKeeps ==
  ASSUME NEW s, Base(s), NEW keep \in BOOLEAN
  PROVE  LET t == ResetTo(s, keep)
         IN /\ Base(t) /\ t.chain = s.chain /\ Idle(t) = Idle(s) /\ Fresh(t) = Fresh(s)
            /\ (Openable(s) <=> Openable(t)) /\ (Opening(s) <=> Opening(t))
            /\ t.bus.config /\ t.bus.stopping = s.bus.stopping /\ t.bus.started = s.bus.started
            /\ t.bus.suspended = s.bus.suspended /\ t.bus.pendingStop = s.bus.pendingStop
            /\ t.bus.startPromise = s.bus.startPromise
            /\ t.cluster = s.cluster /\ t.page = s.page /\ t.link = s.link
<1> DEFINE h == ResetFailure(s, keep)
<1> DEFINE t == ResetTo(s, keep)
<1>1. /\ h \in States /\ Soft(s, h) /\ Counted(h) /\ h.bus.cooled = TRUE
      /\ h.bus.gate = (s.bus.gate /\ keep) /\ h.cluster = s.cluster /\ h.link = s.link
  BY ResetFailureSoft DEF Base
<1>2. t = [h EXCEPT !.bus.config = TRUE] BY DEF ResetTo
<1> HIDE DEF h
<1>3. /\ t \in States /\ t.chain = h.chain /\ t.ops = h.ops /\ t.link = h.link
      /\ t.cluster = h.cluster /\ t.page = h.page /\ t.bus = [h.bus EXCEPT !.config = TRUE]
  <2> DEFINE b == [h.bus EXCEPT !.config = TRUE]
  <2>1. b \in Buses BY <1>1 DEF States, Buses
  <2>2. t = [h EXCEPT !.bus = b] BY <1>1, <1>2 DEF States, Buses
  <2> HIDE DEF t, b
  <2>3. /\ t \in States /\ t.chain = h.chain /\ t.ops = h.ops /\ t.link = h.link
        /\ t.cluster = h.cluster /\ t.page = h.page /\ t.bus = b
    BY <1>1, <2>1, <2>2 DEF States
  <2> QED BY <2>3 DEF b
<1> HIDE DEF t
<1>4. Soft(h, t) /\ Counted(t) /\ t.bus.cooled = TRUE /\ t.bus.gate = h.bus.gate /\ t.bus.config
  <2>1. \A o \in h.ops : Alive(s, o.on) BY <1>1 DEF Soft
  <2> QED BY <1>1, <1>3, <2>1 DEF Soft, Counted, States, Buses, Alive
<1>5. Soft(s, t) BY <1>1, <1>4 DEF Soft, Alive
<1>6. GateIsOurs(t) BY <1>1, <1>4, <1>5 DEF Base, GateIsOurs, Soft, Hushed
<1>7. Base(t) BY <1>3, <1>4, <1>5, <1>6, SoftBase
<1>8. t.chain = s.chain BY <1>5 DEF Soft
<1>9. Idle(t) = Idle(s) BY <1>8 DEF Idle
<1>10. Fresh(t) = Fresh(s) BY <1>9 DEF Fresh
<1>11. (Openable(s) <=> Openable(t)) /\ (Opening(s) <=> Opening(t))
  BY <1>5 DEF Soft, Openable, Opening, Able
<1>12. t.cluster = s.cluster /\ t.page = s.page /\ t.link = s.link
  BY <1>1, <1>3, <1>5 DEF Soft
<1> QED BY <1>4, <1>5, <1>7, <1>8, <1>9, <1>10, <1>11, <1>12 DEF Soft, t

\* A bus that is started, active and without an opening may begin one, unless
\* it uses its connection.
LEMMA LostIsOpenable ==
  ASSUME NEW s, Core(s), s.bus.started, ~Hushed(s), ~Opening(s),
         s.bus.ready => s.bus.status \in {"error", "disconnected"}
  PROVE  Openable(s)
<1> SUFFICES ASSUME s.bus.pendingStop = None PROVE Able(s.link) BY DEF Openable
<1>1. s.bus.startPromise = None BY DEF Opening
<1>2. s.bus.ready BY <1>1 DEF Core, LostIsTold
<1> QED BY <1>2 DEF Core, Runs, UsesWell, Using, Hushed

----------------------------------------------------------------------------
\* A status may be told here: the bus holds its stop, unless it is being
\* suspended, in a page that is not visible and with its runtime paused.
Tells(s) == Core(s) /\ Pauses(s) /\ (Gates(s) \/ (s.page # "visible" /\ ~s.cluster.running))

\* start() of a started bus resumes it, or begins an opening.
LEMMA PlainRestartKeeps ==
  ASSUME NEW s, Tells(s), s.bus.started, ~s.bus.stopping, ~Opening(s),
         NEW r, NEW n \in Nat, Room(s, n + 2)
  PROVE  LET t == Plain!Restart(s, r)
         IN Core(t) /\ Gates(t) /\ Pauses(t) /\ Room(t, n) /\ t.page = s.page
<1> DEFINE h == ResetTo(s, TRUE)
<1> DEFINE u == Plain!Reopen(h, FALSE, r)
<1> DEFINE idle == s.bus.ready /\ s.bus.status \notin {"error", "disconnected"}
<1>0. /\ Base(s) /\ Room(s, n) /\ Room(s, (n + 1) + 1) /\ n + 1 \in Nat
  <2>1. n + 2 \in Nat /\ n <= n + 2 /\ (n + 1) + 1 = n + 2 /\ n + 1 \in Nat OBVIOUS
  <2> QED BY <2>1, RoomLess DEF Tells, Core
<1>1. Plain!Restart(s, r) = IF idle THEN s
                            ELSE IF s.bus.suspended THEN Plain!Resumed(u, r) ELSE u
  BY PlainSame DEF Plain!Restart, ResetTo
<1>2. CASE idle
  <2>1. ~s.bus.suspended BY <1>0, <1>2 DEF Base, Phased
  <2> QED BY <1>0, <1>1, <1>2, <2>1 DEF Tells, Gates
<1>3. CASE ~idle
  <2>1. /\ Base(h) /\ Idle(h) = Idle(s)
        /\ (Openable(s) <=> Openable(h)) /\ (Opening(s) <=> Opening(h))
        /\ h.bus.config /\ ~h.bus.stopping
        /\ h.cluster = s.cluster /\ h.page = s.page
    BY <1>0, ResetKeeps
  <2> HIDE DEF h
  <2>2. Room(h, (n + 1) + 1) BY <1>0, <2>1 DEF Room
  <2>3. ~Settled(h) BY <2>1 DEF Settled
  <2>4. Begun(h, u) /\ Room(u, n + 1) /\ ~Hushed(u)
    BY <1>0, <2>1, <2>2, <2>3, PlainReopenKeeps
  <2> HIDE DEF u
  <2>5. /\ Base(u) /\ (Openable(s) => Core(u)) /\ u.bus.started /\ ~u.bus.suspended
        /\ ~u.bus.stopping /\ u.cluster = s.cluster /\ u.page = s.page
    BY <2>1, <2>4 DEF Begun, Hushed
  <2>6. CASE ~s.bus.suspended
    <3>1. Openable(s) BY <1>3, <2>6, LostIsOpenable DEF Tells, Hushed
    <3>2. Room(u, n)
      <4>1. n <= n + 1 OBVIOUS
      <4> QED BY <4>1, <1>0, <2>4, RoomLess
    <3> QED BY <1>1, <1>3, <2>5, <2>6, <3>1, <3>2 DEF Tells, Gates, Pauses
  <2>7. CASE s.bus.suspended
    <3> DEFINE t == Plain!ClusterStart(u, r)
    <3>1. Plain!Restart(s, r) = t BY <1>1, <1>3, <2>5, <2>7 DEF Plain!Resumed
    <3>2. Gates(s) => Openable(s) BY <2>7 DEF Gates, Openable
    <3>3. Core(u) \/ (~u.cluster.running /\ u.page # "visible") BY <2>5, <3>2 DEF Tells
    <3>4. u.cluster.running => Pauses(u) BY <2>5 DEF Tells, Pauses
    <3>5. Core(t) /\ Gates(t) /\ Pauses(t) /\ Room(t, n) /\ t.page = u.page
      BY <2>4, <2>5, <3>3, <3>4, PlainClusterStartKeeps
    <3> HIDE DEF t
    <3> QED BY <2>5, <3>1, <3>5
  <2> QED BY <2>6, <2>7
<1> QED BY <1>2, <1>3

\* start() of a bus that is not started.
LEMMA PlainFirstStartKeeps ==
  ASSUME NEW s, Tells(s), ~s.bus.started, ~s.bus.stopping, NEW r, NEW n \in Nat, Room(s, n + 2)
  PROVE  LET t == Plain!FirstStart(s, r)
         IN Core(t) /\ Gates(t) /\ Pauses(t) /\ Room(t, n) /\ t.page = s.page
<1> DEFINE h == ResetTo(s, FALSE)
<1> DEFINE u == Connecting(h, TRUE, FALSE)
<1> DEFINE c == Fresh(s)
<1> DEFINE v == Plain!ClusterStart(u, r)
<1>0. Base(s) /\ Room(s, (n + 1) + 1) /\ n + 1 \in Nat
  <2>1. (n + 1) + 1 = n + 2 /\ n + 1 \in Nat OBVIOUS
  <2> QED BY <2>1 DEF Tells, Core
<1>1. /\ s.bus.startPromise = None /\ ~s.cluster.running
      /\ Openable(s) /\ ~Opening(s)
  BY <1>0 DEF Base, Phased, RuntimeOff, Openable, Dark, Able, Opening
<1>2. /\ Base(h) /\ Idle(h) = Idle(s) /\ Fresh(h) = c
      /\ Openable(h) /\ ~Opening(h) /\ h.bus.config /\ ~h.bus.stopping
      /\ h.bus.pendingStop = s.bus.pendingStop
      /\ h.cluster = s.cluster /\ h.page = s.page
  BY <1>0, <1>1, ResetKeeps
<1>3. Plain!UpdateStatus(NewOpening(h, s.bus.pendingStop, TRUE, FALSE), "connecting", r) = u
  BY <1>2, PlainSame DEF Plain!UpdateStatus, Ignored, Connecting
<1>4. Plain!FirstStart(s, r) = Joined(Plain!Join(u, c, r), c)
  BY <1>3, PlainSame DEF Plain!FirstStart, ResetTo, Plain!Joined, Joined
<1> HIDE DEF h
<1>5. Room(h, (n + 1) + 1) BY <1>0, <1>2 DEF Room
<1>6. /\ Core(u) /\ Room(u, n + 1) /\ u.bus.current = c /\ c \in Chains
      /\ u.bus.started /\ ~Hushed(u) /\ u.cluster = h.cluster /\ u.page = h.page
  BY <1>0, <1>2, <1>5, OpeningBegins
<1> HIDE DEF u, c
<1>7. Plain!Join(u, c, r) = v BY <1>6 DEF Plain!Join, Hushed
<1>8. Core(v) /\ Gates(v) /\ Pauses(v) /\ Room(v, n) /\ v.page = u.page
  BY <1>1, <1>2, <1>6, PlainClusterStartKeeps DEF Core
<1> HIDE DEF v
<1> DEFINE t == Joined(v, c)
<1>9. c # None BY <1>6 DEF Chains, None
<1>10. /\ Core(t) /\ Idle(t) = Idle(v) /\ t.page = v.page
       /\ (Gates(v) => Gates(t)) /\ (Pauses(v) => Pauses(t))
  BY <1>8, <1>9, JoinedKeeps
<1> HIDE DEF t
<1>11. Room(t, n) BY <1>8, <1>10 DEF Room
<1>12. Plain!FirstStart(s, r) = t BY <1>4, <1>7 DEF t
<1> QED BY <1>2, <1>6, <1>8, <1>10, <1>11, <1>12

\* start().
LEMMA PlainStartKeeps ==
  ASSUME NEW s, Tells(s), NEW r, NEW n \in Nat, Room(s, n + 2)
  PROVE  LET t == Plain!Start(s, r)
         IN Core(t) /\ (Gates(s) => Gates(t)) /\ Pauses(t) /\ Room(t, n) /\ t.page = s.page
<1>0. Base(s) /\ Room(s, n)
  <2>1. n + 2 \in Nat /\ n <= n + 2 OBVIOUS
  <2> QED BY <2>1, RoomLess DEF Tells, Core
<1>1. CASE s.bus.queued \/ s.bus.stopping
  <2> DEFINE t == [s EXCEPT !.bus.queued = TRUE]
  <2>1. Plain!Start(s, r) = t BY <1>1 DEF Plain!Start
  <2>2. t \in States /\ Calm(s, t) BY <1>0, QueuedCalm
  <2>3. Idle(t) = Idle(s) BY <1>0 DEF Base, States, Idle
  <2> HIDE DEF t
  <2>4. Core(t) /\ (Gates(s) => Gates(t)) /\ Pauses(t)
    BY <1>0, <2>2, CalmKeeps, CalmCore DEF Tells
  <2>5. t.page = s.page BY <2>2 DEF Calm, Soft
  <2> QED BY <1>0, <2>1, <2>3, <2>4, <2>5 DEF Room
<1>2. CASE ~(s.bus.queued \/ s.bus.stopping) /\ Opening(s)
  <2>1. Plain!Start(s, r) = s BY <1>2, PlainSame DEF Plain!Start
  <2> QED BY <1>0, <2>1 DEF Tells
<1>3. CASE ~(s.bus.queued \/ s.bus.stopping) /\ ~Opening(s) /\ s.bus.started
  <2>1. Plain!Start(s, r) = Plain!Restart(s, r) BY <1>3, PlainSame DEF Plain!Start
  <2> QED BY <1>3, <2>1, PlainRestartKeeps
<1>4. CASE ~(s.bus.queued \/ s.bus.stopping) /\ ~Opening(s) /\ ~s.bus.started
  <2>1. Plain!Start(s, r) = Plain!FirstStart(s, r) BY <1>4, PlainSame DEF Plain!Start
  <2> QED BY <1>4, <2>1, PlainFirstStartKeeps
<1> QED BY <1>1, <1>2, <1>3, <1>4

\* Whatever the application does when it is told a status.
LEMMA HandlerKeeps ==
  ASSUME NEW s, Tells(s), NEW r, NEW n \in Nat, Room(s, n + 2)
  PROVE  LET t == Handler(r, s)
         IN Core(t) /\ (Gates(s) => Gates(t)) /\ Pauses(t) /\ Room(t, n) /\ t.page = s.page
<1>0. Room(s, n)
  <2>1. n + 2 \in Nat /\ n <= n + 2 OBVIOUS
  <2> QED BY <2>1, RoomLess
<1>1. CASE r = "stop"
  <2>1. Handler(r, s) = Stop(s) BY <1>1, PlainSame DEF Handler
  <2>2. /\ Base(Stop(s)) /\ Idle(Stop(s)) = Idle(s)
        /\ (Runs(s) => Runs(Stop(s))) /\ (LostIsTold(s) => LostIsTold(Stop(s)))
        /\ (Kept(s) => Kept(Stop(s))) /\ (Pauses(s) => Pauses(Stop(s)))
        /\ (Gates(s) => Gates(Stop(s))) /\ Stop(s).page = s.page
    BY StopKeeps DEF Tells, Core
  <2> QED BY <1>0, <2>1, <2>2 DEF Tells, Core, Room
<1>2. CASE r = "start"
  <2>1. Handler(r, s) = Plain!Start(s, "ignore") BY <1>2 DEF Handler
  <2> QED BY <2>1, PlainStartKeeps
<1>3. CASE r \notin {"start", "stop"}
  <2>1. Handler(r, s) = s BY <1>3 DEF Handler
  <2> QED BY <1>0, <2>1 DEF Tells
<1> QED BY <1>1, <1>2, <1>3

\* While an opening is in flight, it can only be joined or voided.
LEMMA HandlerOfOpening ==
  ASSUME NEW s, Base(s), Opening(s), NEW r
  PROVE  LET t == Handler(r, s)
         IN /\ Base(t) /\ (Core(s) => Core(t)) /\ Idle(t) = Idle(s)
            /\ (LostIsTold(s) => LostIsTold(t)) /\ (Kept(s) => Kept(t))
            /\ t.chain = s.chain /\ t.page = s.page /\ t.link = s.link
            /\ t.bus.startPromise = s.bus.startPromise
            /\ \/ t.bus.stopping /\ Core(t) /\ Bound(t)
               \/ /\ t.bus.started = s.bus.started /\ t.bus.suspended = s.bus.suspended
                  /\ t.bus.stopping = s.bus.stopping /\ t.bus.current = s.bus.current
                  /\ t.cluster = s.cluster
                  /\ (Gates(s) => Gates(t)) /\ (Pauses(s) => Pauses(t))
<1>1. CASE r = "stop"
  <2>1. Handler(r, s) = Stop(s) BY <1>1, PlainSame DEF Handler
  <2>2. s.bus.startPromise # None BY DEF Opening
  <2>3. /\ Base(Stop(s)) /\ Idle(Stop(s)) = Idle(s) /\ Stop(s).bus.stopping
        /\ Core(Stop(s)) /\ Bound(Stop(s))
        /\ Stop(s).chain = s.chain /\ Stop(s).bus.startPromise = s.bus.startPromise
        /\ Stop(s).page = s.page /\ Stop(s).link = s.link
    BY <2>2, StopKeeps
  <2> QED BY <2>1, <2>3 DEF Core
<1>2. CASE r = "start" /\ (s.bus.queued \/ s.bus.stopping)
  <2> DEFINE t == [s EXCEPT !.bus.queued = TRUE]
  <2>1. Handler(r, s) = t BY <1>2 DEF Handler, Plain!Start
  <2>2. t \in States /\ Calm(s, t) BY QueuedCalm
  <2>3. Idle(t) = Idle(s) /\ t.cluster = s.cluster /\ t.link = s.link BY DEF Base, States, Idle
  <2> HIDE DEF t
  <2>4. /\ Base(t) /\ (Runs(s) => Runs(t)) /\ (LostIsTold(s) => LostIsTold(t))
        /\ (Kept(s) => Kept(t)) /\ (Gates(s) => Gates(t)) /\ (Pauses(s) => Pauses(t))
    BY <2>2, CalmKeeps
  <2> QED BY <2>1, <2>2, <2>3, <2>4 DEF Calm, Soft, Core
<1>3. CASE r # "stop" /\ ~(r = "start" /\ (s.bus.queued \/ s.bus.stopping))
  <2>1. Handler(r, s) = s BY <1>3, PlainSame DEF Handler, Plain!Start
  <2> QED BY <2>1
<1> QED BY <1>1, <1>2, <1>3

----------------------------------------------------------------------------
(* Operations of the transport, and the openings they lead to.             *)

\* A bus that is stopping waits for nothing else.
LEMMA StoppingIsBound ==
  ASSUME NEW s, Base(s), s.bus.stopping
  PROVE  Core(s) /\ Bound(s)
<1>1. Core(s) BY HushedCore DEF Hushed
<1>2. ~s.cluster.running /\ ~s.cluster.listening /\ ~s.cluster.paused BY DEF Base, RuntimeOff
<1> QED BY <1>1, <1>2 DEF Bound, Gates, Pauses

\* A function that neither starts nor suspends the bus: what was bound is bound
\* after it, or the application stopped the bus.
Remains(s, t) ==
  /\ Core(t) /\ t.page = s.page
  /\ \/ t.bus.stopping
     \/ /\ t.cluster = s.cluster
        /\ t.bus.stopping = s.bus.stopping /\ t.bus.suspended = s.bus.suspended
        /\ Gates(s) => Gates(t)

\* Bound goes with it.
LEMMA RemainsBound ==
  ASSUME NEW s, NEW t, Remains(s, t)
  PROVE  Bound(s) => Bound(t)
<1>1. CASE t.bus.stopping BY <1>1, StoppingIsBound DEF Remains, Core
<1>2. CASE ~t.bus.stopping BY <1>2 DEF Remains, Bound, Gates, Pauses
<1> QED BY <1>1, <1>2

\* Calm changes are of this kind, if they leave the runtime alone.
LEMMA CalmRemains ==
  ASSUME NEW s, NEW t, Remains(s, t), NEW u \in States, Calm(t, u), u.cluster = t.cluster
  PROVE  Remains(s, u) /\ Idle(u) = Idle(t)
<1>1. Core(u) /\ (Gates(t) => Gates(u)) BY CalmCore, CalmKeeps DEF Remains, Core
<1>2. u.chain = t.chain /\ u.page = t.page /\ u.bus.stopping = t.bus.stopping
      /\ u.bus.suspended = t.bus.suspended
  BY DEF Calm, Soft
<1> QED BY <1>1, <1>2 DEF Remains, Idle

\* reopenTransport.
LEMMA ReopenKeeps ==
  ASSUME NEW s, Base(s), ~Settled(s), NEW byTimer \in BOOLEAN, NEW r, NEW n \in Nat, Room(s, n + 1)
  PROVE  Begun(s, Reopen(s, byTimer, r)) /\ Room(Reopen(s, byTimer, r), n)
<1> DEFINE tr == byTimer \/ s.bus.attempt > 0
<1> DEFINE u == Connecting(s, FALSE, tr)
<1> DEFINE w == Handler(r, u)
<1>1. tr \in BOOLEAN OBVIOUS
<1>2. Latest(s) = s.bus.pendingStop BY DEF Settled, Latest, Opening
<1>3. Reopen(s, byTimer, r) = Reopened(w, Fresh(s))
  BY <1>2 DEF Reopen, Settled, Connecting
<1> HIDE DEF tr
<1>4. /\ Base(u) /\ LostIsTold(u) /\ Kept(u) /\ Room(u, n)
      /\ Openable(s) => Core(u)
      /\ u.bus.startPromise = Fresh(s) /\ u.bus.current = Fresh(s)
      /\ u.chain[Fresh(s)].kind = "open" /\ Opening(u) /\ Fresh(s) \in Chains
      /\ u.bus.started /\ ~Hushed(u)
      /\ u.cluster = s.cluster /\ u.link = s.link /\ u.page = s.page
  BY <1>1, OpeningBegins DEF Settled
<1> HIDE DEF u
<1>5. /\ Base(w) /\ (Core(u) => Core(w)) /\ Idle(w) = Idle(u)
      /\ LostIsTold(w) /\ Kept(w)
      /\ w.chain = u.chain /\ w.page = u.page /\ w.link = u.link
      /\ w.bus.startPromise = u.bus.startPromise
      /\ \/ w.bus.stopping /\ Core(w) /\ Bound(w)
         \/ /\ w.bus.started = u.bus.started /\ w.bus.suspended = u.bus.suspended
            /\ w.cluster = u.cluster
  BY <1>4, HandlerOfOpening
<1> HIDE DEF w
<1>6. w.bus.startPromise # None BY <1>4, <1>5 DEF Opening
<1>7. Begun(s, w) BY <1>4, <1>5, <1>6 DEF Begun, Hushed
<1>8. Room(w, n) BY <1>4, <1>5 DEF Room
<1> QED BY <1>3, <1>7, <1>8, ReopenedKeeps

\* s with another answer to whether the next operation may retry.
Demanding(s, v) == [s EXCEPT !.bus.demand = v]

\* It concerns only the keeper of the gate.
LEMMA DemandingKeeps ==
  ASSUME NEW s, Base(s), NEW v \in BOOLEAN
  PROVE  LET t == Demanding(s, v)
         IN /\ Base(t) /\ (Runs(s) => Runs(t)) /\ (LostIsTold(s) => LostIsTold(t))
            /\ v => Kept(t)
            /\ Idle(t) = Idle(s) /\ t.chain = s.chain /\ t.cluster = s.cluster /\ t.page = s.page
            /\ t.link = s.link /\ t.ops = s.ops /\ t.bus.demand = v
            /\ t.bus.gate = s.bus.gate /\ t.bus.status = s.bus.status
            /\ t.bus.started = s.bus.started /\ t.bus.stopping = s.bus.stopping
            /\ t.bus.suspended = s.bus.suspended /\ t.bus.config = s.bus.config
            /\ t.bus.startPromise = s.bus.startPromise /\ t.bus.pendingStop = s.bus.pendingStop
<1> DEFINE t == Demanding(s, v)
<1> DEFINE b == [s.bus EXCEPT !.demand = v]
<1>1. s \in States /\ b \in Buses BY DEF Base, States, Buses
<1>2. t = [s EXCEPT !.bus = b] BY <1>1 DEF Demanding, States
<1>3. /\ t \in States /\ t.bus = b /\ t.chain = s.chain /\ t.cluster = s.cluster /\ t.page = s.page
      /\ t.link = s.link /\ t.ops = s.ops
  BY <1>1, <1>2 DEF States
<1> HIDE DEF t
<1>4. /\ t.bus.demand = v /\ t.bus.gate = s.bus.gate /\ t.bus.status = s.bus.status
      /\ t.bus.timer = s.bus.timer /\ t.bus.cooled = s.bus.cooled
      /\ t.bus.started = s.bus.started /\ t.bus.stopping = s.bus.stopping
      /\ t.bus.suspended = s.bus.suspended /\ t.bus.config = s.bus.config
      /\ t.bus.ready = s.bus.ready /\ t.bus.lastError = s.bus.lastError
      /\ t.bus.attempt = s.bus.attempt /\ t.bus.limit = s.bus.limit
      /\ t.bus.startPromise = s.bus.startPromise /\ t.bus.pendingStop = s.bus.pendingStop
      /\ t.bus.current = s.bus.current /\ t.bus.heard = s.bus.heard /\ t.bus.down = s.bus.down
  BY <1>1, <1>3 DEF States, Buses
<1>5. Soft(s, t) /\ Counted(t) BY <1>3, <1>4 DEF Soft, Base, Named, Counted
<1>6. GateIsOurs(t) BY <1>4 DEF Base, GateIsOurs, Hushed
<1>7. Base(t) BY <1>3, <1>5, <1>6, SoftBase
<1>8. (Runs(s) => Runs(t)) /\ (LostIsTold(s) => LostIsTold(t))
  BY <1>3, <1>4 DEF Runs, WaitsWell, UsesWell, Using, At, LostIsTold, Hushed
<1>9. v => Kept(t) BY <1>4 DEF Kept
<1>10. Idle(t) = Idle(s) BY <1>3 DEF Idle
<1> QED BY <1>3, <1>4, <1>7, <1>8, <1>9, <1>10 DEF t

\* startDemandRecovery takes the opening in flight, or begins one.
LEMMA DemandRecoveryKeeps ==
  ASSUME NEW s, Core(s), s.bus.gate, NEW r, NEW n \in Nat, Room(s, n + 1)
  PROVE  Remains(s, DemandRecovery(s, r)) /\ Room(DemandRecovery(s, r), n)
<1>0. Base(s) /\ Room(s, n)
  <2>1. n + 1 \in Nat /\ n <= n + 1 OBVIOUS
  <2> QED BY <2>1, RoomLess DEF Core
<1>1. CASE ~s.bus.demand \/ s.bus.status # "error" \/ s.bus.suspended \/ s.bus.stopping
  <2>1. DemandRecovery(s, r) = s BY <1>1 DEF DemandRecovery
  <2> QED BY <1>0, <2>1 DEF Remains
<1>2. CASE ~(~s.bus.demand \/ s.bus.status # "error" \/ s.bus.suspended \/ s.bus.stopping)
  <2> DEFINE h == Demanding(s, FALSE)
  <2> DEFINE u == Reopen(h, FALSE, r)
  <2> DEFINE t == Attach(u, "demand")
  <2>1. DemandRecovery(s, r) = t BY <1>2 DEF DemandRecovery, Demanding
  <2>2. /\ Base(h) /\ Runs(h) /\ LostIsTold(h) /\ Idle(h) = Idle(s)
        /\ h.cluster = s.cluster /\ h.page = s.page /\ h.link = s.link
        /\ h.bus.started = s.bus.started /\ h.bus.stopping = s.bus.stopping
        /\ h.bus.suspended = s.bus.suspended /\ h.bus.config = s.bus.config
        /\ h.bus.startPromise = s.bus.startPromise /\ h.bus.pendingStop = s.bus.pendingStop
    BY <1>0, DemandingKeeps DEF Core
  <2> HIDE DEF h
  <2>3. s.bus.config /\ s.bus.started BY <1>0 DEF Base, GateIsOurs, Phased
  <2>4. /\ Base(u) /\ Runs(u) /\ LostIsTold(u) /\ Room(u, n) /\ u.page = s.page
        /\ u.bus.startPromise # None /\ u.chain[u.bus.startPromise].kind = "open"
        /\ u.bus.stopping \/ (~u.bus.suspended /\ u.cluster = s.cluster)
    <3>1. CASE Opening(s)
      <4>1. Opening(h) BY <2>2, <3>1 DEF Opening
      <4>2. u = h BY <4>1 DEF Reopen
      <4>3. h.bus.startPromise # None /\ ~Hushed(h) BY <1>2, <2>2, <4>1 DEF Opening, Hushed
      <4>4. h.chain[h.bus.startPromise].kind = "open" BY <2>2, <4>3, ActiveIsOpen
      <4> QED BY <1>0, <1>2, <2>2, <4>2, <4>3, <4>4 DEF Room
    <3>2. CASE ~Opening(s)
      <4>1. ~Settled(h) BY <1>2, <2>2, <2>3, <3>2 DEF Settled, Opening
      <4>2. Openable(h)
        <5>1. Openable(s) BY <1>2, <2>3, <3>2, LostIsOpenable DEF Hushed
        <5> QED BY <5>1, <2>2 DEF Openable
      <4>3. Room(h, n + 1) BY <2>2 DEF Room
      <4>4. Begun(h, u) /\ Room(u, n) BY <2>2, <4>1, <4>3, ReopenKeeps
      <4> QED BY <2>2, <4>2, <4>4 DEF Begun, Core
    <3> QED BY <3>1, <3>2
  <2> HIDE DEF u
  <2>5. /\ Base(t) /\ Runs(t) /\ LostIsTold(t) /\ Kept(t) /\ Idle(t) = Idle(u)
        /\ t.bus = u.bus /\ t.cluster = u.cluster /\ t.page = u.page
    BY <2>4, AttachKeeps DEF Handlers
  <2> HIDE DEF t
  <2>6. Core(t) /\ Room(t, n) BY <2>4, <2>5 DEF Core, Room
  <2>7. t.bus.stopping \in BOOLEAN /\ t.bus.suspended \in BOOLEAN
        /\ s.bus.stopping = FALSE /\ s.bus.suspended = FALSE
    BY <1>0, <1>2, <2>5 DEF Base, States, Buses
  <2>8. Remains(s, t)
    <3>1. CASE t.bus.stopping BY <3>1, <2>4, <2>5, <2>6 DEF Remains
    <3>2. CASE ~t.bus.stopping
      <4>1. t.bus.suspended = FALSE /\ t.bus.stopping = FALSE BY <3>2, <2>4, <2>5, <2>7
      <4> QED BY <4>1, <3>2, <2>4, <2>5, <2>6, <2>7 DEF Remains, Gates
    <3> QED BY <3>1, <3>2
  <2> QED BY <2>1, <2>6, <2>8
<1> QED BY <1>1, <1>2

\* ensureOpening of runTransport: an opening in flight is shared, and a bus that
\* has none begins one, unless its connection is up.
LEMMA EnsureOpeningKeeps ==
  ASSUME NEW s, Core(s), ~s.bus.suspended,
         s.bus.ready => s.bus.stopping \/ s.bus.status \in {"error", "disconnected"},
         NEW r, NEW n \in Nat, Room(s, n + 1)
  PROVE  Remains(s, EnsureOpening(s, r)) /\ Room(EnsureOpening(s, r), n)
<1>0. Base(s) /\ Room(s, n)
  <2>1. n + 1 \in Nat /\ n <= n + 1 OBVIOUS
  <2> QED BY <2>1, RoomLess DEF Core
<1> DEFINE lost == s.bus.startPromise = None /\ s.bus.started /\ ~s.bus.stopping /\ s.bus.config
<1>1. CASE ~lost
  <2>1. EnsureOpening(s, r) = s BY <1>1 DEF EnsureOpening
  <2> QED BY <1>0, <2>1 DEF Remains
<1>2. CASE lost
  <2> DEFINE t == Reopen(s, FALSE, r)
  <2>1. EnsureOpening(s, r) = t BY <1>2 DEF EnsureOpening
  <2>2. ~Opening(s) /\ ~Settled(s) /\ ~Hushed(s) BY <1>2 DEF Settled, Opening, Hushed
  <2>3. Openable(s) BY <1>2, <2>2, LostIsOpenable
  <2>4. Begun(s, t) /\ Room(t, n) BY <1>0, <2>2, ReopenKeeps
  <2> HIDE DEF t
  <2>5. Core(t) /\ t.page = s.page /\ (t.bus.stopping \/ (~t.bus.suspended /\ t.cluster = s.cluster))
    BY <2>3, <2>4 DEF Begun
  <2>6. t.bus.stopping \in BOOLEAN /\ t.bus.suspended \in BOOLEAN
        /\ s.bus.stopping = FALSE /\ s.bus.suspended = FALSE
    BY <1>0, <1>2, <2>5 DEF Core, Base, States, Buses
  <2>7. Remains(s, t)
    <3>1. CASE t.bus.stopping BY <3>1, <2>5 DEF Remains
    <3>2. CASE ~t.bus.stopping
      <4>1. t.bus.suspended = FALSE /\ t.bus.stopping = FALSE BY <3>2, <2>5, <2>6
      <4> QED BY <4>1, <3>2, <2>5, <2>6 DEF Remains, Gates
    <3> QED BY <3>1, <3>2
  <2> QED BY <2>1, <2>4, <2>7
<1> QED BY <1>1, <1>2

Acts == {"subscribe", "unsubscribe", "publish"}

\* runTransport: the operation is executed, waits, or is dropped.
LEMMA RunTransportKeeps ==
  ASSUME NEW s, Core(s), NEW act \in Acts, NEW topics \in SUBSET Topics,
         NEW r, NEW n \in Nat, Room(s, n + 1)
  PROVE  Remains(s, RunTransport(s, act, topics, r)) /\ Room(RunTransport(s, act, topics, r), n)
<1> DEFINE t == RunTransport(s, act, topics, r)
<1>0. Base(s) /\ Room(s, n) /\ Remains(s, s)
  <2>1. n + 1 \in Nat /\ n <= n + 1 OBVIOUS
  <2> QED BY <2>1, RoomLess DEF Core, Remains
<1>1. CASE s.bus.suspended
  <2>1. t = s BY <1>1 DEF RunTransport
  <2> QED BY <1>0, <2>1
<1>2. CASE ~s.bus.suspended /\ s.bus.gate /\ ~s.bus.stopping
  <2> DEFINE u == DemandRecovery(s, r)
  <2>1. t = Park(u, act, topics) BY <1>2 DEF RunTransport
  <2>2. Remains(s, u) /\ Room(u, n) BY <1>2, DemandRecoveryKeeps
  <2> HIDE DEF u
  <2>3. CASE ~u.bus.gate
    <3>1. t = u BY <2>1, <2>3 DEF Park
    <3> QED BY <2>2, <3>1
  <2>4. CASE u.bus.gate
    <3> DEFINE v == Wait(u, act, topics, Gate)
    <3>1. t = v BY <2>1, <2>4 DEF Park
    <3>2. Alive(u, Gate) BY DEF Alive, Gate, Chains
    <3>3. Gate \in Chains \cup {Gate, Released} OBVIOUS
    <3>4. v \in States /\ Calm(u, v) /\ v.cluster = u.cluster
      BY <2>2, <3>2, <3>3, WaitCalm DEF Remains, Core, Acts
    <3> HIDE DEF v
    <3>5. Remains(s, v) /\ Idle(v) = Idle(u) BY <2>2, <3>4, CalmRemains
    <3> QED BY <2>2, <3>1, <3>5 DEF Room
  <2> QED BY <2>3, <2>4
<1> DEFINE up == s.bus.ready /\ s.bus.status # "error" /\ ~Dropped(s) /\ ~s.bus.stopping
<1>3. CASE ~s.bus.suspended /\ ~(s.bus.gate /\ ~s.bus.stopping) /\ up
  <2> DEFINE v == Execute(s, act, topics)
  <2>1. t = v BY <1>3 DEF RunTransport
  <2>2. v \in States /\ Calm(s, v) /\ v.cluster = s.cluster BY <1>0, ExecuteCalm DEF Acts
  <2> HIDE DEF v
  <2>3. Remains(s, v) /\ Idle(v) = Idle(s) BY <1>0, <2>2, CalmRemains
  <2> QED BY <1>0, <2>1, <2>3 DEF Room
<1>4. CASE ~s.bus.suspended /\ ~(s.bus.gate /\ ~s.bus.stopping) /\ ~up
  <2> DEFINE u == EnsureOpening(s, r)
  <2>1. t = AwaitOpening(u, act, topics) BY <1>4 DEF RunTransport
  <2>2. s.bus.ready => s.bus.stopping \/ s.bus.status \in {"error", "disconnected"}
    BY <1>4 DEF Dropped
  <2>3. Remains(s, u) /\ Room(u, n) BY <1>4, <2>2, EnsureOpeningKeeps
  <2> HIDE DEF u
  <2>4. CASE u.bus.startPromise = None \/ u.bus.stopping
    <3>1. t = u BY <2>1, <2>4 DEF AwaitOpening
    <3> QED BY <2>3, <3>1
  <2>5. CASE ~(u.bus.startPromise = None \/ u.bus.stopping)
    <3> DEFINE on == u.bus.startPromise
    <3> DEFINE v == Wait(u, act, topics, on)
    <3>1. t = v BY <2>1, <2>5 DEF AwaitOpening
    <3>2. Alive(u, on) /\ on \in Chains \cup {Gate, Released}
      BY <2>3, <2>5 DEF Remains, Core, Base, Named, States, Buses, Refs
    <3>4. v \in States /\ Calm(u, v) /\ v.cluster = u.cluster
      BY <2>3, <3>2, WaitCalm DEF Remains, Core, Acts
    <3> HIDE DEF v
    <3>5. Remains(s, v) /\ Idle(v) = Idle(u) BY <2>3, <3>4, CalmRemains
    <3> QED BY <2>3, <3>1, <3>5 DEF Room
  <2> QED BY <2>4, <2>5
<1> QED BY <1>1, <1>2, <1>3, <1>4

Serving(s, T) == [s EXCEPT !.bus.topics = T]

\* subscribeTransport and unsubscribeTransport.
LEMMA TransportKeeps ==
  ASSUME NEW s, Core(s), NEW topics \in SUBSET Topics, NEW r, NEW n \in Nat, Room(s, n + 1)
  PROVE  /\ Remains(s, SubscribeTransport(s, topics, r))
         /\ Room(SubscribeTransport(s, topics, r), n)
         /\ Remains(s, UnsubscribeTransport(s, topics, r))
         /\ Room(UnsubscribeTransport(s, topics, r), n)
<1> DEFINE new == topics \ s.bus.topics
<1> DEFINE old == topics \cap s.bus.topics
<1>0. Base(s) /\ Room(s, n) /\ Remains(s, s)
  <2>1. n + 1 \in Nat /\ n <= n + 1 OBVIOUS
  <2> QED BY <2>1, RoomLess DEF Core, Remains
<1>1. ASSUME NEW T \in SUBSET Topics, NEW act \in Acts, NEW X \in SUBSET Topics
      PROVE  /\ Remains(s, RunTransport(Serving(s, T), act, X, r))
             /\ Room(RunTransport(Serving(s, T), act, X, r), n)
  <2> DEFINE u == Serving(s, T)
  <2> DEFINE t == RunTransport(u, act, X, r)
  <2>1. u \in States /\ Calm(s, u) /\ u.cluster = s.cluster BY <1>0, TopicsCalm DEF Serving
  <2> HIDE DEF u
  <2>2. Remains(s, u) /\ Idle(u) = Idle(s) BY <1>0, <2>1, CalmRemains
  <2>3. Remains(u, t) /\ Room(t, n)
    <3>1. Core(u) /\ Room(u, n + 1) BY <2>2 DEF Remains, Room
    <3> QED BY <3>1, RunTransportKeeps
  <2>4. u.bus.stopping = s.bus.stopping /\ u.bus.suspended = s.bus.suspended
        /\ (Gates(s) => Gates(u)) /\ u.page = s.page
    BY <1>0, <2>1, CalmKeeps DEF Calm, Soft
  <2> HIDE DEF t
  <2>5. Remains(s, t) BY <2>1, <2>3, <2>4 DEF Remains
  <2> QED BY <2>3, <2>5 DEF t, u
<1>2. /\ Remains(s, SubscribeTransport(s, topics, r))
      /\ Room(SubscribeTransport(s, topics, r), n)
  <2>1. CASE new = {}
    <3>1. SubscribeTransport(s, topics, r) = s BY <2>1 DEF SubscribeTransport
    <3> QED BY <1>0, <3>1
  <2>2. CASE new # {}
    <3> DEFINE T == s.bus.topics \cup new
    <3>1. T \in SUBSET Topics /\ new \in SUBSET Topics BY <1>0 DEF Base, States, Buses
    <3>2. SubscribeTransport(s, topics, r) = RunTransport(Serving(s, T), "subscribe", new, r)
      BY <1>0, <2>2 DEF SubscribeTransport, Serving, Base, States, Buses
    <3> HIDE DEF T, new
    <3> QED BY <3>1, <3>2, <1>1 DEF Acts
  <2> QED BY <2>1, <2>2
<1>3. /\ Remains(s, UnsubscribeTransport(s, topics, r))
      /\ Room(UnsubscribeTransport(s, topics, r), n)
  <2>1. CASE old = {}
    <3>1. UnsubscribeTransport(s, topics, r) = s BY <2>1 DEF UnsubscribeTransport
    <3> QED BY <1>0, <3>1
  <2>2. CASE old # {}
    <3> DEFINE T == s.bus.topics \ old
    <3>1. T \in SUBSET Topics /\ old \in SUBSET Topics BY <1>0 DEF Base, States, Buses
    <3>2. UnsubscribeTransport(s, topics, r) = RunTransport(Serving(s, T), "unsubscribe", old, r)
      BY <1>0, <2>2 DEF UnsubscribeTransport, Serving, Base, States, Buses
    <3> HIDE DEF T, old
    <3> QED BY <3>1, <3>2, <1>1 DEF Acts
  <2> QED BY <2>1, <2>2
<1> QED BY <1>2, <1>3

\* releaseRecoveryGate, where an opening that kept the gate may be over.
LEMMA ReleaseKeeps ==
  ASSUME NEW s, Base(s), Runs(s), LostIsTold(s)
  PROVE  LET t == ReleaseGate(s)
         IN /\ Core(t) /\ Idle(t) = Idle(s) /\ t.cluster = s.cluster /\ t.page = s.page
            /\ t.link = s.link
            /\ (Gates(s) => Gates(t)) /\ (Pauses(s) => Pauses(t))
<1> DEFINE t == ReleaseGate(s)
<1>1. /\ t \in States /\ Calm(s, t) /\ t.bus.gate = FALSE /\ t.cluster = s.cluster
      /\ t.link = s.link
  BY ReleaseGateCalm DEF Base
<1> HIDE DEF t
<1>2. /\ Base(t) /\ Runs(t) /\ LostIsTold(t)
      /\ (Gates(s) => Gates(t)) /\ (Pauses(s) => Pauses(t))
  BY <1>1, CalmKeeps
<1>3. Kept(t) BY <1>1 DEF Kept
<1>4. t.page = s.page /\ Idle(t) = Idle(s) BY <1>1 DEF Calm, Soft, Idle
<1> QED BY <1>1, <1>2, <1>3, <1>4 DEF Core, t

\* allowDemandRecovery keeps the gate for the next operation, or opens it: the
\* opening that kept it has failed.
LEMMA AllowDemandKeeps ==
  ASSUME NEW s, Base(s), Runs(s), LostIsTold(s), Bound(s), NEW kick \in BOOLEAN,
         NEW r, NEW n \in Nat, Room(s, n + 1)
  PROVE  LET t == AllowDemand(s, kick, r)
         IN Core(t) /\ Bound(t) /\ Room(t, n) /\ t.page = s.page
<1>0. Room(s, n)
  <2>1. n + 1 \in Nat /\ n <= n + 1 OBVIOUS
  <2> QED BY <2>1, RoomLess
<1> DEFINE h == Demanding(s, TRUE)
<1> DEFINE ask == s.bus.gate /\ s.bus.started /\ ~s.bus.stopping /\ ~s.bus.suspended
                   /\ s.bus.status = "error"
<1> DEFINE kicked == kick /\ \E o \in s.ops : o.on \in {Gate, Released}
<1>1. AllowDemand(s, kick, r) = IF ask THEN IF kicked THEN DemandRecovery(h, r) ELSE h
                                ELSE ReleaseGate(s)
  BY DEF AllowDemand, Demanding
<1> HIDE DEF kicked
<1>2. CASE ~ask
  <2> DEFINE t == ReleaseGate(s)
  <2>1. AllowDemand(s, kick, r) = t BY <1>1, <1>2
  <2>2. /\ Core(t) /\ Idle(t) = Idle(s) /\ t.page = s.page
        /\ (Gates(s) => Gates(t)) /\ (Pauses(s) => Pauses(t))
    BY ReleaseKeeps
  <2> HIDE DEF t
  <2> QED BY <1>0, <2>1, <2>2 DEF Bound, Room
<1>3. CASE ask
  <2>1. /\ Base(h) /\ Runs(h) /\ LostIsTold(h) /\ Kept(h) /\ Idle(h) = Idle(s)
        /\ h.cluster = s.cluster /\ h.page = s.page
        /\ h.bus.gate = s.bus.gate /\ h.bus.stopping = s.bus.stopping
        /\ h.bus.suspended = s.bus.suspended
        /\ h.bus.startPromise = s.bus.startPromise /\ h.bus.pendingStop = s.bus.pendingStop
    BY DemandingKeeps
  <2> HIDE DEF h
  <2>2. Core(h) /\ Bound(h) /\ Room(h, n + 1) /\ Room(h, n)
    BY <1>0, <2>1 DEF Core, Bound, Gates, Pauses, Room
  <2>3. CASE ~kicked BY <1>1, <1>3, <2>1, <2>2, <2>3
  <2>4. CASE kicked
    <3> DEFINE t == DemandRecovery(h, r)
    <3>1. AllowDemand(s, kick, r) = t BY <1>1, <1>3, <2>4
    <3>2. Remains(h, t) /\ Room(t, n) BY <1>3, <2>1, <2>2, DemandRecoveryKeeps
    <3> HIDE DEF t
    <3>3. Bound(t) BY <2>2, <3>2, RemainsBound
    <3> QED BY <2>1, <3>1, <3>2, <3>3 DEF Remains
  <2> QED BY <2>3, <2>4
<1> QED BY <1>2, <1>3

----------------------------------------------------------------------------
(* Statuses that are told.                                                 *)

\* The application is told a status when nothing else is going on.
LEMMA ToldKeeps ==
  ASSUME NEW s, Core(s), Bound(s), NEW r, NEW n \in Nat, Room(s, n + 2)
  PROVE  LET t == Handler(r, s)
         IN Core(t) /\ Bound(t) /\ Room(t, n) /\ t.page = s.page
<1>1. Tells(s) BY DEF Tells, Bound
<1> QED BY <1>1, HandlerKeeps DEF Bound

\* s after a failure is counted: the next one counts after the cooldown only.
Tried(s, attempt, exhausted) ==
  [s EXCEPT !.bus.cooled = FALSE, !.bus.attempt = attempt, !.bus.exhausted = exhausted]
Gating(s, attempt) ==
  [s EXCEPT !.bus.cooled = FALSE, !.bus.attempt = attempt, !.bus.gate = TRUE,
            !.bus.demand = FALSE, !.bus.timer = TRUE]

\* The attempts are spent: the gate opens.  Here and below, the opening that kept
\* a closed gate may have failed.
LEMMA SpentKeeps ==
  ASSUME NEW s, Base(s), Runs(s), LostIsTold(s), Bound(s), NEW k \in Nat, k <= s.bus.limit + 1
  PROVE  LET t == ReleaseGate(Tried(s, k, TRUE))
         IN Core(t) /\ Bound(t) /\ Idle(t) = Idle(s) /\ t.page = s.page
<1> DEFINE b == [s.bus EXCEPT !.cooled = FALSE, !.attempt = k, !.exhausted = TRUE]
<1> DEFINE h == Tried(s, k, TRUE)
<1> DEFINE t == ReleaseGate(h)
<1>1. s \in States /\ b \in Buses BY DEF Core, Base, States, Buses
<1>2. h = [s EXCEPT !.bus = b] BY <1>1 DEF Tried, States, Buses
<1>3. /\ b.started = s.bus.started /\ b.stopping = s.bus.stopping /\ b.suspended = s.bus.suspended
      /\ b.ready = s.bus.ready /\ b.config = s.bus.config
      /\ b.current = s.bus.current /\ b.heard = s.bus.heard
      /\ b.startPromise = s.bus.startPromise /\ b.pendingStop = s.bus.pendingStop
      /\ b.down = s.bus.down /\ b.limit = s.bus.limit /\ b.attempt = k
      /\ b.status = s.bus.status /\ b.lastError = s.bus.lastError
  BY <1>1 DEF States, Buses
<1> HIDE DEF h, b
<1>4. /\ h \in States /\ h.bus = b /\ h.chain = s.chain /\ h.ops = s.ops /\ h.link = s.link
      /\ h.cluster = s.cluster /\ h.page = s.page
  BY <1>1, <1>2 DEF States
<1>5. Soft(s, h) /\ Counted(h) /\ Named(h)
  BY <1>3, <1>4 DEF Soft, Counted, Core, Base, Named, Alive
<1>6. t \in States /\ Calm(h, t) /\ t.bus.gate = FALSE /\ t.cluster = h.cluster /\ t.link = h.link
  BY <1>4, <1>5, ReleaseGateCalm
<1> HIDE DEF t
<1>7. Soft(s, t) /\ Counted(t) /\ t.bus.status = s.bus.status /\ t.bus.lastError = s.bus.lastError
  BY <1>3, <1>4, <1>5, <1>6 DEF Calm, Soft, Alive
<1>8. Base(t)
  <2>1. GateIsOurs(t) BY <1>6 DEF GateIsOurs
  <2> QED BY <2>1, <1>6, <1>7, SoftBase DEF Core
<1>9. Runs(t) /\ LostIsTold(t) /\ Kept(t)
  BY <1>6, <1>7 DEF Core, Soft, Runs, WaitsWell, UsesWell, Using, At, Able, LostIsTold, Hushed, Kept
<1>10. Bound(t) BY <1>7 DEF Soft, Bound, Gates, Pauses
<1>11. Idle(t) = Idle(s) /\ t.page = s.page BY <1>7 DEF Soft, Idle
<1> QED BY <1>8, <1>9, <1>10, <1>11 DEF Core, t, h

\* A recovery is scheduled: the gate closes, and its timer is armed.
LEMMA GatingKeeps ==
  ASSUME NEW s, Base(s), Runs(s), LostIsTold(s), Bound(s), NEW k \in Nat, k <= s.bus.limit + 1,
         s.bus.started, ~Hushed(s)
  PROVE  LET t == Gating(s, k)
         IN Core(t) /\ Bound(t) /\ Idle(t) = Idle(s) /\ t.page = s.page
<1> DEFINE b == [s.bus EXCEPT !.cooled = FALSE, !.attempt = k, !.gate = TRUE,
                              !.demand = FALSE, !.timer = TRUE]
<1> DEFINE t == Gating(s, k)
<1>1. s \in States /\ b \in Buses BY DEF Core, Base, States, Buses
<1>2. t = [s EXCEPT !.bus = b] BY <1>1 DEF Gating, States, Buses
<1>3. /\ b.started = s.bus.started /\ b.stopping = s.bus.stopping /\ b.suspended = s.bus.suspended
      /\ b.ready = s.bus.ready /\ b.config = s.bus.config
      /\ b.current = s.bus.current /\ b.heard = s.bus.heard
      /\ b.startPromise = s.bus.startPromise /\ b.pendingStop = s.bus.pendingStop
      /\ b.down = s.bus.down /\ b.limit = s.bus.limit /\ b.attempt = k
      /\ b.status = s.bus.status /\ b.lastError = s.bus.lastError /\ b.timer = TRUE
  BY <1>1 DEF States, Buses
<1> HIDE DEF t, b
<1>4. /\ t \in States /\ t.bus = b /\ t.chain = s.chain /\ t.ops = s.ops /\ t.link = s.link
      /\ t.cluster = s.cluster /\ t.page = s.page
  BY <1>1, <1>2 DEF States
<1>5. Soft(s, t) /\ Counted(t)
  BY <1>3, <1>4 DEF Soft, Counted, Core, Base, Named
<1>8. Base(t)
  <2>1. GateIsOurs(t) BY <1>3, <1>4 DEF GateIsOurs, Hushed
  <2> QED BY <2>1, <1>4, <1>5, SoftBase DEF Core
<1>9. Runs(t) /\ LostIsTold(t) /\ Kept(t)
  BY <1>3, <1>4 DEF Core, Runs, WaitsWell, UsesWell, Using, At, LostIsTold, Hushed, Kept
<1>10. Bound(t) BY <1>5 DEF Soft, Bound, Gates, Pauses
<1>11. Idle(t) = Idle(s) BY <1>4 DEF Idle
<1> QED BY <1>4, <1>8, <1>9, <1>10, <1>11 DEF Core, t

\* updateStatus("error"), past the status.
LEMMA FailedKeeps ==
  ASSUME NEW s, Base(s), Runs(s), LostIsTold(s), Bound(s),
         s.bus.started /\ ~s.bus.stopping => ~s.bus.suspended,
         NEW r, NEW n \in Nat, Room(s, n + 2)
  PROVE  LET t == Failed(s, r)
         IN Core(t) /\ Bound(t) /\ Room(t, n) /\ t.page = s.page
<1>0. Room(s, n)
  <2>1. n + 2 \in Nat /\ n <= n + 2 OBVIOUS
  <2> QED BY <2>1, RoomLess
<1> DEFINE k == NextAttempt(s.bus.limit, s.bus.attempt)
<1> DEFINE gone == ~s.bus.started \/ s.bus.stopping
<1>1. k \in Nat /\ k <= s.bus.limit + 1
  BY DEF NextAttempt, Core, Base, States, Buses, Counted
<1>2. Failed(s, r) = IF gone THEN Handler(r, ReleaseGate(s))
                     ELSE IF ~s.bus.cooled THEN Handler(r, s)
                     ELSE IF Exhausts(s.bus.limit, k) THEN ReleaseGate(Tried(s, k, TRUE))
                     ELSE Handler(r, Gating(s, k))
  BY DEF Failed, Tried, Gating
<1> HIDE DEF k
<1>3. CASE gone
  <2> DEFINE h == ReleaseGate(s)
  <2>1. Failed(s, r) = Handler(r, h) BY <1>2, <1>3
  <2>2. Core(h) /\ Idle(h) = Idle(s) /\ h.page = s.page /\ Bound(h)
    BY ReleaseKeeps DEF Core, Bound
  <2>3. Room(h, n + 2) BY <2>2 DEF Room
  <2> HIDE DEF h
  <2> QED BY <2>1, <2>2, <2>3, ToldKeeps
<1>4. CASE ~gone /\ ~s.bus.cooled
  <2>1. Failed(s, r) = Handler(r, s) BY <1>2, <1>4
  <2>2. Core(s) BY <1>4 DEF Core, Base, GateIsOurs, Kept
  <2> QED BY <2>1, <2>2, ToldKeeps
<1>5. CASE ~gone /\ s.bus.cooled /\ Exhausts(s.bus.limit, k)
  <2> DEFINE h == ReleaseGate(Tried(s, k, TRUE))
  <2>1. Failed(s, r) = h BY <1>2, <1>5
  <2>2. Core(h) /\ Bound(h) /\ Idle(h) = Idle(s) /\ h.page = s.page BY <1>1, SpentKeeps
  <2> HIDE DEF h
  <2> QED BY <1>0, <2>1, <2>2 DEF Room
<1>6. CASE ~gone /\ s.bus.cooled /\ ~Exhausts(s.bus.limit, k)
  <2> DEFINE h == Gating(s, k)
  <2>1. Failed(s, r) = Handler(r, h) BY <1>2, <1>6
  <2>2. Core(h) /\ Bound(h) /\ Idle(h) = Idle(s) /\ h.page = s.page
    BY <1>1, <1>6, GatingKeeps DEF Hushed
  <2>3. Room(h, n + 2) BY <2>2 DEF Room
  <2> HIDE DEF h
  <2> QED BY <2>1, <2>2, <2>3, ToldKeeps
<1> QED BY <1>3, <1>4, <1>5, <1>6

\* A connection that is back serves the topics assigned meanwhile.
LEMMA ReconnectedKeeps ==
  ASSUME NEW s, Core(s), Bound(s), NEW r, NEW n \in Nat, Room(s, n + 1)
  PROVE  LET t == Reconnected(s, r)
         IN Core(t) /\ Bound(t) /\ Room(t, n) /\ t.page = s.page
<1> DEFINE h == IF s.bus.ready THEN ReleaseGate(s) ELSE s
<1> DEFINE t == SubscribeTransport(h, s.cluster.assigned, r)
<1>1. Reconnected(s, r) = t BY DEF Reconnected
<1>2. Core(h) /\ Bound(h) /\ Idle(h) = Idle(s) /\ h.page = s.page
  <2>1. CASE s.bus.ready
    <3>1. h = ReleaseGate(s) BY <2>1
    <3>2. /\ Core(ReleaseGate(s)) /\ Idle(ReleaseGate(s)) = Idle(s) /\ ReleaseGate(s).page = s.page
          /\ Bound(ReleaseGate(s))
      BY ReleaseKeeps DEF Core, Bound
    <3> QED BY <3>1, <3>2
  <2>2. CASE ~s.bus.ready
    <3>1. h = s BY <2>2
    <3> QED BY <3>1
  <2> QED BY <2>1, <2>2
<1> HIDE DEF h
<1>3. s.cluster.assigned \in SUBSET Topics BY DEF Core, Base, States, Clusters
<1>4. Room(h, n + 1) BY <1>2 DEF Room
<1>5. Remains(h, t) /\ Room(t, n) BY <1>2, <1>3, <1>4, TransportKeeps
<1> HIDE DEF t
<1>6. Bound(t) BY <1>2, <1>5, RemainsBound
<1> QED BY <1>1, <1>2, <1>5, <1>6 DEF Remains

\* updateStatus, by a transport that is up or by an opening that began or failed.
LEMMA UpdateStatusKeeps ==
  ASSUME NEW s, Base(s), LostIsTold(s), Bound(s), NEW status \in Statuses,
         Kept(s) \/ status = "error",
         At(s) # "waiting",
         Using(s) => /\ s.bus.pendingStop = None
                     /\ status \in {"error", "disconnected"} => Able(s.link)
                     /\ s.bus.heard \/ (s.link.kind = "worker" /\ s.link.phase = "closed"),
         status = "error" /\ s.bus.started /\ ~s.bus.stopping => ~s.bus.suspended,
         NEW r, NEW n \in Nat, Room(s, n + 3)
  PROVE  LET t == UpdateStatus(s, status, r)
         IN Core(t) /\ Bound(t) /\ Room(t, n) /\ t.page = s.page
<1> DEFINE h == SetStatus(s, status)
<1>1. /\ h \in States /\ Soft(s, h) /\ Counted(h) /\ h.bus.status = status
      /\ h.bus.lastError = s.bus.lastError /\ h.bus.gate = s.bus.gate
      /\ h.bus.timer = s.bus.timer /\ h.bus.demand = s.bus.demand
      /\ h.bus.cooled = s.bus.cooled /\ h.link = s.link
  BY SetStatusSoft DEF Base
<1> DEFINE again == status = "connected" /\ s.bus.status # "connected"
<1>2. /\ status = "error" => UpdateStatus(s, status, r) = Failed(h, r)
      /\ again => UpdateStatus(s, status, r) = Handler(r, Reconnected(h, r))
      /\ status # "error" /\ ~again => UpdateStatus(s, status, r) = Handler(r, h)
  BY DEF UpdateStatus
<1> HIDE DEF h
<1>3. Base(h)
  <2>1. GateIsOurs(h) BY <1>1 DEF Base, GateIsOurs, Soft, Hushed
  <2> QED BY <2>1, <1>1, SoftBase
<1>4. Runs(h) /\ LostIsTold(h) /\ Bound(h) /\ (Kept(s) => Kept(h))
  BY <1>1 DEF Soft, Runs, WaitsWell, UsesWell, Using, At, LostIsTold, Hushed, Kept, Flying,
              Bound, Gates, Pauses
<1>5. status # "error" => Core(h) BY <1>3, <1>4 DEF Core
<1>6. h.page = s.page /\ Room(h, n + 3) BY <1>1 DEF Soft, Room, Idle
<1>7. /\ Room(h, n + 2) /\ Room(h, (n + 2) + 1) /\ n + 2 \in Nat
  <2>1. n + 3 \in Nat /\ n + 2 \in Nat /\ n + 2 <= n + 3 /\ (n + 2) + 1 = n + 3 OBVIOUS
  <2> QED BY <2>1, <1>6, RoomLess
<1>8. CASE status = "error"
  <2>1. h.bus.started /\ ~h.bus.stopping => ~h.bus.suspended BY <1>1, <1>8 DEF Soft
  <2> QED BY <1>2, <1>3, <1>4, <1>6, <1>7, <1>8, <2>1, FailedKeeps
<1>9. CASE again
  <2> DEFINE u == Reconnected(h, r)
  <2>1. Core(u) /\ Bound(u) /\ Room(u, n + 2) /\ u.page = h.page
    BY <1>4, <1>5, <1>7, <1>9, ReconnectedKeeps
  <2> HIDE DEF u
  <2>2. UpdateStatus(s, status, r) = Handler(r, u) BY <1>2, <1>9 DEF u
  <2> QED BY <1>6, <2>1, <2>2, ToldKeeps
<1>10. CASE status # "error" /\ ~again
  BY <1>2, <1>4, <1>5, <1>6, <1>7, <1>10, ToldKeeps
<1> QED BY <1>8, <1>9, <1>10

----------------------------------------------------------------------------
(* Suspension and start.                                                   *)

\* suspendTransport: the page is hidden, and the runtime paused.
LEMMA SuspendKeeps ==
  ASSUME NEW s, Base(s), s.bus.started, ~s.bus.stopping, s.page # "visible",
         ~s.cluster.running, s.cluster.listening <=> s.cluster.paused,
         NEW r, NEW n \in Nat, Room(s, n + 3)
  PROVE  LET t == SuspendTransport(s, r)
         IN Core(t) /\ Bound(t) /\ Room(t, n) /\ t.page = s.page
<1> DEFINE h == [CancelRecovery(NewEpoch(s, None)) EXCEPT
                   !.bus.suspended = TRUE, !.bus.ready = FALSE, !.bus.topics = {}]
<1> DEFINE w == Handler(r, Hidden(s))
<1> DEFINE t == StopSuspended(w)
<1>1. SuspendTransport(s, r) = StopSuspended(UpdateStatus(h, "disconnected", r))
  BY DEF SuspendTransport
<1> HIDE DEF h
<1>2. UpdateStatus(h, "disconnected", r) = Handler(r, SetStatus(h, "disconnected"))
  BY DEF UpdateStatus
<1>3. SetStatus(h, "disconnected") = Hidden(s) BY DEF h, Hidden
<1>4. /\ Core(Hidden(s)) /\ Idle(Hidden(s)) = Idle(s)
      /\ Hidden(s).bus.suspended /\ ~Hidden(s).bus.stopping
      /\ Hidden(s).cluster = s.cluster /\ Hidden(s).page = s.page
  BY HiddenKeeps
<1>5. Tells(Hidden(s)) BY <1>4 DEF Tells, Pauses
<1>6. Room(Hidden(s), (n + 1) + 2)
  <2>1. (n + 1) + 2 = n + 3 OBVIOUS
  <2> QED BY <2>1, <1>4 DEF Room
<1>7. Core(w) /\ Pauses(w) /\ Room(w, n + 1) /\ w.page = Hidden(s).page
  <2>1. n + 1 \in Nat OBVIOUS
  <2> QED BY <1>5, <1>6, <2>1, HandlerKeeps
<1>8. SuspendTransport(s, r) = t BY <1>1, <1>2, <1>3
<1> HIDE DEF w
<1>9. /\ Core(t) /\ Gates(t) /\ Room(t, n) /\ t.cluster = w.cluster /\ t.page = w.page
      /\ t.bus.suspended = w.bus.suspended
  BY <1>7, StopSuspendedKeeps
<1> HIDE DEF t
<1>10. Bound(t) BY <1>7, <1>9 DEF Bound, Pauses
<1> QED BY <1>4, <1>7, <1>8, <1>9, <1>10

\* cluster.start().
LEMMA ClusterStartKeeps ==
  ASSUME NEW s, Base(s), s.bus.started, ~Hushed(s), s.cluster.running => Pauses(s),
         Core(s), NEW r, NEW n \in Nat, Room(s, n + 3)
  PROVE  LET t == ClusterStart(s, r)
         IN Core(t) /\ Bound(t) /\ Room(t, n) /\ t.page = s.page
<1>0. s \in States /\ ~s.bus.stopping /\ ~s.bus.suspended /\ Room(s, n)
  <2>1. n + 3 \in Nat /\ n <= n + 3 OBVIOUS
  <2> QED BY <2>1, RoomLess DEF Base, Hushed
<1>1. CASE s.cluster.running
  <2>1. ClusterStart(s, r) = s BY <1>1 DEF ClusterStart
  <2> QED BY <1>0, <1>1, <2>1 DEF Bound, Gates
<1>2. CASE ~s.cluster.running /\ s.page = "visible"
  <2> DEFINE C == Resuming(s.cluster)
  <2> DEFINE t == Running(s, C)
  <2>0. ClusterStart(s, r) = Woken(s) BY <1>2 DEF ClusterStart, Woken
  <2>1. ClusterStart(s, r) = t /\ C \in Clusters BY <1>0, <2>0, Turning
  <2>2. C.running /\ C.listening /\ ~C.paused BY <1>0, Turning
  <2> HIDE DEF C
  <2>3. Core(t) /\ Idle(t) = Idle(s) /\ t.cluster = C /\ t.bus = s.bus /\ t.page = s.page
    BY <1>0, <2>1, RunningKeeps
  <2> HIDE DEF t
  <2>4. Bound(t) BY <1>0, <2>2, <2>3 DEF Bound, Gates, Pauses
  <2> QED BY <1>0, <1>2, <2>1, <2>3, <2>4 DEF Room
<1>3. CASE ~s.cluster.running /\ s.page # "visible"
  <2> DEFINE C == Pausing(s.cluster)
  <2> DEFINE h == Running(s, C)
  <2> DEFINE t == SuspendTransport(h, r)
  <2>0. ClusterStart(s, r) = SuspendTransport(Paused(s), r)
    BY <1>3 DEF ClusterStart, Paused
  <2>1. ClusterStart(s, r) = t /\ C \in Clusters BY <1>0, <1>3, <2>0, Turning
  <2>2. ~C.running /\ C.listening /\ C.paused BY <1>0, <1>3, Turning
  <2> HIDE DEF C
  <2>3. Base(h) /\ Idle(h) = Idle(s) /\ h.cluster = C /\ h.bus = s.bus /\ h.page = s.page
    BY <1>0, <2>1, RunningKeeps
  <2> HIDE DEF h
  <2>4. Room(h, n + 3) BY <2>3 DEF Room
  <2>5. Core(t) /\ Bound(t) /\ Room(t, n) /\ t.page = h.page
    BY <1>0, <1>3, <2>2, <2>3, <2>4, SuspendKeeps
  <2> HIDE DEF t
  <2> QED BY <2>1, <2>3, <2>5
<1> QED BY <1>1, <1>2, <1>3

\* start() of a started bus resumes it, or begins an opening.
LEMMA RestartKeeps ==
  ASSUME NEW s, Core(s), Bound(s), s.bus.started, ~s.bus.stopping, ~Opening(s),
         NEW r, NEW n \in Nat, Room(s, n + 4)
  PROVE  LET t == Restart(s, r)
         IN Core(t) /\ Bound(t) /\ Room(t, n) /\ t.page = s.page
<1> DEFINE h == ResetTo(s, TRUE)
<1> DEFINE u == Reopen(h, FALSE, r)
<1> DEFINE idle == s.bus.ready /\ s.bus.status \notin {"error", "disconnected"}
<1>0. /\ Base(s) /\ Room(s, n) /\ Room(s, (n + 3) + 1) /\ n + 3 \in Nat
  <2>1. n + 4 \in Nat /\ n <= n + 4 /\ (n + 3) + 1 = n + 4 /\ n + 3 \in Nat OBVIOUS
  <2> QED BY <2>1, RoomLess DEF Core
<1>1. Restart(s, r) = IF idle THEN s
                      ELSE IF s.bus.suspended THEN Resumed(u, r) ELSE u
  BY DEF Restart, ResetTo
<1>2. CASE idle BY <1>0, <1>1, <1>2
<1>3. CASE ~idle
  <2>1. /\ Base(h) /\ Idle(h) = Idle(s)
        /\ (Openable(s) <=> Openable(h)) /\ (Opening(s) <=> Opening(h))
        /\ h.bus.config /\ ~h.bus.stopping
        /\ h.cluster = s.cluster /\ h.page = s.page
    BY <1>0, ResetKeeps
  <2> HIDE DEF h
  <2>2. Room(h, (n + 3) + 1) BY <1>0, <2>1 DEF Room
  <2>3. ~Settled(h) BY <2>1 DEF Settled
  <2>4. Begun(h, u) /\ Room(u, n + 3)
    BY <1>0, <2>1, <2>2, <2>3, ReopenKeeps
  <2> HIDE DEF u
  <2>5. Openable(s)
    <3>1. CASE s.bus.suspended BY <3>1 DEF Bound, Gates, Openable
    <3>2. CASE ~s.bus.suspended BY <1>3, <3>2, LostIsOpenable DEF Hushed
    <3> QED BY <3>1, <3>2
  <2>6. /\ Core(u) /\ u.page = s.page
        /\ u.bus.stopping \/ (u.bus.started /\ ~u.bus.suspended /\ u.cluster = s.cluster)
    BY <2>1, <2>4, <2>5 DEF Begun
  <2>7. Room(u, n)
    <3>1. n <= n + 3 OBVIOUS
    <3> QED BY <3>1, <1>0, <2>4, RoomLess
  <2>8. CASE u.bus.stopping
    <3>1. Bound(u) BY <2>6, <2>8, StoppingIsBound DEF Core
    <3>2. Restart(s, r) = u BY <1>1, <1>3, <2>8 DEF Resumed
    <3> QED BY <2>6, <2>7, <3>1, <3>2
  <2>9. CASE ~u.bus.stopping /\ ~s.bus.suspended
    <3>1. Bound(u) BY <2>6, <2>9 DEF Bound, Gates, Pauses
    <3>2. Restart(s, r) = u BY <1>1, <1>3, <2>9
    <3> QED BY <2>6, <2>7, <3>1, <3>2
  <2>10. CASE ~u.bus.stopping /\ s.bus.suspended
    <3> DEFINE t == ClusterStart(u, r)
    <3>1. Restart(s, r) = t BY <1>1, <1>3, <2>6, <2>10 DEF Resumed
    <3>2. u.cluster.running => Pauses(u) BY <2>6, <2>10 DEF Bound, Pauses
    <3>3. Base(u) /\ ~Hushed(u) BY <2>6, <2>10 DEF Core, Hushed
    <3>4. Core(t) /\ Bound(t) /\ Room(t, n) /\ t.page = u.page
      BY <2>4, <2>6, <2>10, <3>2, <3>3, ClusterStartKeeps
    <3> HIDE DEF t
    <3> QED BY <2>6, <3>1, <3>4
  <2> QED BY <2>8, <2>9, <2>10
<1> QED BY <1>2, <1>3

\* start() of a bus that is not started.
LEMMA FirstStartKeeps ==
  ASSUME NEW s, Core(s), Bound(s), ~s.bus.started, ~s.bus.stopping,
         NEW r, NEW n \in Nat, Room(s, n + 4)
  PROVE  LET t == FirstStart(s, r)
         IN Core(t) /\ Bound(t) /\ Room(t, n) /\ t.page = s.page
<1> DEFINE h == ResetTo(s, FALSE)
<1> DEFINE u == Connecting(h, TRUE, FALSE)
<1> DEFINE w == Handler(r, u)
<1> DEFINE c == Fresh(s)
<1> DEFINE v == ClusterStart(w, r)
<1>0. Base(s) /\ Room(s, (n + 3) + 1) /\ n + 3 \in Nat
  <2>1. (n + 3) + 1 = n + 4 /\ n + 3 \in Nat OBVIOUS
  <2> QED BY <2>1 DEF Core
<1>1. /\ s.bus.startPromise = None /\ ~s.cluster.running
      /\ Openable(s) /\ ~Opening(s)
  BY <1>0 DEF Base, Phased, RuntimeOff, Openable, Dark, Able, Opening
<1>2. /\ Base(h) /\ Idle(h) = Idle(s) /\ Fresh(h) = c
      /\ Openable(h) /\ ~Opening(h) /\ h.bus.config /\ ~h.bus.stopping
      /\ h.bus.pendingStop = s.bus.pendingStop
      /\ h.cluster = s.cluster /\ h.page = s.page
  BY <1>0, <1>1, ResetKeeps
<1>3. UpdateStatus(NewOpening(h, s.bus.pendingStop, TRUE, FALSE), "connecting", r) = w
  BY <1>2 DEF UpdateStatus, Connecting
<1>4. FirstStart(s, r) = Joined(Join(w, c, r), c)
  BY <1>3 DEF FirstStart, ResetTo
<1> HIDE DEF h
<1>5. Room(h, (n + 3) + 1) BY <1>0, <1>2 DEF Room
<1>6. /\ Core(u) /\ Base(u) /\ Room(u, n + 3) /\ u.bus.current = c /\ c \in Chains /\ Opening(u)
      /\ u.bus.started /\ ~Hushed(u) /\ u.cluster = h.cluster /\ u.page = h.page
  BY <1>0, <1>2, <1>5, OpeningBegins
<1> HIDE DEF u
<1>7. /\ Core(w) /\ Idle(w) = Idle(u) /\ w.page = u.page
      /\ \/ w.bus.stopping /\ Core(w) /\ Bound(w)
         \/ /\ w.bus.started = u.bus.started /\ w.bus.suspended = u.bus.suspended
            /\ w.bus.stopping = u.bus.stopping /\ w.bus.current = u.bus.current
            /\ w.cluster = u.cluster
  BY <1>6, HandlerOfOpening
<1> HIDE DEF w, c
<1>8. Room(w, n + 3) /\ Room(w, n)
  <2>1. Room(w, n + 3) BY <1>6, <1>7 DEF Room
  <2>2. n <= n + 3 OBVIOUS
  <2> QED BY <2>1, <2>2, <1>0, RoomLess
<1>9. CASE w.bus.stopping
  <2>1. FirstStart(s, r) = w BY <1>4, <1>9 DEF Join, Joined
  <2>2. Bound(w) BY <1>7, <1>9, StoppingIsBound DEF Core
  <2> QED BY <1>2, <1>6, <1>7, <1>8, <2>1, <2>2
<1>10. CASE ~w.bus.stopping
  <2>1. /\ w.bus.started /\ ~Hushed(w) /\ w.bus.current = c /\ w.cluster = s.cluster
    BY <1>2, <1>6, <1>7, <1>10 DEF Hushed
  <2>2. Join(w, c, r) = v BY <2>1, <1>10 DEF Join
  <2>3. Core(v) /\ Bound(v) /\ Room(v, n) /\ v.page = w.page
    BY <1>1, <1>7, <1>8, <2>1, ClusterStartKeeps DEF Core
  <2> HIDE DEF v
  <2> DEFINE t == Joined(v, c)
  <2>4. c # None BY <1>6 DEF Chains, None
  <2>5. /\ Core(t) /\ Idle(t) = Idle(v) /\ t.page = v.page
        /\ (Gates(v) => Gates(t)) /\ (Pauses(v) => Pauses(t))
    BY <2>3, <2>4, JoinedKeeps
  <2> HIDE DEF t
  <2>6. Bound(t) /\ Room(t, n) BY <2>3, <2>5 DEF Room, Bound
  <2>7. FirstStart(s, r) = t BY <1>4, <2>2 DEF t
  <2> QED BY <1>2, <1>6, <1>7, <2>3, <2>5, <2>6, <2>7
<1> QED BY <1>9, <1>10

\* start().
LEMMA StartKeeps ==
  ASSUME NEW s, Core(s), Bound(s), NEW r, NEW n \in Nat, Room(s, n + 4)
  PROVE  LET t == Start(s, r)
         IN Core(t) /\ Bound(t) /\ Room(t, n) /\ t.page = s.page
<1>0. Base(s) /\ Room(s, n)
  <2>1. n + 4 \in Nat /\ n <= n + 4 OBVIOUS
  <2> QED BY <2>1, RoomLess DEF Core
<1>1. CASE s.bus.queued \/ s.bus.stopping
  <2> DEFINE t == [s EXCEPT !.bus.queued = TRUE]
  <2>1. Start(s, r) = t BY <1>1 DEF Start
  <2>2. t \in States /\ Calm(s, t) BY <1>0, QueuedCalm
  <2>3. Idle(t) = Idle(s) BY <1>0 DEF Base, States, Idle
  <2> HIDE DEF t
  <2>4. Core(t) /\ Bound(t)
    BY <1>0, <2>2, CalmKeeps, CalmCore DEF Bound
  <2>5. t.page = s.page BY <2>2 DEF Calm, Soft
  <2> QED BY <1>0, <2>1, <2>3, <2>4, <2>5 DEF Room
<1>2. CASE ~(s.bus.queued \/ s.bus.stopping) /\ Opening(s)
  <2>1. Start(s, r) = s BY <1>2 DEF Start
  <2> QED BY <1>0, <2>1
<1>3. CASE ~(s.bus.queued \/ s.bus.stopping) /\ ~Opening(s) /\ s.bus.started
  <2>1. Start(s, r) = Restart(s, r) BY <1>3 DEF Start
  <2> QED BY <1>3, <2>1, RestartKeeps
<1>4. CASE ~(s.bus.queued \/ s.bus.stopping) /\ ~Opening(s) /\ ~s.bus.started
  <2>1. Start(s, r) = FirstStart(s, r) BY <1>4 DEF Start
  <2> QED BY <1>4, <2>1, FirstStartKeeps
<1> QED BY <1>1, <1>2, <1>3, <1>4

----------------------------------------------------------------------------
(* A step is over: what nobody refers to is forgotten.                     *)

\* The state that Become leaves.
Cleared(s) ==
  [bus |-> [s.bus EXCEPT !.current = IF @ \in Garbage(s) THEN None ELSE @],
   chain |-> [c \in Chains |-> IF c \in Garbage(s) THEN NoChain ELSE s.chain[c]],
   ops |-> s.ops, link |-> s.link, cluster |-> s.cluster, page |-> s.page]

\* Nothing that is in flight, or that anything waits for, is garbage.
LEMMA GarbageIsDead ==
  ASSUME NEW s, s \in States
  PROVE  /\ \A c \in Garbage(s) : /\ c \in Chains /\ s.chain[c].at \in {"ok", "failed"}
                                  /\ s.chain[c].then = {}
         /\ s.bus.startPromise \notin Garbage(s) /\ s.bus.pendingStop \notin Garbage(s)
         /\ s.bus.down.on \notin Garbage(s) /\ Garbage(s) \cap Flying(s) = {}
         /\ \A c \in Chains : s.chain[c].after \notin Garbage(s)
         /\ \A o \in s.ops : o.on \notin Garbage(s)
  BY DEF Garbage, Flying

\* So the invariant is kept.
LEMMA ClearedKeeps ==
  ASSUME NEW s, Core(s), Bound(s)
  PROVE  Core(Cleared(s)) /\ Bound(Cleared(s))
<1> DEFINE G == Garbage(s)
           t == Cleared(s)
<1>1. s \in States BY DEF Core, Base
<1>2. /\ \A c \in G : /\ c \in Chains /\ s.chain[c].at \in {"ok", "failed"}
                      /\ s.chain[c].then = {}
      /\ s.bus.startPromise \notin G /\ s.bus.pendingStop \notin G
      /\ s.bus.down.on \notin G /\ G \cap Flying(s) = {}
      /\ \A c \in Chains : s.chain[c].after \notin G
      /\ \A o \in s.ops : o.on \notin G
  BY <1>1, GarbageIsDead
<1>3. /\ t.bus = [s.bus EXCEPT !.current = IF s.bus.current \in G THEN None ELSE s.bus.current]
      /\ t.chain = [c \in Chains |-> IF c \in G THEN NoChain ELSE s.chain[c]]
      /\ t.ops = s.ops /\ t.link = s.link /\ t.cluster = s.cluster /\ t.page = s.page
  BY <1>1 DEF Cleared, States, Buses
<1>4. /\ t.bus \in Buses /\ t.chain \in [Chains -> ChainRecords]
  BY <1>1, <1>3 DEF States, Buses, Refs, NoChain, ChainRecords
<1>5. t \in States BY <1>1, <1>3, <1>4 DEF States, Cleared
<1> HIDE DEF t, G
<1>6. /\ t.bus.limit = s.bus.limit /\ t.bus.started = s.bus.started
      /\ t.bus.stopping = s.bus.stopping /\ t.bus.suspended = s.bus.suspended
      /\ t.bus.status = s.bus.status /\ t.bus.ready = s.bus.ready
      /\ t.bus.config = s.bus.config /\ t.bus.heard = s.bus.heard
  BY <1>1, <1>3 DEF States, Buses
<1>7. /\ t.bus.startPromise = s.bus.startPromise /\ t.bus.pendingStop = s.bus.pendingStop
      /\ t.bus.down = s.bus.down /\ t.bus.gate = s.bus.gate /\ t.bus.demand = s.bus.demand
      /\ t.bus.timer = s.bus.timer /\ t.bus.cooled = s.bus.cooled
      /\ t.bus.attempt = s.bus.attempt /\ t.bus.lastError = s.bus.lastError
  BY <1>1, <1>3 DEF States, Buses
<1>8. t.bus.current = IF s.bus.current \in G THEN None ELSE s.bus.current
  BY <1>1, <1>3 DEF States, Buses
<1>9. /\ \A c \in G : t.chain[c] = NoChain
      /\ \A c \in Chains : c \notin G => t.chain[c] = s.chain[c]
  BY <1>2, <1>3
<1>10. Flying(t) = Flying(s) BY <1>2, <1>9 DEF Flying, NoChain
<1>11. \A c : c \in Refs /\ c \notin G => (Done(t, c) <=> Done(s, c)) /\ (Alive(s, c) => Alive(t, c))
  BY <1>9 DEF Done, Refs, Alive
<1>12. /\ s.bus.startPromise \in Refs /\ s.bus.pendingStop \in Refs /\ s.bus.current \in Refs
       /\ s.bus.down \in Downs /\ s.bus.down.on \in Refs
       /\ \A c \in Chains : s.chain[c].after \in Refs
  BY <1>1 DEF States, Buses, Downs, ChainRecords, Refs
<1>13. Chained(t)
  <2>1. Shaped(NoChain) BY DEF Shaped, NoChain
  <2> QED BY <2>1, <1>9 DEF Core, Base, Chained
<1>14. Named(t)
  <2>1. Alive(t, None) BY DEF Alive, None, Chains
  <2>2. Alive(t, t.bus.current) BY <2>1, <1>8, <1>11, <1>12 DEF Core, Base, Named
  <2>3. \A c \in Chains : Alive(t, t.chain[c].after)
    <3> SUFFICES ASSUME NEW c \in Chains PROVE Alive(t, t.chain[c].after) OBVIOUS
    <3>1. CASE c \in G BY <2>1, <3>1, <1>9 DEF NoChain
    <3>2. CASE c \notin G BY <3>2, <1>2, <1>9, <1>11, <1>12 DEF Core, Base, Named
    <3> QED BY <3>1, <3>2
  <2>4. \A o \in t.ops : Alive(t, o.on)
    BY <1>2, <1>3, <1>9 DEF Core, Base, Named, Alive
  <2> QED BY <2>2, <2>3, <2>4, <1>2, <1>7, <1>11, <1>12 DEF Core, Base, Named
<1>15. Queued(t)
  <2>1. PICK pos \in [Chains -> Int] : Placed(s, pos) BY DEF Core, Base, Queued
  <2>2. Latest(t) = Latest(s) BY <1>7 DEF Latest
  <2>3. \A c \in Flying(s) : t.chain[c] = s.chain[c] /\ (Head(t, c) <=> Head(s, c))
    BY <1>2, <1>9, <1>11, <1>12 DEF Flying, Head
  <2>4. Placed(t, pos) BY <2>1, <2>2, <2>3, <1>10 DEF Placed
  <2> QED BY <2>4 DEF Queued
<1>16. StopsAreStops(t) /\ CurrentIsOpen(t)
  <2>1. StopsAreStops(t)
    BY <1>2, <1>6, <1>7, <1>9, <1>12 DEF Core, Base, StopsAreStops, Hushed, Refs
  <2>2. t.bus.current # None => t.chain[t.bus.current].kind = "open"
    BY <1>8, <1>9, <1>12 DEF Core, Base, CurrentIsOpen, Refs
  <2>3. t.bus.current \in Flying(t) => t.bus.startPromise = t.bus.current
    <3>1. None \notin Flying(t) BY DEF Flying, None, Chains
    <3> QED BY <3>1, <1>7, <1>8, <1>10 DEF Core, Base, CurrentIsOpen
  <2>4. Hushed(t) => t.bus.current = None /\ ~t.bus.heard
    BY <1>6, <1>8 DEF Core, Base, CurrentIsOpen, Hushed
  <2> QED BY <2>1, <2>2, <2>3, <2>4 DEF CurrentIsOpen
<1>17. Phased(t) /\ ReadyRests(t) /\ RuntimeOff(t) /\ GateIsOurs(t)
  BY <1>3, <1>6, <1>7, <1>10 DEF Core, Base, Phased, ReadyRests, RuntimeOff, GateIsOurs, Hushed
<1>18. OpeningIsCurrent(t)
  BY <1>2, <1>6, <1>7, <1>8, <1>9, <1>10, <1>12 DEF Core, Base, OpeningIsCurrent, Hushed, Refs
<1>19. Torn(t)
  BY <1>2, <1>3, <1>6, <1>7, <1>10, <1>11, <1>12 DEF Core, Base, Torn
<1>20. Dark(t)
  <2>1. \A c \in Chains : t.chain[c].at = "stopping" => ~t.link.live
    BY <1>2, <1>3, <1>9 DEF Core, Base, Dark, NoChain
  <2> QED BY <2>1, <1>2, <1>3, <1>6, <1>7, <1>11, <1>12 DEF Core, Base, Dark
<1>21. Base(t)
  BY <1>5, <1>6, <1>7, <1>13, <1>14, <1>15, <1>16, <1>17, <1>18, <1>19, <1>20
     DEF Core, Base, Counted
<1>22. /\ At(t) \in {"waiting", "dialing"} => At(s) = At(t) /\ t.bus.current = s.bus.current
                                              /\ t.chain[t.bus.current] = s.chain[t.bus.current]
  BY <1>2, <1>8, <1>9, <1>12 DEF At, Refs
<1>23. Runs(t)
  <2>1. WaitsWell(t) BY <1>3, <1>6, <1>7, <1>22 DEF Core, Runs, WaitsWell
  <2>2. Using(t) => Using(s) BY <1>6, <1>22 DEF Using
  <2>3. UsesWell(t) BY <2>2, <1>3, <1>6, <1>7 DEF Core, Runs, UsesWell
  <2> QED BY <2>1, <2>3 DEF Runs
<1>24. LostIsTold(t) BY <1>6, <1>7 DEF Core, LostIsTold, Hushed
<1>25. Kept(t)
  <2>1. s.bus.current \in Flying(s) => t.bus.current \in Flying(t) BY <1>2, <1>8, <1>10
  <2>2. \A c \in Chains : {"recovery", "demand"} \cap s.chain[c].then # {}
                            => t.chain[c].then = s.chain[c].then
    BY <1>2, <1>9
  <2> QED BY <2>1, <2>2, <1>7 DEF Core, Kept
<1>26. Bound(t) BY <1>3, <1>6, <1>7 DEF Bound, Gates, Pauses
<1> QED BY <1>21, <1>23, <1>24, <1>25, <1>26 DEF Core, t

\* A step to s keeps the invariant if s has it.
LEMMA BecomeKeeps ==
  ASSUME NEW s, Core(s), Bound(s), Become(s), page' = s.page
  PROVE  Inv'
<1>1. Here' = Cleared(s) BY DEF Become, Here, Cleared
<1>2. Core(Cleared(s)) /\ Bound(Cleared(s)) BY ClearedKeeps
<1> QED BY <1>1, <1>2 DEF Inv

----------------------------------------------------------------------------
(* The steps: calls of the application and events of the page.             *)

\* A step that leaves its state with the invariant.
LEMMA StepKeeps ==
  ASSUME NEW s, NEW r, Step(s, r), Core(s), Bound(s), s.page = page
  PROVE  Inv'
  BY BecomeKeeps DEF Step

\* The same of a bounded step that may change the page.
LEMMA MoveKeeps ==
  ASSUME NEW s, NEW r, Move(s, r), Core(s), Bound(s), page' = s.page
  PROVE  Inv'
  BY BecomeKeeps DEF Move

\* And of a failure of the connection.
LEMMA FaultKeeps ==
  ASSUME NEW s, NEW r, Fault(s, r), Core(s), Bound(s), s.page = page
  PROVE  Inv'
  BY BecomeKeeps DEF Fault

\* Every step has room for the chains it begins.
LEMMA StepHasRoom ==
  ASSUME Inv, NEW s, NEW r, Step(s, r) \/ Move(s, r) \/ Fault(s, r)
  PROVE  \A n \in 0..4 : Room(Here, n)
<1>1. Cardinality(Idle(Here)) >= 4
  <2>1. Here \in States BY DEF Inv, Core, Base
  <2>2. IsFiniteSet(Idle(Here))
    <3>1. Idle(Here) \subseteq 1..MaxChains BY DEF Idle, Chains
    <3>2. MaxChains \in Nat BY BusAssumption
    <3>3. IsFiniteSet(1..MaxChains) BY <3>2, FS_Interval
    <3> QED BY <3>1, <3>3, FS_Subset
  <2>3. Cardinality(Idle(Here)) \in Nat BY <2>2, FS_CardinalityType
  <2> QED BY <2>3 DEF Step, Move, Fault, HasRoom, Reserve, Spare
<1>2. 4 \in Nat /\ \A n \in 0..4 : n \in Nat /\ n <= 4 OBVIOUS
<1>3. Room(Here, 4) BY <1>1 DEF Room
<1> QED BY <1>2, <1>3, RoomLess

\* start().
LEMMA StartCallKeeps ==
  ASSUME Inv, NEW r, StartCall(r)
  PROVE  Inv'
<1>1. Move(Start(Here, r), r) /\ page' = page BY DEF StartCall
<1>2. Room(Here, 0 + 4) BY <1>1, StepHasRoom
<1>3. Core(Here) /\ Bound(Here) /\ Here.page = page BY DEF Inv, Here
<1>4. LET t == Start(Here, r) IN Core(t) /\ Bound(t) /\ t.page = Here.page
  BY <1>2, <1>3, StartKeeps
<1> HIDE DEF Here
<1> QED BY <1>1, <1>3, <1>4, MoveKeeps

\* stop().
LEMMA StopCallKeeps ==
  ASSUME Inv, StopCall
  PROVE  Inv'
<1>1. Move(Stop(Here), "ignore") /\ page' = page BY DEF StopCall
<1>2. Core(Here) /\ Bound(Here) /\ Here.page = page BY DEF Inv, Here
<1>3. /\ Core(Stop(Here)) /\ Bound(Stop(Here)) /\ Stop(Here).page = Here.page
  BY <1>2, StopKeeps DEF Core, Bound
<1> QED BY <1>1, <1>2, <1>3, MoveKeeps

\* The runtime with other topics assigned.
Assigning(s, A) == [s EXCEPT !.cluster.assigned = A]

\* The bus does not depend on them.
LEMMA AssigningKeeps ==
  ASSUME NEW s, Core(s), NEW A \in SUBSET Topics
  PROVE  LET t == Assigning(s, A)
         IN /\ Core(t) /\ (Gates(s) => Gates(t)) /\ (Pauses(s) => Pauses(t))
            /\ Idle(t) = Idle(s) /\ t.page = s.page /\ t.bus = s.bus
            /\ t.cluster.running = s.cluster.running
            /\ t.cluster.listening = s.cluster.listening
            /\ t.cluster.paused = s.cluster.paused
<1> DEFINE t == Assigning(s, A)
<1>1. Base(s) /\ s \in States BY DEF Core, Base
<1>2. /\ t \in States /\ t.bus = s.bus /\ t.chain = s.chain /\ t.ops = s.ops
      /\ t.link = s.link /\ t.page = s.page
      /\ t.cluster.running = s.cluster.running /\ t.cluster.listening = s.cluster.listening
      /\ t.cluster.paused = s.cluster.paused
  BY <1>1 DEF Assigning, States, Clusters
<1> HIDE DEF t
<1>3. Soft(s, t) BY <1>1, <1>2 DEF Soft, Base, Named
<1>4. Calm(s, t) BY <1>1, <1>2, <1>3 DEF Calm, Base, Counted
<1>5. Core(t) BY <1>2, <1>4, CalmCore
<1>6. (Gates(s) => Gates(t)) /\ (Pauses(s) => Pauses(t)) BY <1>1, <1>2, <1>4, CalmKeeps
<1>7. Idle(t) = Idle(s) BY <1>2 DEF Idle
<1> QED BY <1>2, <1>5, <1>6, <1>7 DEF t

\* The runtime assigns a topic.
LEMMA AssignKeeps ==
  ASSUME Inv, NEW t \in Topics, NEW r, Assign(t, r)
  PROVE  Inv'
<1> DEFINE s == Assigning(Here, cluster.assigned \cup {t})
           u == SubscribeTransport(s, {t}, r)
<1>1. cluster.running /\ Move(u, r) /\ page' = page
  BY DEF Assign, Assigning, Here
<1>2. Core(Here) /\ Bound(Here) /\ Here.page = page /\ Here.cluster = cluster BY DEF Inv, Here
<1>3. cluster.assigned \cup {t} \in SUBSET Topics BY <1>2 DEF Core, Base, States, Clusters
<1>4. Core(s) /\ Bound(s) /\ Idle(s) = Idle(Here) /\ s.page = page
  BY <1>1, <1>2, <1>3, AssigningKeeps DEF Bound
<1> HIDE DEF s
<1>5. Room(s, 0 + 1) BY <1>1, <1>4, StepHasRoom DEF Room
<1>6. Remains(s, u) BY <1>4, <1>5, TransportKeeps
<1>7. Core(u) /\ Bound(u) /\ u.page = page BY <1>4, <1>6, RemainsBound DEF Remains
<1> QED BY <1>1, <1>7, MoveKeeps

\* The runtime releases a topic.
LEMMA UnassignKeeps ==
  ASSUME Inv, NEW t \in Topics, NEW r, Unassign(t, r)
  PROVE  Inv'
<1> DEFINE s == Assigning(Here, cluster.assigned \ {t})
           u == UnsubscribeTransport(s, {t}, r)
<1>1. cluster.running /\ Move(u, r) /\ page' = page
  BY DEF Unassign, Assigning, Here
<1>2. Core(Here) /\ Bound(Here) /\ Here.page = page /\ Here.cluster = cluster BY DEF Inv, Here
<1>3. cluster.assigned \ {t} \in SUBSET Topics BY <1>2 DEF Core, Base, States, Clusters
<1>4. Core(s) /\ Bound(s) /\ Idle(s) = Idle(Here) /\ s.page = page
  BY <1>1, <1>2, <1>3, AssigningKeeps DEF Bound
<1> HIDE DEF s
<1>5. Room(s, 0 + 1) BY <1>1, <1>4, StepHasRoom DEF Room
<1>6. Remains(s, u) BY <1>4, <1>5, TransportKeeps
<1>7. Core(u) /\ Bound(u) /\ u.page = page BY <1>4, <1>6, RemainsBound DEF Remains
<1> QED BY <1>1, <1>7, MoveKeeps

\* The runtime publishes.
LEMMA PublishKeeps ==
  ASSUME Inv, NEW t \in Topics, NEW r, Publish(t, r)
  PROVE  Inv'
<1> DEFINE u == RunTransport(Here, "publish", {t}, r)
<1>1. Move(u, r) /\ page' = page BY DEF Publish
<1>2. Core(Here) /\ Bound(Here) /\ Here.page = page BY DEF Inv, Here
<1>3. Room(Here, 0 + 1) BY <1>1, StepHasRoom
<1>4. "publish" \in Acts /\ {t} \in SUBSET Topics BY DEF Acts
<1>5. Remains(Here, u) BY <1>2, <1>3, <1>4, RunTransportKeeps
<1>6. Core(u) /\ Bound(u) /\ u.page = page BY <1>2, <1>5, RemainsBound DEF Remains
<1> QED BY <1>1, <1>6, MoveKeeps

----------------------------------------------------------------------------
\* s in another page.
InPage(s, p) == [s EXCEPT !.page = p]

\* Where the page is concerns only the functions to come.
LEMMA InPageKeeps ==
  ASSUME NEW s, Base(s), NEW p \in Pages
  PROVE  LET t == InPage(s, p)
         IN /\ Base(t) /\ (Core(s) => Core(t)) /\ (Bound(s) => Bound(t)) /\ (Gates(s) => Gates(t))
            /\ Idle(t) = Idle(s) /\ t.page = p
            /\ t.bus = s.bus /\ t.chain = s.chain /\ t.cluster = s.cluster /\ t.link = s.link
            /\ (Openable(s) => Openable(t)) /\ (Opening(t) <=> Opening(s))
            /\ (Become(s) => Become(t))
<1> DEFINE t == InPage(s, p)
<1>1. s \in States BY DEF Base
<1>2. /\ t \in States /\ t.page = p /\ t.bus = s.bus /\ t.chain = s.chain /\ t.ops = s.ops
      /\ t.link = s.link /\ t.cluster = s.cluster
  BY <1>1 DEF InPage, States
<1> HIDE DEF t
<1>3. Flying(t) = Flying(s) /\ Idle(t) = Idle(s) /\ Garbage(t) = Garbage(s)
      /\ (Opening(t) <=> Opening(s)) /\ Latest(t) = Latest(s)
  BY <1>2 DEF Flying, Idle, Garbage, Opening, Latest
<1>4. \A c : (Done(t, c) <=> Done(s, c)) /\ (Alive(t, c) <=> Alive(s, c)) BY <1>2 DEF Done, Alive
<1>5. Counted(t) /\ Chained(t) /\ Named(t) BY <1>2, <1>4 DEF Base, Counted, Chained, Named
<1>6. Queued(t)
  <2>1. \A c \in Chains : Head(t, c) <=> Head(s, c) BY <1>2, <1>4 DEF Head
  <2>2. \A pos : Placed(s, pos) => Placed(t, pos)
    BY <2>1, <1>2, <1>3 DEF Placed, Flying
  <2> QED BY <2>2 DEF Base, Queued
<1>7. /\ StopsAreStops(t) /\ CurrentIsOpen(t) /\ Phased(t) /\ OpeningIsCurrent(t)
      /\ ReadyRests(t) /\ RuntimeOff(t) /\ GateIsOurs(t)
  BY <1>2, <1>3 DEF Base, StopsAreStops, CurrentIsOpen, Phased, OpeningIsCurrent, ReadyRests,
                    RuntimeOff, GateIsOurs, Hushed
<1>8. Torn(t) /\ Dark(t) BY <1>2, <1>3, <1>4 DEF Base, Torn, Dark
<1>9. Base(t) BY <1>2, <1>5, <1>6, <1>7, <1>8 DEF Base
<1>10. At(t) = At(s) BY <1>2 DEF At
<1>11. Core(s) => Core(t)
  BY <1>2, <1>3, <1>9, <1>10 DEF Core, Runs, WaitsWell, UsesWell, Using, LostIsTold, Kept, Hushed
<1>12. (Bound(s) => Bound(t)) /\ (Gates(s) => Gates(t)) BY <1>2 DEF Bound, Gates, Pauses
<1>13. Openable(s) => Openable(t) BY <1>2 DEF Openable
<1>14. Become(s) => Become(t) BY <1>2, <1>3 DEF Become
<1> QED BY <1>2, <1>3, <1>9, <1>11, <1>12, <1>13, <1>14 DEF t

\* A bounded step that does nothing but change the page.
LEMMA TurnsKeep ==
  ASSUME Inv, Move(Here, "ignore"), page' \in Pages
  PROVE  Inv'
<1>1. Core(Here) /\ Bound(Here) /\ Base(Here) BY DEF Inv, Core
<1> DEFINE t == InPage(Here, page')
<1>2. Become(Here) BY DEF Move
<1> HIDE DEF Here
<1>3. Core(t) /\ Bound(t) /\ t.page = page' /\ Become(t) BY <1>1, <1>2, InPageKeeps
<1> HIDE DEF t
<1> QED BY <1>3, BecomeKeeps

\* visibilitychange.
LEMMA VisibilityChangeKeeps ==
  ASSUME Inv, VisibilityChange
  PROVE  Inv'
  BY TurnsKeep DEF VisibilityChange, Pages

\* pagehide of a runtime that runs: whatever the application does when it is
\* told of an opening that the hand-off begins, or of the hide, the bus ends up
\* suspended or stopping.
LEMMA HidesKeep ==
  ASSUME NEW s, Core(s), Bound(s), s.cluster.running, NEW T \in SUBSET Topics,
         NEW r, Room(s, 4)
  PROVE  LET C == [s.cluster EXCEPT !.running = FALSE, !.paused = TRUE]
             u == UnsubscribeTransport(InPage(Running(s, C), "gone"), T, r)
             t == SuspendTransport(Assigning(u, {}), r)
         IN Core(t) /\ Bound(t) /\ t.page = "gone"
<1> DEFINE C == [s.cluster EXCEPT !.running = FALSE, !.paused = TRUE]
           p == Running(s, C)
           q == InPage(p, "gone")
           u == UnsubscribeTransport(q, T, r)
           v == Assigning(u, {})
           t == SuspendTransport(v, r)
<1>1. s \in States /\ Base(s) BY DEF Core, Base
<1>2. s.bus.started /\ ~s.bus.stopping BY <1>1 DEF Base, RuntimeOff
<1>3. C \in Clusters /\ C.running = FALSE /\ C.paused = TRUE /\ C.listening = TRUE
  BY <1>1 DEF States, Clusters, Bound, Pauses
<1> HIDE DEF C
<1>4. Core(p) /\ Idle(p) = Idle(s) /\ p.cluster = C /\ p.bus = s.bus
  BY <1>1, <1>2, <1>3, RunningKeeps
<1> HIDE DEF p
<1>5. Core(q) /\ Idle(q) = Idle(p) /\ q.cluster = C /\ q.bus = s.bus /\ q.page = "gone"
  BY <1>4, InPageKeeps DEF Core, Pages
<1> HIDE DEF q
<1>6. Room(q, 3 + 1) BY <1>4, <1>5 DEF Room
<1>7. Remains(q, u) /\ Room(u, 3) BY <1>5, <1>6, TransportKeeps
<1> HIDE DEF u
<1>8. Core(u) /\ u.page = "gone" /\ (u.bus.stopping \/ u.cluster = C) BY <1>5, <1>7 DEF Remains
<1>9. /\ Core(v) /\ Idle(v) = Idle(u) /\ v.page = u.page /\ v.bus = u.bus
      /\ v.cluster.running = u.cluster.running /\ v.cluster.listening = u.cluster.listening
      /\ v.cluster.paused = u.cluster.paused
  BY <1>8, AssigningKeeps
<1> HIDE DEF v
<1>10. CASE v.bus.stopping
  <2>1. t = v BY <1>10 DEF SuspendTransport
  <2>2. Bound(v) BY <1>9, <1>10, StoppingIsBound DEF Core
  <2> QED BY <2>1, <2>2, <1>8, <1>9 DEF t, v, u, q, p, C
<1>11. CASE ~v.bus.stopping
  <2>1. ~v.cluster.running /\ v.cluster.listening /\ v.cluster.paused
    BY <1>3, <1>8, <1>9, <1>11
  <2>2. Base(v) /\ v.bus.started BY <2>1, <1>9 DEF Core, Base, RuntimeOff
  <2>3. v.page # "visible" BY <1>8, <1>9
  <2>4. Room(v, 0 + 3) BY <1>7, <1>9 DEF Room
  <2>5. v.cluster.listening <=> v.cluster.paused BY <2>1
  <2>6. Core(t) /\ Bound(t) /\ t.page = v.page
    BY <2>1, <2>2, <2>3, <2>4, <2>5, <1>11, SuspendKeeps
  <2> QED BY <2>6, <1>8, <1>9 DEF t, v, u, q, p, C
<1> QED BY <1>10, <1>11

\* pagehide.
LEMMA PageHideKeeps ==
  ASSUME Inv, NEW handed \in SUBSET cluster.assigned, NEW r, PageHide(handed, r)
  PROVE  Inv'
<1>1. Core(Here) /\ Bound(Here) /\ Here.cluster = cluster /\ Here \in States
  BY DEF Inv, Core, Base, Here
<1>2. cluster \in Clusters BY <1>1 DEF States
<1>3. CASE cluster.running
  <2> DEFINE C == [cluster EXCEPT !.running = FALSE, !.paused = TRUE]
             u == UnsubscribeTransport(InPage(Running(Here, C), "gone"), handed, r)
             t == SuspendTransport(Assigning(u, {}), r)
  <2>1. [Here EXCEPT !.cluster.running = FALSE, !.cluster.paused = TRUE, !.page = "gone"]
          = InPage(Running(Here, C), "gone")
    BY DEF Here, InPage, Running
  <2>2. Move(t, r) /\ page' = "gone" BY <1>3, <2>1 DEF PageHide, Assigning
  <2>3. Room(Here, 4) BY <2>2, StepHasRoom
  <2>4. handed \in SUBSET Topics BY <1>2 DEF Clusters
  <2>5. Core(t) /\ Bound(t) /\ t.page = "gone" BY <1>1, <1>3, <2>3, <2>4, HidesKeep
  <2> QED BY <2>2, <2>5, MoveKeeps
<1>4. CASE ~cluster.running
  <2>1. cluster.paused = cluster.listening BY <1>1, <1>2, <1>4 DEF Bound, Pauses, Clusters
  <2>2. [Here EXCEPT !.cluster.paused = cluster.listening] = Here
    BY <1>2, <2>1 DEF Here, Clusters
  <2>3. Move(Here, "ignore") /\ page' \in Pages BY <1>4, <2>2 DEF PageHide, Pages
  <2> QED BY <2>3, TurnsKeep
<1> QED BY <1>3, <1>4

\* pageshow of a runtime that was paused: the bus resumes, unless the
\* application stops it when it is told so.
LEMMA ShowsKeep ==
  ASSUME NEW s, Core(s), Bound(s), s.cluster.paused, NEW r, Room(s, 4)
  PROVE  LET u == Reopen(InPage(Running(s, [s.cluster EXCEPT !.paused = FALSE]), "visible"), FALSE, r)
             t == Running(u, [u.cluster EXCEPT !.running = @ \/ u.cluster.listening])
         IN Core(t) /\ Bound(t) /\ t.page = "visible"
<1> DEFINE C == [s.cluster EXCEPT !.paused = FALSE]
           p == Running(s, C)
           q == InPage(p, "visible")
           u == Reopen(q, FALSE, r)
           D == [u.cluster EXCEPT !.running = @ \/ u.cluster.listening]
           t == Running(u, D)
<1>1. s \in States /\ Base(s) BY DEF Core, Base
<1>2. s.bus.started /\ ~s.bus.stopping /\ s.bus.suspended /\ s.bus.config
  BY <1>1 DEF Base, RuntimeOff, Bound, Pauses, Phased
<1>3. C \in Clusters /\ C.running = FALSE /\ C.paused = FALSE /\ C.listening = TRUE
  BY <1>1 DEF States, Clusters, Bound, Pauses
<1> HIDE DEF C
<1>4. Core(p) /\ Gates(p) /\ Idle(p) = Idle(s) /\ p.cluster = C /\ p.bus = s.bus
  BY <1>1, <1>2, <1>3, RunningKeeps DEF Bound
<1> HIDE DEF p
<1>5. /\ Base(q) /\ Gates(q) /\ Idle(q) = Idle(p) /\ q.cluster = C /\ q.bus = s.bus
      /\ q.page = "visible"
  BY <1>4, InPageKeeps DEF Core, Pages
<1> HIDE DEF q
<1>6. Room(q, 3 + 1) BY <1>4, <1>5 DEF Room
<1>7. q.bus.startPromise = q.bus.pendingStop /\ q.bus.pendingStop # None
  BY <1>2, <1>5 DEF Gates
<1>8. ~Settled(q) /\ Openable(q) BY <1>2, <1>5, <1>7 DEF Settled, Opening, Openable
<1>9. Begun(q, u) BY <1>5, <1>6, <1>8, ReopenKeeps
<1> HIDE DEF u
<1>10. /\ Core(u) /\ u.page = "visible"
       /\ u.bus.stopping \/ (u.bus.started /\ ~u.bus.suspended /\ u.cluster = C)
  BY <1>5, <1>8, <1>9 DEF Begun
<1>11. u \in States /\ Base(u) /\ u.cluster \in Clusters BY <1>10 DEF Core, Base, States
<1>12. CASE u.bus.stopping
  <2>1. u.cluster.running = FALSE /\ u.cluster.listening = FALSE
    BY <1>11, <1>12 DEF Base, RuntimeOff, Clusters
  <2>2. D = u.cluster BY <2>1, <1>11 DEF Clusters
  <2>3. t = u BY <2>2, <1>11 DEF Running, States
  <2>4. Bound(u) BY <1>11, <1>12, StoppingIsBound
  <2> QED BY <2>3, <2>4, <1>10 DEF u, q, p, C
<1>13. CASE ~u.bus.stopping
  <2>1. u.bus.started /\ ~u.bus.suspended /\ u.cluster = C BY <1>10, <1>13
  <2>2. /\ D \in Clusters /\ D.running = TRUE /\ D.listening = TRUE /\ D.paused = FALSE
    BY <2>1, <1>3 DEF Clusters
  <2> HIDE DEF D
  <2>3. Core(t) /\ t.cluster = D /\ t.bus = u.bus /\ t.page = u.page
    BY <2>1, <2>2, <1>10, <1>11, <1>13, RunningKeeps
  <2>4. Bound(t) BY <2>1, <2>2, <2>3 DEF Bound, Gates, Pauses
  <2> QED BY <2>3, <2>4, <1>10 DEF t, D, u, q, p, C
<1> QED BY <1>12, <1>13

\* pageshow.
LEMMA PageShowKeeps ==
  ASSUME Inv, NEW r, PageShow(r)
  PROVE  Inv'
<1>1. Core(Here) /\ Bound(Here) /\ Here.cluster = cluster BY DEF Inv, Here
<1>2. CASE cluster.paused
  <2> DEFINE u == Reopen(InPage(Running(Here, [cluster EXCEPT !.paused = FALSE]), "visible"), FALSE, r)
             t == Running(u, [u.cluster EXCEPT !.running = @ \/ u.cluster.listening])
  <2>1. [Here EXCEPT !.cluster.paused = FALSE, !.page = "visible"]
          = InPage(Running(Here, [cluster EXCEPT !.paused = FALSE]), "visible")
    BY DEF Here, InPage, Running
  <2>2. Move(t, r) /\ page' = "visible" BY <1>2, <2>1 DEF PageShow, Running
  <2>3. Room(Here, 4)
    <3> HIDE DEF t
    <3> QED BY <2>2, StepHasRoom
  <2>4. Core(t) /\ Bound(t) /\ t.page = "visible" BY <1>1, <1>2, <2>3, ShowsKeep
  <2> QED BY <2>2, <2>4, MoveKeeps
<1>3. CASE ~cluster.paused
  BY <1>3, TurnsKeep DEF PageShow, Pages
<1> QED BY <1>2, <1>3

----------------------------------------------------------------------------
(* The steps: the transport and the clock.                                 *)

\* s with another state of the transport.
Linked(s, l) == [s EXCEPT !.link = l]

\* A connection opens, ends, or is dialled again: a transport that was fit for
\* a new opening still is.
Turns(l, k) ==
  /\ k \in Links(Topics) /\ k.kind = l.kind /\ (k.live => l.live)
  /\ k.kind = "websocket" /\ k.live => k.phase # "closed"
  /\ Able(l) => Able(k)
  /\ l.kind = "worker" /\ l.phase = "closed" => k.phase = "closed"

\* Nothing else depends on it.
LEMMA LinkedKeeps ==
  ASSUME NEW s, Core(s), Bound(s), NEW l, Turns(s.link, l)
  PROVE  LET t == Linked(s, l)
         IN Core(t) /\ Bound(t) /\ Idle(t) = Idle(s) /\ t.page = s.page /\ t.link = l
            /\ t.bus = s.bus
<1> DEFINE t == Linked(s, l)
<1>1. s \in States BY DEF Core, Base
<1>2. /\ t \in States /\ t.link = l /\ t.page = s.page /\ t.bus = s.bus /\ t.chain = s.chain
      /\ t.ops = s.ops /\ t.cluster = s.cluster
  BY <1>1 DEF Linked, States, Turns
<1> HIDE DEF t
<1>3. /\ l.kind = s.link.kind /\ (l.live => s.link.live)
      /\ l.kind = "websocket" /\ l.live => l.phase # "closed"
      /\ Able(s.link) => Able(l)
      /\ s.link.kind = "worker" /\ s.link.phase = "closed" => l.phase = "closed"
  BY DEF Turns
<1>4. Flying(t) = Flying(s) /\ Idle(t) = Idle(s) /\ Latest(t) = Latest(s)
  BY <1>2 DEF Flying, Idle, Latest
<1>5. \A c : (Done(t, c) <=> Done(s, c)) /\ (Alive(t, c) <=> Alive(s, c)) BY <1>2 DEF Done, Alive
<1>6. Counted(t) /\ Chained(t) /\ Named(t)
  BY <1>2, <1>5 DEF Core, Base, Counted, Chained, Named
<1>7. Queued(t)
  <2>1. \A c \in Chains : Head(t, c) <=> Head(s, c) BY <1>2, <1>5 DEF Head
  <2>2. \A pos : Placed(s, pos) => Placed(t, pos) BY <2>1, <1>2, <1>4 DEF Placed, Flying
  <2> QED BY <2>2 DEF Core, Base, Queued
<1>8. /\ StopsAreStops(t) /\ CurrentIsOpen(t) /\ Phased(t) /\ OpeningIsCurrent(t)
      /\ ReadyRests(t) /\ RuntimeOff(t) /\ GateIsOurs(t)
  BY <1>2, <1>4 DEF Core, Base, StopsAreStops, CurrentIsOpen, Phased, OpeningIsCurrent,
                    ReadyRests, RuntimeOff, GateIsOurs, Hushed
<1>9. Torn(t) /\ Dark(t) BY <1>2, <1>3, <1>4, <1>5 DEF Core, Base, Torn, Dark
<1>10. Base(t) BY <1>2, <1>6, <1>7, <1>8, <1>9 DEF Base
<1>11. At(t) = At(s) BY <1>2 DEF At
<1>12. Runs(t)
  <2>1. WaitsWell(t) BY <1>2, <1>3, <1>11 DEF Core, Runs, WaitsWell
  <2>2. UsesWell(t) BY <1>2, <1>3, <1>11 DEF Core, Runs, UsesWell, Using
  <2> QED BY <2>1, <2>2 DEF Runs
<1>13. Core(t) BY <1>2, <1>4, <1>10, <1>12 DEF Core, LostIsTold, Kept, Hushed
<1>14. Bound(t) BY <1>2 DEF Bound, Gates, Pauses
<1> QED BY <1>2, <1>4, <1>13, <1>14 DEF t

\* The handlers of the current epoch pass a status on.
LEMMA ReportKeeps ==
  ASSUME NEW s, Core(s), Bound(s), NEW status \in Statuses,
         status \in {"error", "disconnected"} => Able(s.link), NEW r, Room(s, 3)
  PROVE  LET t == Report(s, status, r)
         IN Core(t) /\ Bound(t) /\ t.page = s.page
<1>1. CASE ~s.bus.heard
  <2>1. Report(s, status, r) = s BY <1>1 DEF Report
  <2> QED BY <2>1
<1>2. CASE s.bus.heard
  <2>1. PICK q : Report(s, status, r) = UpdateStatus(s, status, q) BY <1>2 DEF Report
  <2> DEFINE t == UpdateStatus(s, status, q)
  <2>2. At(s) # "waiting" BY <1>2 DEF Core, Runs, WaitsWell
  <2>3. Using(s) => /\ s.bus.pendingStop = None
                    /\ status \in {"error", "disconnected"} => Able(s.link)
                    /\ s.bus.heard \/ (s.link.kind = "worker" /\ s.link.phase = "closed")
    BY DEF Core, Runs, UsesWell
  <2>4. ~s.bus.suspended BY <1>2 DEF Core, Base, CurrentIsOpen, Hushed
  <2>5. Room(s, 0 + 3) OBVIOUS
  <2>6. Core(t) /\ Bound(t) /\ t.page = s.page
    BY <2>2, <2>3, <2>4, <2>5, UpdateStatusKeeps DEF Core
  <2> QED BY <2>1, <2>6
<1> QED BY <1>1, <1>2

\* What the events do to the transport.
LEMMA EventsTurn ==
  ASSUME NEW l \in Links(Topics), l.kind = "websocket" /\ l.live => l.phase # "closed"
  PROVE  /\ CanOpen(l) => Turns(l, Opened(l))
         /\ CanClose(l) => Turns(l, Closed(l)) /\ Able(Closed(l))
         /\ CanBreak(l) => Turns(l, Broken(l)) /\ Able(Broken(l))
         /\ CanRedial(l) => Turns(l, Redialed(l))
<1>1. \A x \in {"ok", "failed"} : Answer(l, x) \in {"pending", "ok", "failed"}
  BY DEF Answer, Links
<1>2. CanOpen(l) => Turns(l, Opened(l))
  BY <1>1 DEF CanOpen, Opened, Turns, Able, Links
<1>3. CanClose(l) => Turns(l, Closed(l)) /\ Able(Closed(l))
  BY <1>1 DEF CanClose, Closed, Turns, Able, Links, Kinds
<1>4. CanBreak(l) => Turns(l, Broken(l)) /\ Able(Broken(l))
  BY <1>1 DEF CanBreak, Broken, Turns, Able, Links
<1>5. CanRedial(l) => Turns(l, Redialed(l))
  BY DEF CanRedial, Redialed, Turns, Able, Links
<1> QED BY <1>2, <1>3, <1>4, <1>5

\* An event of the transport.
LEMMA EventKeeps ==
  ASSUME Inv, NEW l, Turns(link, l), NEW status \in Statuses,
         status \in {"error", "disconnected"} => Able(l), NEW r, Room(Here, 3)
  PROVE  LET t == Report(Linked(Here, l), status, r)
         IN Core(t) /\ Bound(t) /\ t.page = page
<1> DEFINE s == Linked(Here, l)
<1>1. Core(Here) /\ Bound(Here) /\ Here.link = link /\ Here.page = page BY DEF Inv, Here
<1>2. Core(s) /\ Bound(s) /\ Idle(s) = Idle(Here) /\ s.page = page /\ s.link = l
  BY <1>1, LinkedKeeps
<1> HIDE DEF s
<1>3. Room(s, 3) BY <1>2 DEF Room
<1>4. LET t == Report(s, status, r) IN Core(t) /\ Bound(t) /\ t.page = s.page
  BY <1>2, <1>3, ReportKeeps
<1> QED BY <1>2, <1>4 DEF s

\* The connection opens, closes, breaks, or dials again.
LEMMA TransportEventsKeep ==
  ASSUME Inv, NEW r, Opens(r) \/ Closes(r) \/ Breaks(r) \/ Redials(r)
  PROVE  Inv'
<1> DEFINE T(l, status) == Report(Linked(Here, l), status, r)
<1>1. link \in Links(Topics) /\ (link.kind = "websocket" /\ link.live => link.phase # "closed")
  BY DEF Inv, Core, Base, States, Dark, Here
<1>2. \A s : Fault(s, r) => Step(s, r) \/ Move(s, r) \/ Fault(s, r) OBVIOUS
<1>3. CASE Opens(r)
  <2>1. CanOpen(link) /\ Step(T(Opened(link), "connected"), r)
    BY <1>3 DEF Opens, Linked, Here
  <2> HIDE DEF T
  <2>2. Room(Here, 3) BY <2>1, StepHasRoom
  <2>3. Turns(link, Opened(link)) BY <1>1, <2>1, EventsTurn
  <2>4. "connected" \in Statuses BY DEF Statuses
  <2>5. LET t == T(Opened(link), "connected") IN Core(t) /\ Bound(t) /\ t.page = page
    BY <2>2, <2>3, <2>4, EventKeeps DEF T
  <2> QED BY <2>1, <2>5, StepKeeps
<1>4. CASE Closes(r)
  <2>1. CanClose(link) /\ Fault(T(Closed(link), "disconnected"), r)
    BY <1>4 DEF Closes, Linked, Here
  <2> HIDE DEF T
  <2>2. Room(Here, 3) BY <2>1, StepHasRoom
  <2>3. Turns(link, Closed(link)) /\ Able(Closed(link)) BY <1>1, <2>1, EventsTurn
  <2>4. "disconnected" \in Statuses BY DEF Statuses
  <2>5. LET t == T(Closed(link), "disconnected") IN Core(t) /\ Bound(t) /\ t.page = page
    BY <2>2, <2>3, <2>4, EventKeeps DEF T
  <2> QED BY <2>1, <2>5, FaultKeeps
<1>5. CASE Breaks(r)
  <2>1. CanBreak(link) /\ Fault(T(Broken(link), "error"), r)
    BY <1>5 DEF Breaks, Linked, Here
  <2> HIDE DEF T
  <2>2. Room(Here, 3) BY <2>1, StepHasRoom
  <2>3. Turns(link, Broken(link)) /\ Able(Broken(link)) BY <1>1, <2>1, EventsTurn
  <2>4. "error" \in Statuses BY DEF Statuses
  <2>5. LET t == T(Broken(link), "error") IN Core(t) /\ Bound(t) /\ t.page = page
    BY <2>2, <2>3, <2>4, EventKeeps DEF T
  <2> QED BY <2>1, <2>5, FaultKeeps
<1>6. CASE Redials(r)
  <2>1. CanRedial(link) /\ Fault(T(Redialed(link), "connecting"), r)
    BY <1>6 DEF Redials, Linked, Here
  <2> HIDE DEF T
  <2>2. Room(Here, 3) BY <2>1, StepHasRoom
  <2>3. Turns(link, Redialed(link)) BY <1>1, <2>1, EventsTurn
  <2>4. "connecting" \in Statuses BY DEF Statuses
  <2>5. LET t == T(Redialed(link), "connecting") IN Core(t) /\ Bound(t) /\ t.page = page
    BY <2>2, <2>3, <2>4, EventKeeps DEF T
  <2> QED BY <2>1, <2>5, FaultKeeps
<1> QED BY <1>3, <1>4, <1>5, <1>6

\* The timer and the cooldown.
Ticks(s, t) ==
  /\ t \in States /\ Soft(s, t) /\ Counted(t)
  /\ t.bus.status = s.bus.status /\ t.bus.lastError = s.bus.lastError
  /\ t.bus.gate = s.bus.gate /\ t.bus.demand = s.bus.demand /\ t.bus.cooled = TRUE

\* They concern only the gate: without its timer it needs another keeper.
LEMMA TicksKeep ==
  ASSUME NEW s, Base(s), NEW t, Ticks(s, t)
  PROVE  /\ Base(t) /\ (Runs(s) => Runs(t)) /\ (LostIsTold(s) => LostIsTold(t))
         /\ (Bound(s) => Bound(t)) /\ (Kept(s) /\ t.bus.timer = s.bus.timer => Kept(t))
<1>1. GateIsOurs(t) BY DEF Ticks, Soft, Base, GateIsOurs, Hushed
<1>2. Base(t) BY <1>1, SoftBase DEF Ticks
<1>3. At(t) = At(s) /\ (Using(t) <=> Using(s)) BY DEF Ticks, Soft, At, Using
<1>4. Able(t.link) <=> Able(s.link) BY DEF Ticks, Soft, Able
<1>5. Runs(s) => Runs(t)
  BY <1>3, <1>4 DEF Ticks, Soft, Runs, WaitsWell, UsesWell
<1>6. LostIsTold(s) => LostIsTold(t) BY DEF Ticks, Soft, LostIsTold, Hushed
<1>7. Bound(s) => Bound(t) BY DEF Ticks, Soft, Bound, Gates, Pauses
<1>8. Kept(s) /\ t.bus.timer = s.bus.timer => Kept(t)
  BY DEF Ticks, Soft, Kept, Flying
<1> QED BY <1>2, <1>5, <1>6, <1>7, <1>8

\* The cooldown ends.
LEMMA ElapseKeeps ==
  ASSUME Inv, Elapse
  PROVE  Inv'
<1> DEFINE t == [Here EXCEPT !.bus.cooled = TRUE]
<1>1. Base(Here) /\ Here \in States BY DEF Inv, Core, Base
<1>2. /\ t \in States /\ t.chain = Here.chain /\ t.ops = Here.ops /\ t.link = Here.link
      /\ t.cluster = Here.cluster /\ t.page = Here.page
      /\ t.bus = [Here.bus EXCEPT !.cooled = TRUE]
  BY <1>1 DEF States, Buses
<1>3. Here' = t
  <2> DEFINE b == [bus EXCEPT !.cooled = TRUE]
  <2>1. t = [Here EXCEPT !.bus = b] BY DEF Here
  <2>2. bus' = b BY DEF Elapse
  <2> HIDE DEF b, t
  <2> QED BY <2>1, <2>2 DEF Elapse, Here
<1> HIDE DEF t, Here
<1>4. /\ t.bus.limit = Here.bus.limit /\ t.bus.started = Here.bus.started
      /\ t.bus.stopping = Here.bus.stopping /\ t.bus.suspended = Here.bus.suspended
      /\ t.bus.status = Here.bus.status /\ t.bus.ready = Here.bus.ready
      /\ t.bus.config = Here.bus.config /\ t.bus.current = Here.bus.current
      /\ t.bus.heard = Here.bus.heard
  BY <1>1, <1>2 DEF States, Buses
<1>5. /\ t.bus.startPromise = Here.bus.startPromise
      /\ t.bus.pendingStop = Here.bus.pendingStop
      /\ t.bus.down = Here.bus.down /\ t.bus.gate = Here.bus.gate
      /\ t.bus.demand = Here.bus.demand /\ t.bus.timer = Here.bus.timer
      /\ t.bus.cooled = TRUE /\ t.bus.attempt = Here.bus.attempt
      /\ t.bus.lastError = Here.bus.lastError
  BY <1>1, <1>2 DEF States, Buses
<1>6. Soft(Here, t) BY <1>1, <1>2, <1>4, <1>5 DEF Soft, Base, Named
<1>7. Ticks(Here, t) BY <1>1, <1>2, <1>4, <1>5, <1>6 DEF Ticks, Base, Counted
<1>8. Core(t) /\ Bound(t) BY <1>1, <1>5, <1>7, TicksKeep DEF Inv, Core
<1> QED BY <1>3, <1>8 DEF Inv

----------------------------------------------------------------------------
\* The timer has fired.
Fired(s) == [s EXCEPT !.bus.timer = FALSE]

\* It ticked, and began nothing yet.
LEMMA FiredTicks ==
  ASSUME NEW s, Base(s), s.bus.cooled
  PROVE  Ticks(s, Fired(s)) /\ Idle(Fired(s)) = Idle(s)
<1> DEFINE t == Fired(s)
           b == [s.bus EXCEPT !.timer = FALSE]
<1>1. s \in States BY DEF Base
<1>2. b \in Buses /\ t = [s EXCEPT !.bus = b] BY <1>1 DEF Fired, States, Buses
<1>3. /\ b.limit = s.bus.limit /\ b.started = s.bus.started
      /\ b.stopping = s.bus.stopping /\ b.suspended = s.bus.suspended
      /\ b.status = s.bus.status /\ b.ready = s.bus.ready
      /\ b.config = s.bus.config /\ b.current = s.bus.current /\ b.heard = s.bus.heard
  BY <1>1 DEF States, Buses
<1>4. /\ b.startPromise = s.bus.startPromise /\ b.pendingStop = s.bus.pendingStop
      /\ b.down = s.bus.down /\ b.gate = s.bus.gate /\ b.demand = s.bus.demand
      /\ b.cooled = TRUE /\ b.attempt = s.bus.attempt /\ b.lastError = s.bus.lastError
  BY <1>1 DEF States, Buses
<1> HIDE DEF b, t
<1>5. /\ t \in States /\ t.bus = b /\ t.chain = s.chain /\ t.ops = s.ops /\ t.link = s.link
      /\ t.cluster = s.cluster /\ t.page = s.page
  BY <1>1, <1>2 DEF States
<1>6. Soft(s, t) BY <1>3, <1>4, <1>5 DEF Soft, Base, Named
<1>7. Ticks(s, t) BY <1>3, <1>4, <1>5, <1>6 DEF Ticks, Base, Counted
<1>8. Idle(t) = Idle(s) BY <1>5 DEF Idle
<1> QED BY <1>7, <1>8 DEF t

\* The opening that the timer begins, or finds in flight, keeps the gate from
\* then on.
LEMMA RecoveryKeeps ==
  ASSUME NEW s, Base(s), Runs(s), LostIsTold(s), Bound(s), Openable(s) \/ Opening(s),
         s.bus.started, ~Hushed(s), NEW r, Room(s, 1)
  PROVE  LET t == Attach(Reopen(s, TRUE, r), "recovery")
         IN Core(t) /\ Bound(t) /\ t.page = s.page
<1> DEFINE u == Reopen(s, TRUE, r)
           t == Attach(u, "recovery")
<1>1. s.bus.config /\ ~s.bus.stopping /\ ~s.bus.suspended BY DEF Base, Phased, Hushed
<1>2. "recovery" \in Handlers /\ "recovery" # "watch" BY DEF Handlers
<1>3. CASE Opening(s)
  <2>1. u = s BY <1>3 DEF Reopen
  <2>2. s.bus.startPromise # None /\ s.chain[s.bus.startPromise].kind = "open"
    BY <1>3, ActiveIsOpen DEF Opening
  <2> DEFINE v == Attach(s, "recovery")
  <2>3. /\ Base(v) /\ Runs(v) /\ LostIsTold(v) /\ Kept(v)
        /\ v.bus = s.bus /\ v.cluster = s.cluster /\ v.page = s.page
    BY <1>2, <2>2, AttachKeeps
  <2> HIDE DEF v
  <2>4. Core(v) /\ Bound(v) BY <2>3 DEF Core, Bound, Gates, Pauses
  <2>5. t = v BY <2>1 DEF v
  <2> QED BY <2>3, <2>4, <2>5
<1>4. CASE ~Opening(s)
  <2>1. ~Settled(s) BY <1>1, <1>4 DEF Settled
  <2>2. Room(s, 0 + 1) /\ TRUE \in BOOLEAN OBVIOUS
  <2>3. Begun(s, u) BY <2>1, <2>2, ReopenKeeps
  <2> HIDE DEF u
  <2>4. Core(u) /\ u.page = s.page BY <1>4, <2>3 DEF Begun
  <2>5. u.bus.startPromise # None /\ u.chain[u.bus.startPromise].kind = "open" BY <2>3 DEF Begun
  <2>6. /\ Base(t) /\ Runs(t) /\ LostIsTold(t) /\ Kept(t)
        /\ t.bus = u.bus /\ t.cluster = u.cluster /\ t.page = u.page
    BY <1>2, <2>4, <2>5, AttachKeeps DEF Core
  <2> HIDE DEF t
  <2>7. Core(t) BY <2>6 DEF Core
  <2>8. CASE t.bus.stopping
    <3>1. Bound(t) BY <2>6, <2>8, StoppingIsBound
    <3> QED BY <2>4, <2>6, <2>7, <3>1 DEF t, u
  <2>9. CASE ~t.bus.stopping
    <3>1. ~t.bus.suspended /\ t.cluster = s.cluster BY <2>3, <2>6, <2>9 DEF Begun
    <3>2. Bound(t) BY <1>1, <3>1 DEF Bound, Gates, Pauses
    <3> QED BY <2>4, <2>6, <2>7, <3>2 DEF t, u
  <2> QED BY <2>8, <2>9
<1> QED BY <1>3, <1>4

\* The recovery timer.
LEMMA RecoverKeeps ==
  ASSUME Inv, NEW r, Recover(r)
  PROVE  Inv'
<1> DEFINE f == Fired(Here)
           d == Demanding(f, FALSE)
<1>1. Core(Here) /\ Bound(Here) /\ Base(Here) /\ Here.page = page /\ Here.bus = bus
  BY DEF Inv, Core, Here
<1>2. bus.cooled BY DEF Recover
<1>3. Ticks(Here, f) /\ Idle(f) = Idle(Here) BY <1>1, <1>2, FiredTicks
<1>4. IF ~bus.stopping /\ bus.started /\ ~bus.suspended /\ bus.status = "error"
      THEN Step(Attach(Reopen(d, TRUE, r), "recovery"), r) ELSE Step(ReleaseGate(f), "ignore")
  BY DEF Recover, Fired, Demanding
<1> HIDE DEF f
<1>5. Base(f) /\ Runs(f) /\ LostIsTold(f) /\ Bound(f) BY <1>1, <1>3, TicksKeep DEF Core
<1>6. /\ f.page = page /\ f.bus.started = bus.started /\ f.bus.stopping = bus.stopping
      /\ f.bus.suspended = bus.suspended /\ f.bus.startPromise = bus.startPromise
      /\ f.bus.pendingStop = bus.pendingStop /\ f.link.live = link.live
      /\ f.link.phase = link.phase
  BY <1>1, <1>3 DEF Ticks, Soft, Here
<1>7. CASE ~bus.stopping /\ bus.started /\ ~bus.suspended /\ bus.status = "error"
  <2>1. Step(Attach(Reopen(d, TRUE, r), "recovery"), r) BY <1>4, <1>7
  <2>2. FALSE \in BOOLEAN OBVIOUS
  <2>3. /\ Base(d) /\ Runs(d) /\ LostIsTold(d) /\ Idle(d) = Idle(f)
        /\ d.chain = f.chain /\ d.cluster = f.cluster /\ d.page = f.page /\ d.link = f.link
        /\ d.bus.started = f.bus.started /\ d.bus.stopping = f.bus.stopping
        /\ d.bus.suspended = f.bus.suspended
        /\ d.bus.startPromise = f.bus.startPromise /\ d.bus.pendingStop = f.bus.pendingStop
    BY <1>5, <2>2, DemandingKeeps
  <2>4. Openable(d) \/ Opening(d)
    <3>1. ~Hushed(Here) BY <1>1, <1>7 DEF Hushed
    <3>2. Opening(Here) \/ Openable(Here) BY <1>1, <1>7, <3>1, LostIsOpenable
    <3>3. Opening(Here) => Opening(d) BY <1>1, <1>6, <2>3 DEF Opening
    <3>4. Openable(Here) => Openable(d) BY <1>1, <1>6, <2>3 DEF Openable, Able, Here
    <3> QED BY <3>2, <3>3, <3>4
  <2> HIDE DEF d
  <2>5. Bound(d) BY <1>5, <2>3 DEF Bound, Gates, Pauses
  <2>6. Room(d, 1)
    <3>1. \E t : Step(t, r) BY <2>1
    <3>2. Room(Here, 1) BY <3>1, StepHasRoom
    <3> QED BY <3>2, <1>3, <2>3 DEF Room
  <2>7. d.bus.started /\ ~Hushed(d) BY <1>6, <1>7, <2>3 DEF Hushed
  <2>8. LET t == Attach(Reopen(d, TRUE, r), "recovery")
        IN Core(t) /\ Bound(t) /\ t.page = d.page
    BY <2>3, <2>4, <2>5, <2>6, <2>7, RecoveryKeeps
  <2> QED BY <1>6, <2>1, <2>3, <2>8, StepKeeps
<1>8. CASE ~(~bus.stopping /\ bus.started /\ ~bus.suspended /\ bus.status = "error")
  <2>1. Step(ReleaseGate(f), "ignore") BY <1>4, <1>8
  <2>2. LET t == ReleaseGate(f)
        IN /\ Core(t) /\ t.page = f.page /\ (Gates(f) => Gates(t)) /\ (Pauses(f) => Pauses(t))
    BY <1>5, ReleaseKeeps
  <2> QED BY <1>5, <1>6, <2>1, <2>2, StepKeeps DEF Bound
<1> QED BY <1>7, <1>8

----------------------------------------------------------------------------
(* The steps: chains settle.                                               *)

\* A chain that settles, and what it leaves of bus.ready.
Voided(s, c, x, v) == [s EXCEPT !.chain = With(s.chain, c, x), !.bus.ready = v]

\* The first chain in flight settles, and it is not the current opening: only
\* the queue notices.
LEMMA VoidedKeeps ==
  ASSUME NEW s, Core(s), Bound(s), NEW c \in Flying(s), Head(s, c), c # s.bus.current,
         NEW x \in ChainRecords, Shaped(x), x.at \in {"ok", "failed"},
         x.kind = s.chain[c].kind, x.then = s.chain[c].then,
         x.kind = "stop" => ~s.link.live,
         NEW v \in BOOLEAN, v => s.bus.ready
  PROVE  LET t == Voided(s, c, x, v)
         IN Core(t) /\ Bound(t) /\ t.page = s.page
<1> DEFINE b == [s.bus EXCEPT !.ready = v]
           t == Voided(s, c, x, v)
<1>1. s \in States /\ Base(s) /\ c \in Chains BY DEF Core, Base, Flying
<1>2. b \in Buses /\ With(s.chain, c, x) \in [Chains -> ChainRecords]
  BY <1>1 DEF States, Buses, With
<1>3. t = [s EXCEPT !.chain = With(s.chain, c, x), !.bus = b] BY <1>1 DEF Voided, States, Buses
<1>4. /\ b.started = s.bus.started /\ b.stopping = s.bus.stopping
      /\ b.suspended = s.bus.suspended /\ b.status = s.bus.status
      /\ b.config = s.bus.config /\ b.current = s.bus.current /\ b.heard = s.bus.heard
      /\ b.startPromise = s.bus.startPromise /\ b.pendingStop = s.bus.pendingStop
  BY <1>1 DEF States, Buses
<1>5. /\ b.down = s.bus.down /\ b.limit = s.bus.limit /\ b.attempt = s.bus.attempt
      /\ b.gate = s.bus.gate /\ b.demand = s.bus.demand /\ b.timer = s.bus.timer
      /\ b.cooled = s.bus.cooled /\ b.lastError = s.bus.lastError /\ b.ready = v
  BY <1>1 DEF States, Buses
<1> HIDE DEF t, b
<1>6. /\ t \in States /\ t.bus = b /\ t.chain = With(s.chain, c, x) /\ t.ops = s.ops
      /\ t.link = s.link /\ t.cluster = s.cluster /\ t.page = s.page
  BY <1>1, <1>2, <1>3 DEF States
<1>7. t.chain[c] = x /\ \A d \in Chains \ {c} : t.chain[d] = s.chain[d]
  BY <1>1, <1>6 DEF With, States
<1>8. /\ Queued(t) /\ Flying(t) = Flying(s) \ {c}
  <2>1. t.chain = [s.chain EXCEPT ![c] = x] BY <1>6 DEF With
  <2>2. Latest(t) = Latest(s) BY <1>4, <1>6 DEF Latest
  <2>3. s.chain \in [Chains -> ChainRecords] /\ Queued(s) BY <1>1 DEF Base, States
  <2> QED BY <2>1, <2>2, <2>3, QueueSettles
<1>9. \A d : Alive(s, d) => Alive(t, d) BY <1>7 DEF Alive
<1>10. \A d : d \in Refs /\ Done(s, d) => Done(t, d) BY <1>7 DEF Done, Refs
<1>11. \A d : d \in Refs /\ d # c /\ Done(t, d) => Done(s, d) BY <1>7 DEF Done, Refs
<1>12. /\ s.bus.startPromise \in Refs /\ s.bus.pendingStop \in Refs /\ s.bus.current \in Refs
  BY <1>1 DEF States, Buses
<1>13. Chained(t) BY <1>1, <1>7 DEF Base, Chained
<1>14. Named(t)
  <2>1. Alive(t, None) BY DEF Alive, None, Chains
  <2>2. x.after = None BY DEF Shaped
  <2>3. \A d \in Chains : Alive(t, t.chain[d].after) BY <1>1, <1>7, <1>9, <2>1, <2>2 DEF Base, Named
  <2> QED BY <2>3, <1>1, <1>4, <1>5, <1>6, <1>9 DEF Base, Named
<1>15. ~s.bus.ready \/ s.bus.stopping BY <1>1 DEF Base, ReadyRests
<1>16. StopsAreStops(t) /\ CurrentIsOpen(t)
  BY <1>1, <1>4, <1>6, <1>7, <1>8, <1>12 DEF Base, StopsAreStops, CurrentIsOpen, Hushed, Refs
<1>17. Phased(t) BY <1>1, <1>4, <1>5, <1>6 DEF Base, Phased
<1>18. OpeningIsCurrent(t)
  <2> SUFFICES ASSUME s.bus.startPromise # None, ~Hushed(s),
                      t.chain[s.bus.startPromise].kind = "open"
               PROVE  s.bus.current = s.bus.startPromise /\ s.bus.startPromise \in Flying(t)
    BY <1>4, <1>6 DEF OpeningIsCurrent, Hushed
  <2>1. s.chain[s.bus.startPromise].kind = "open" BY <1>7, <1>12 DEF Refs
  <2>2. s.bus.current = s.bus.startPromise BY <1>1, <2>1 DEF Base, OpeningIsCurrent
  <2>3. s.bus.startPromise \in Flying(s)
    BY <1>1, <1>15, <2>1 DEF Base, OpeningIsCurrent, Hushed
  <2> QED BY <2>2, <2>3, <1>8
<1>19. Torn(t)
  <2>1. s.bus.down.at # "stopping" BY <1>1 DEF Base, Torn
  <2> QED BY <2>1, <1>1, <1>4, <1>5, <1>6, <1>10, <1>12 DEF Base, Torn
<1>20. Dark(t)
  <2>1. \A d \in Chains : t.chain[d].at = "stopping" => ~t.link.live
    BY <1>1, <1>6, <1>7 DEF Base, Dark
  <2>2. s.bus.pendingStop # None /\ Done(t, s.bus.pendingStop) => ~t.link.live
    <3>1. CASE s.bus.pendingStop = c
      <4>1. x.kind = "stop" BY <1>1, <3>1 DEF Base, StopsAreStops, Chains, None
      <4> QED BY <4>1, <1>6
    <3>2. CASE s.bus.pendingStop # c BY <3>2, <1>1, <1>6, <1>11, <1>12 DEF Base, Dark
    <3> QED BY <3>1, <3>2
  <2> QED BY <2>1, <2>2, <1>1, <1>4, <1>6 DEF Base, Dark
<1>21. ReadyRests(t) /\ RuntimeOff(t) /\ GateIsOurs(t)
  BY <1>1, <1>4, <1>5, <1>6, <1>15 DEF Base, ReadyRests, RuntimeOff, GateIsOurs, Hushed
<1>22. Base(t)
  BY <1>1, <1>5, <1>6, <1>8, <1>13, <1>14, <1>16, <1>17, <1>18, <1>19, <1>20, <1>21 DEF Base, Counted
<1>23. /\ At(t) = At(s)
       /\ s.bus.current # None => t.chain[s.bus.current] = s.chain[s.bus.current]
  BY <1>4, <1>6, <1>7, <1>12 DEF At, Refs
<1>24. Runs(t)
  <2>1. WaitsWell(t) BY <1>4, <1>6, <1>23 DEF Core, Runs, WaitsWell, At
  <2>2. UsesWell(t) BY <1>4, <1>5, <1>6, <1>15, <1>23 DEF Core, Runs, UsesWell, Using
  <2> QED BY <2>1, <2>2 DEF Runs
<1>25. LostIsTold(t)
  <2>1. s.bus.started /\ ~Hushed(s) /\ s.bus.startPromise = None
          => s.bus.lastError /\ s.bus.pendingStop # None
    BY <1>15 DEF Core, LostIsTold, Hushed
  <2> QED BY <2>1, <1>4, <1>5, <1>6 DEF LostIsTold, Hushed
<1>26. Kept(t)
  <2>1. s.bus.current \in Flying(s) => s.bus.current \in Flying(t) BY <1>8
  <2>2. \A d \in Chains : t.chain[d].then = s.chain[d].then BY <1>7
  <2> QED BY <2>1, <2>2, <1>4, <1>5, <1>6 DEF Core, Kept
<1>27. Bound(t) BY <1>4, <1>6 DEF Bound, Gates, Pauses
<1> QED BY <1>6, <1>22, <1>24, <1>25, <1>26, <1>27 DEF Core, t

----------------------------------------------------------------------------
\* The fields that a chain keeps when it settles or begins its call.
Turned(x, at) == [x EXCEPT !.after = None, !.at = at]

\* An opening that was superseded before it began.
Abandoned(s, c, i) ==
  Settle([[s EXCEPT !.chain[c].after = None] EXCEPT !.bus.ready = @ /\ i], c, "ok")

\* Settling a chain, in these terms.
LEMMA Voiding ==
  ASSUME NEW s \in States, NEW c \in Chains, NEW at
  PROVE  /\ \A i : Abandoned(s, c, i) = Voided(s, c, Turned(s.chain[c], "ok"), s.bus.ready /\ i)
         /\ s.chain[c].after = None
              => Settle(s, c, at) = Voided(s, c, Turned(s.chain[c], at), s.bus.ready)
<1>1. s.chain \in [Chains -> ChainRecords] /\ s.bus \in Buses /\ s.chain[c] \in ChainRecords
  BY DEF States
<1>2. ASSUME NEW i
      PROVE  Abandoned(s, c, i) = Voided(s, c, Turned(s.chain[c], "ok"), s.bus.ready /\ i)
  <2> DEFINE v == s.bus.ready /\ i
  <2>1. [[s EXCEPT !.chain[c].after = None] EXCEPT !.bus.ready = @ /\ i]
          = [s EXCEPT !.chain[c].after = None, !.bus.ready = v]
    BY DEF States
  <2> HIDE DEF v
  <2>2. Settle([s EXCEPT !.chain[c].after = None, !.bus.ready = v], c, "ok")
          = Voided(s, c, Turned(s.chain[c], "ok"), v)
    BY <1>1 DEF Settle, Voided, Turned, With, States
  <2> QED BY <2>1, <2>2 DEF Abandoned, v
<1>3. ASSUME s.chain[c].after = None
      PROVE  Settle(s, c, at) = Voided(s, c, Turned(s.chain[c], at), s.bus.ready)
  <2>1. Turned(s.chain[c], at) = [s.chain[c] EXCEPT !.at = at]
    BY <1>1, <1>3 DEF Turned, ChainRecords
  <2>2. [s.bus EXCEPT !.ready = s.bus.ready] = s.bus BY <1>1 DEF Buses
  <2>3. Settle(s, c, at) = [s EXCEPT !.chain = With(s.chain, c, [s.chain[c] EXCEPT !.at = at])]
    BY DEF Settle, With
  <2> QED BY <2>1, <2>2, <2>3 DEF Voided, States
<1> QED BY <1>2, <1>3

\* What it is then.
LEMMA TurnedIs ==
  ASSUME NEW x \in ChainRecords, Shaped(x),
         NEW at \in {"dialing", "stopping", "ok", "failed"},
         \/ x.kind = "open" /\ at # "stopping"
         \/ x.kind = "stop" /\ at \in {"stopping", "ok"}
  PROVE  /\ Turned(x, at) \in ChainRecords /\ Shaped(Turned(x, at))
         /\ Turned(x, at).at = at /\ Turned(x, at).after = None
         /\ Turned(x, at).kind = x.kind /\ Turned(x, at).then = x.then
         /\ Turned(x, at).initial = x.initial
  BY DEF Turned, ChainRecords, Shaped, None, Chains

\* The part of an opening that finds itself superseded.
LEMMA SupersededKeeps ==
  ASSUME Inv, NEW c \in Chains, NEW l, BeginOpen(c, l), Superseded(c)
  PROVE  Inv'
<1> DEFINE x == Turned(chain[c], "ok")
           v == bus.ready /\ chain[c].initial
           t == Voided(Here, c, x, v)
<1>1. /\ Core(Here) /\ Bound(Here) /\ Base(Here) /\ Here \in States
      /\ Here.page = page /\ Here.bus = bus /\ Here.chain = chain
  BY DEF Inv, Core, Base, Here
<1>2. chain[c] \in ChainRecords /\ Shaped(chain[c]) /\ bus \in Buses
  BY <1>1 DEF Base, Chained, States
<1>3. chain[c].kind = "open" /\ chain[c].at = "waiting" /\ Done(Here, chain[c].after)
  BY DEF BeginOpen
<1>4. Step(Abandoned(Here, c, chain[c].initial), "ignore") BY DEF BeginOpen, Abandoned
<1>5. chain[c].initial \in BOOLEAN /\ v \in BOOLEAN /\ (v => bus.ready)
  BY <1>2 DEF ChainRecords, Buses
<1>6. Step(t, "ignore") BY <1>1, <1>4, Voiding
<1>7. c \in Flying(Here) /\ Head(Here, c) BY <1>1, <1>3 DEF Flying, Head
<1>8. c # bus.current
  <2>1. Hushed(Here) => bus.current = None BY <1>1 DEF Base, CurrentIsOpen
  <2> QED BY <2>1, <1>1 DEF Superseded, Current, Hushed, Chains, None
<1>9. /\ x \in ChainRecords /\ Shaped(x) /\ x.at = "ok" /\ x.kind = "open"
      /\ x.then = chain[c].then
  BY <1>2, <1>3, TurnedIs
<1> HIDE DEF x, v
<1>10. Core(t) /\ Bound(t) /\ t.page = page
  BY <1>1, <1>3, <1>5, <1>7, <1>8, <1>9, VoidedKeeps
<1> QED BY <1>6, <1>10, StepKeeps

\* The end of an opening that was superseded while transport.start() ran.
LEMMA FinishOldKeeps ==
  ASSUME Inv, NEW c \in Chains, NEW r, FinishOpen(c, r), ~Current(c)
  PROVE  Inv'
<1> DEFINE x == Turned(chain[c], link.dial)
           t == Voided(Here, c, x, bus.ready)
<1>1. /\ Core(Here) /\ Bound(Here) /\ Base(Here) /\ Here \in States
      /\ Here.page = page /\ Here.bus = bus /\ Here.chain = chain /\ Here.link = link
  BY DEF Inv, Core, Base, Here
<1>2. chain[c] \in ChainRecords /\ Shaped(chain[c]) /\ bus \in Buses /\ link \in Links(Topics)
  BY <1>1 DEF Base, Chained, States
<1>3. /\ chain[c].at = "dialing" /\ link.dial # "pending" /\ c # bus.current
      /\ Step(Settle(Here, c, link.dial), "ignore")
  BY DEF FinishOpen, Current
<1>4. chain[c].kind = "open" /\ chain[c].after = None BY <1>2, <1>3 DEF Shaped
<1>5. link.dial \in {"ok", "failed"} /\ bus.ready \in BOOLEAN BY <1>2, <1>3 DEF Links, Buses
<1>6. Step(t, "ignore") BY <1>1, <1>3, <1>4, Voiding
<1>7. c \in Flying(Here) /\ Head(Here, c) BY <1>1, <1>3 DEF Flying, Head
<1>8. /\ x \in ChainRecords /\ Shaped(x) /\ x.at = link.dial /\ x.kind = "open"
      /\ x.then = chain[c].then
  BY <1>2, <1>4, <1>5, TurnedIs
<1> HIDE DEF x
<1>9. Core(t) /\ Bound(t) /\ t.page = page
  BY <1>1, <1>3, <1>4, <1>5, <1>7, <1>8, VoidedKeeps
<1> QED BY <1>6, <1>9, StepKeeps

\* transport.stop() returns.
LEMMA FinishStopKeeps ==
  ASSUME Inv, NEW c \in Chains, FinishStop(c)
  PROVE  Inv'
<1> DEFINE x == Turned(chain[c], "ok")
           t == Voided(Here, c, x, bus.ready)
<1>1. /\ Core(Here) /\ Bound(Here) /\ Base(Here) /\ Here \in States
      /\ Here.page = page /\ Here.bus = bus /\ Here.chain = chain /\ Here.link = link
  BY DEF Inv, Core, Base, Here
<1>2. chain[c] \in ChainRecords /\ Shaped(chain[c]) /\ bus \in Buses
  BY <1>1 DEF Base, Chained, States
<1>3. chain[c].at = "stopping" /\ Step(Settle(Here, c, "ok"), "ignore") BY DEF FinishStop
<1>4. chain[c].kind = "stop" /\ chain[c].after = None /\ ~link.live
  BY <1>1, <1>2, <1>3 DEF Shaped, Base, Dark
<1>5. c # bus.current
  BY <1>1, <1>4 DEF Base, CurrentIsOpen, Chains, None
<1>6. Step(t, "ignore") BY <1>1, <1>3, <1>4, Voiding
<1>7. c \in Flying(Here) /\ Head(Here, c) /\ bus.ready \in BOOLEAN
  BY <1>1, <1>2, <1>3 DEF Flying, Head, Buses
<1>8. /\ x \in ChainRecords /\ Shaped(x) /\ x.at = "ok" /\ x.kind = "stop"
      /\ x.then = chain[c].then
  BY <1>2, <1>4, TurnedIs
<1> HIDE DEF x
<1>9. Core(t) /\ Bound(t) /\ t.page = page
  BY <1>1, <1>4, <1>5, <1>7, <1>8, VoidedKeeps
<1> QED BY <1>6, <1>9, StepKeeps

----------------------------------------------------------------------------
(* The steps: calls of the transport begin.                                *)

StopBegins(s, c) ==
  [s EXCEPT !.chain = With(s.chain, c, Turned(s.chain[c], "stopping")), !.link = Stopped(s.link)]

\* The first chain in flight is a stop, and begins: nobody uses the transport
\* that it takes down.
LEMMA StopBeginsKeeps ==
  ASSUME NEW s, Core(s), Bound(s), NEW c \in Chains, s.chain[c].kind = "stop",
         s.chain[c].at = "waiting", Done(s, s.chain[c].after)
  PROVE  LET t == StopBegins(s, c)
         IN Core(t) /\ Bound(t) /\ t.page = s.page
<1> DEFINE x == Turned(s.chain[c], "stopping")
           t == StopBegins(s, c)
<1>1. s \in States /\ Base(s) /\ s.chain[c] \in ChainRecords /\ Shaped(s.chain[c])
  BY DEF Core, Base, States, Chained
<1>2. /\ x \in ChainRecords /\ Shaped(x) /\ x.at = "stopping" /\ x.after = None
      /\ x.kind = "stop" /\ x.then = s.chain[c].then
  BY <1>1, TurnedIs
<1> HIDE DEF x
<1>3. Stopped(s.link) \in Links(Topics) /\ ~Stopped(s.link).live /\ Stopped(s.link).kind = s.link.kind
  BY <1>1 DEF States, Stopped, Unplugged, Links, Kinds
<1>4. With(s.chain, c, x) \in [Chains -> ChainRecords] BY <1>1, <1>2 DEF With, States
<1>5. /\ t \in States /\ t.bus = s.bus /\ t.chain = With(s.chain, c, x) /\ t.ops = s.ops
      /\ t.link = Stopped(s.link) /\ t.cluster = s.cluster /\ t.page = s.page
  BY <1>1, <1>3, <1>4 DEF StopBegins, States, x
<1> HIDE DEF t
<1>6. t.chain[c] = x /\ \A d \in Chains \ {c} : t.chain[d] = s.chain[d]
  BY <1>1, <1>5 DEF With, States
<1>7. c \in Flying(s) /\ Head(s, c) BY DEF Flying, Head
<1>8. Queued(t) /\ Flying(t) = Flying(s)
  <2>1. t.chain = [s.chain EXCEPT ![c] = x] BY <1>5 DEF With
  <2>2. Latest(t) = Latest(s) BY <1>5 DEF Latest
  <2>3. s.chain \in [Chains -> ChainRecords] /\ Queued(s) BY <1>1 DEF Base, States
  <2> QED BY <2>1, <2>2, <2>3, <1>2, <1>7, QueueBegins
<1>9. \A d : (d \in Refs => (Done(t, d) <=> Done(s, d))) /\ (Alive(s, d) => Alive(t, d))
  BY <1>2, <1>6 DEF Done, Refs, Alive
<1>10. /\ s.bus.startPromise \in Refs /\ s.bus.pendingStop \in Refs /\ s.bus.current \in Refs
  BY <1>1 DEF States, Buses
<1>11. Chained(t) BY <1>1, <1>2, <1>6 DEF Base, Chained
<1>12. Named(t)
  <2>1. Alive(t, None) BY DEF Alive, None, Chains
  <2>2. \A d \in Chains : Alive(t, t.chain[d].after)
    BY <1>1, <1>2, <1>6, <1>9, <2>1 DEF Base, Named
  <2> QED BY <2>2, <1>1, <1>5, <1>9 DEF Base, Named
<1>13. \A d \in Chains : t.chain[d].kind = s.chain[d].kind /\ t.chain[d].then = s.chain[d].then
                         /\ (t.chain[d].at = "ok" <=> s.chain[d].at = "ok")
  BY <1>2, <1>6
<1>14. /\ StopsAreStops(t) /\ CurrentIsOpen(t) /\ Phased(t)
  BY <1>1, <1>5, <1>8, <1>10, <1>13 DEF Base, StopsAreStops, CurrentIsOpen, Phased, Hushed, Refs
<1>15. OpeningIsCurrent(t)
  BY <1>1, <1>5, <1>8, <1>10, <1>13 DEF Base, OpeningIsCurrent, Hushed, Refs
<1>16. Torn(t) /\ Dark(t)
  <2>1. ~t.link.live BY <1>3, <1>5
  <2> QED BY <2>1, <1>1, <1>5, <1>8, <1>9, <1>10 DEF Base, Torn, Dark
<1>17. ReadyRests(t) /\ RuntimeOff(t) /\ GateIsOurs(t)
  BY <1>1, <1>5, <1>8 DEF Base, ReadyRests, RuntimeOff, GateIsOurs, Hushed
<1>18. Base(t)
  BY <1>1, <1>5, <1>8, <1>11, <1>12, <1>14, <1>15, <1>16, <1>17 DEF Base, Counted
<1>19. c # s.bus.current BY <1>1 DEF Base, CurrentIsOpen, Chains, None
<1>20. /\ At(t) = At(s)
       /\ s.bus.current # None => t.chain[s.bus.current] = s.chain[s.bus.current]
  BY <1>5, <1>6, <1>10, <1>19 DEF At, Refs
<1>21. ~Using(t)
  <2>1. ~s.bus.ready \/ s.bus.stopping BY <1>1, <1>7 DEF Base, ReadyRests
  <2>2. At(s) # "dialing"
    <3> SUFFICES ASSUME At(s) = "dialing" PROVE FALSE OBVIOUS
    <3>1. s.bus.current \in Flying(s) /\ Head(s, s.bus.current)
      BY <1>10 DEF At, Flying, Head, Refs
    <3>2. s.chain \in [Chains -> ChainRecords] /\ Queued(s) BY <1>1 DEF Base, States
    <3> QED BY <3>1, <3>2, <1>7, <1>19, QueueFirst
  <2> QED BY <2>1, <2>2, <1>5, <1>20 DEF Using
<1>22. Runs(t)
  BY <1>3, <1>5, <1>20, <1>21 DEF Core, Runs, WaitsWell, UsesWell, At, Able
<1>23. LostIsTold(t) BY <1>5 DEF Core, LostIsTold, Hushed
<1>24. Kept(t) BY <1>5, <1>8, <1>13 DEF Core, Kept
<1>25. Bound(t) BY <1>5 DEF Bound, Gates, Pauses
<1> QED BY <1>5, <1>18, <1>22, <1>23, <1>24, <1>25 DEF Core, t

\* A chained stop calls transport.stop().
LEMMA BeginStopKeeps ==
  ASSUME Inv, NEW c \in Chains, BeginStop(c)
  PROVE  Inv'
<1> DEFINE t == StopBegins(Here, c)
<1>1. /\ Core(Here) /\ Bound(Here) /\ Here.page = page /\ Here.chain = chain
      /\ chain \in [Chains -> ChainRecords]
  BY DEF Inv, Core, Base, States, Here
<1>2. chain[c].kind = "stop" /\ chain[c].at = "waiting" /\ Done(Here, chain[c].after)
  BY DEF BeginStop
<1>3. [Here EXCEPT !.chain[c].after = None, !.chain[c].at = "stopping", !.link = Stopped(@)] = t
  BY <1>1 DEF Here, StopBegins, With, Turned
<1>4. Step(t, "ignore") BY <1>3 DEF BeginStop
<1>5. Core(t) /\ Bound(t) /\ t.page = page BY <1>1, <1>2, StopBeginsKeeps
<1> QED BY <1>4, <1>5, StepKeeps

\* The current opening may call transport.start() when what it waited for is
\* over: nothing else is under way, and the transport is fit for it.
LEMMA CurrentMayDial ==
  ASSUME NEW s, Core(s), NEW c \in Chains, s.bus.current = c, s.chain[c].kind = "open",
         s.chain[c].at = "waiting", Done(s, s.chain[c].after)
  PROVE  /\ Able(s.link) /\ s.chain[c].after = s.bus.pendingStop
         /\ s.bus.startPromise = c /\ s.bus.status = "connecting"
         /\ s.bus.started /\ ~Hushed(s) /\ ~s.bus.ready
         /\ c \in Flying(s) /\ Head(s, c) /\ \A d \in Chains : s.chain[d].at # "stopping"
<1>1. Base(s) /\ s \in States BY DEF Core, Base
<1>2. c # None /\ At(s) = "waiting" BY DEF Chains, None, At
<1>3. c \in Flying(s) /\ Head(s, c) BY DEF Flying, Head
<1>4. s.bus.startPromise = c /\ ~Hushed(s) BY <1>1, <1>2, <1>3 DEF Base, CurrentIsOpen
<1>5. s.bus.started BY <1>1, <1>2, <1>4 DEF Base, Phased
<1>6. ~s.bus.ready BY <1>1, <1>3, <1>4 DEF Base, ReadyRests, Hushed
<1>7. /\ s.chain[c].after = s.bus.pendingStop /\ s.bus.status = "connecting"
      /\ s.bus.pendingStop = None => Able(s.link)
  BY <1>2 DEF Core, Runs, WaitsWell
<1>8. Able(s.link) BY <1>1, <1>7 DEF Base, Dark, Able
<1>9. \A d \in Chains : s.chain[d].at # "stopping"
  <2> SUFFICES ASSUME NEW d \in Chains, s.chain[d].at = "stopping" PROVE FALSE OBVIOUS
  <2>1. d \in Flying(s) /\ Head(s, d) /\ d # c BY DEF Flying, Head
  <2>2. s.chain \in [Chains -> ChainRecords] /\ Queued(s) BY <1>1 DEF Base, States
  <2> QED BY <2>1, <2>2, <1>3, QueueFirst
<1> QED BY <1>3, <1>4, <1>5, <1>6, <1>7, <1>8, <1>9

----------------------------------------------------------------------------
\* The bus and the transport of an opening that calls transport.start().
DialingBus(b, heard) ==
  [b EXCEPT !.connected = FALSE, !.pendingStop = None, !.heard = heard]
Dials(s, c, l) ==
  [s EXCEPT !.chain = With(s.chain, c, Turned(s.chain[c], "dialing")),
            !.bus = DialingBus(s.bus, ~s.link.live), !.link = l]

\* What is known of the state t after that.
Dialed(s, l, t) ==
  /\ t.page = s.page /\ Idle(t) = Idle(s) /\ t.link = l
  /\ At(t) = "dialing" /\ (s.link.live \/ t.bus.heard)
  /\ t.bus.pendingStop = None /\ ~t.bus.suspended

\* What start() makes of a transport that is fit for it.
LEMMA StartedIs ==
  ASSUME NEW l \in Links(Topics), Able(l), NEW k \in Started(l)
  PROVE  /\ k \in Links(Topics) /\ k.kind = l.kind
         /\ k.kind = "websocket" /\ k.live /\ ~l.live => k.phase # "closed"
         /\ l.live => k = l
<1>1. CASE l.live BY <1>1 DEF Started
<1>2. CASE ~l.live /\ l.kind = "websocket"
  <2>1. k \in {[l EXCEPT !.live = TRUE, !.phase = "dialing", !.dial = "pending"], [l EXCEPT !.dial = "ok"]}
    BY <1>2 DEF Started
  <2>2. CASE k = [l EXCEPT !.live = TRUE, !.phase = "dialing", !.dial = "pending"]
    BY <1>2, <2>2 DEF Links
  <2>3. CASE k = [l EXCEPT !.dial = "ok"]
    BY <1>2, <2>3 DEF Links
  <2> QED BY <2>1, <2>2, <2>3
<1>3. CASE ~l.live /\ l.kind # "websocket"
  <2>1. l.kind = "worker" BY <1>3 DEF Links, Kinds
  <2>2. k \in {[Unplugged(l.kind) EXCEPT !.live = TRUE, !.phase = "dialing"],
               [Unplugged(l.kind) EXCEPT !.dial = "failed"]}
    BY <1>3 DEF Started
  <2> QED BY <1>3, <2>1, <2>2 DEF Unplugged, Links, Kinds
<1> QED BY <1>1, <1>2, <1>3

Dialled(s, c, l, h) ==
  [[s EXCEPT !.chain[c].after = None] EXCEPT
     !.chain[c].at = "dialing", !.bus.connected = FALSE, !.bus.pendingStop = None,
     !.bus.heard = h, !.link = l]

\* BeginOpen's assignments, in these terms.
LEMMA Dialing ==
  ASSUME NEW s \in States, NEW c \in Chains, NEW l
  PROVE  Dialled(s, c, l, ~s.link.live) = Dials(s, c, l)
<1> DEFINE h == ~s.link.live
<1> HIDE DEF h
<1> DEFINE x == [s.chain[c] EXCEPT !.after = None]
           s1 == [s EXCEPT !.chain = With(s.chain, c, x)]
           y == [x EXCEPT !.at = "dialing"]
<1>1. s.chain \in [Chains -> ChainRecords] BY DEF States
<1>2. [s EXCEPT !.chain[c].after = None] = s1 BY DEF With
<1>3. s1.chain = With(s.chain, c, x) /\ s1.bus = s.bus /\ s1.chain[c] = x
  BY <1>1 DEF States, With
<1>4. [s1 EXCEPT !.chain[c].at = "dialing", !.bus.connected = FALSE, !.bus.pendingStop = None,
                 !.bus.heard = h, !.link = l]
        = [s1 EXCEPT !.chain = [s1.chain EXCEPT ![c] = [s1.chain[c] EXCEPT !.at = "dialing"]],
                     !.bus = DialingBus(s1.bus, h), !.link = l]
  <2> HIDE DEF s1
  <2> QED BY DEF DialingBus
<1>5. [s1.chain EXCEPT ![c] = [s1.chain[c] EXCEPT !.at = "dialing"]] = With(s.chain, c, y)
  <2> HIDE DEF x, s1
  <2> QED BY <1>1, <1>3 DEF With
<1>6. y = Turned(s.chain[c], "dialing") BY DEF Turned
<1> DEFINE C == With(s.chain, c, y)
           b == DialingBus(s.bus, h)
<1>7. [s1 EXCEPT !.chain = C, !.bus = b, !.link = l] = [s EXCEPT !.chain = C, !.bus = b, !.link = l]
  <2> HIDE DEF C, b, x, y
  <2> QED OBVIOUS
<1> HIDE DEF s1, x, y
<1>8. Dialled(s, c, l, h) = [s EXCEPT !.chain = C, !.bus = b, !.link = l]
  BY <1>2, <1>3, <1>4, <1>5, <1>6, <1>7 DEF Dialled
<1> QED BY <1>6, <1>8 DEF Dials, h

\* The current opening calls transport.start().
LEMMA DialsKeeps ==
  ASSUME NEW s, Core(s), Bound(s), NEW c \in Chains, s.bus.current = c,
         s.chain[c].kind = "open", s.chain[c].at = "waiting", Done(s, s.chain[c].after),
         NEW l \in Started(s.link)
  PROVE  LET t == Dials(s, c, l)
         IN Core(t) /\ Bound(t) /\ Dialed(s, l, t)
<1> DEFINE x == Turned(s.chain[c], "dialing")
           b == DialingBus(s.bus, ~s.link.live)
           t == Dials(s, c, l)
<1>1. s \in States /\ Base(s) /\ s.chain[c] \in ChainRecords /\ Shaped(s.chain[c])
      /\ s.link \in Links(Topics)
  BY DEF Core, Base, States, Chained
<1>2. /\ Able(s.link) /\ s.chain[c].after = s.bus.pendingStop
      /\ s.bus.startPromise = c /\ s.bus.status = "connecting"
      /\ s.bus.started /\ ~Hushed(s) /\ ~s.bus.ready
      /\ c \in Flying(s) /\ Head(s, c) /\ \A d \in Chains : s.chain[d].at # "stopping"
  BY CurrentMayDial
<1>3. /\ x \in ChainRecords /\ Shaped(x) /\ x.at = "dialing" /\ x.after = None
      /\ x.kind = "open" /\ x.then = s.chain[c].then
  BY <1>1, TurnedIs
<1> HIDE DEF x
<1>4. /\ l \in Links(Topics) /\ l.kind = s.link.kind
      /\ l.kind = "websocket" /\ l.live /\ ~s.link.live => l.phase # "closed"
      /\ s.link.live => l = s.link
  BY <1>1, <1>2, StartedIs
<1>5. b \in Buses /\ With(s.chain, c, x) \in [Chains -> ChainRecords]
  <2>1. (~s.link.live) \in BOOLEAN /\ None \in Refs /\ FALSE \in BOOLEAN BY DEF Refs
  <2>2. s.bus \in Buses /\ s.chain \in [Chains -> ChainRecords] BY <1>1 DEF States
  <2> DEFINE h == ~s.link.live
  <2> HIDE DEF h
  <2>3. DialingBus(s.bus, h) \in Buses BY <2>1, <2>2 DEF Buses, DialingBus, h
  <2>4. With(s.chain, c, x) \in [Chains -> ChainRecords] BY <1>3, <2>2 DEF With
  <2> QED BY <2>3, <2>4 DEF h
<1>6. /\ t \in States /\ t.bus = b /\ t.chain = With(s.chain, c, x) /\ t.ops = s.ops
      /\ t.link = l /\ t.cluster = s.cluster /\ t.page = s.page
  <2> HIDE DEF b
  <2>1. t = [s EXCEPT !.chain = With(s.chain, c, x), !.bus = b, !.link = l] BY DEF Dials, x, b
  <2> HIDE DEF t
  <2> QED BY <1>1, <1>4, <1>5, <2>1 DEF States
<1>7. /\ b.started = s.bus.started /\ b.stopping = s.bus.stopping
      /\ b.suspended = s.bus.suspended /\ b.status = s.bus.status /\ b.ready = s.bus.ready
      /\ b.config = s.bus.config /\ b.current = s.bus.current
      /\ b.startPromise = s.bus.startPromise
  BY <1>1 DEF DialingBus, States, Buses
<1>8. /\ b.down = s.bus.down /\ b.limit = s.bus.limit /\ b.attempt = s.bus.attempt
      /\ b.gate = s.bus.gate /\ b.demand = s.bus.demand /\ b.timer = s.bus.timer
      /\ b.cooled = s.bus.cooled
  BY <1>1 DEF DialingBus, States, Buses
<1>9. /\ b.lastError = s.bus.lastError /\ b.pendingStop = None
      /\ b.heard = ~s.link.live
  BY <1>1 DEF DialingBus, States, Buses
<1> HIDE DEF t, b
<1>10. t.chain[c] = x /\ \A d \in Chains \ {c} : t.chain[d] = s.chain[d]
  BY <1>1, <1>6 DEF With, States
<1>11. c # None BY DEF Chains, None
<1>12. Queued(t) /\ Flying(t) = Flying(s)
  <2>1. t.chain = [s.chain EXCEPT ![c] = x] BY <1>6 DEF With
  <2>2. Latest(t) = Latest(s) BY <1>2, <1>6, <1>7, <1>11 DEF Latest
  <2>3. s.chain \in [Chains -> ChainRecords] /\ Queued(s) BY <1>1 DEF Base, States
  <2> QED BY <2>1, <2>2, <2>3, <1>2, <1>3, QueueBegins
<1>13. \A d : Alive(s, d) => Alive(t, d) BY <1>3, <1>10 DEF Alive
<1>14. Chained(t) BY <1>1, <1>3, <1>10 DEF Base, Chained
<1>15. Named(t)
  <2>1. Alive(t, None) BY DEF Alive, None, Chains
  <2>2. \A d \in Chains : Alive(t, t.chain[d].after)
    BY <1>1, <1>3, <1>10, <1>13, <2>1 DEF Base, Named
  <2> QED BY <2>1, <2>2, <1>1, <1>6, <1>7, <1>8, <1>9, <1>13 DEF Base, Named
<1>16. s.bus.stopping = FALSE /\ s.bus.suspended = FALSE
  BY <1>1, <1>2 DEF Hushed, States, Buses
<1>17. StopsAreStops(t) /\ CurrentIsOpen(t) /\ Phased(t) /\ OpeningIsCurrent(t)
  BY <1>1, <1>2, <1>3, <1>6, <1>7, <1>9, <1>10, <1>12, <1>16
     DEF Base, StopsAreStops, CurrentIsOpen, Phased, OpeningIsCurrent, Hushed
<1>18. Torn(t)
  <2>1. s.bus.down.at = "none" BY <1>1, <1>16 DEF Base, Torn
  <2> QED BY <2>1, <1>6, <1>7, <1>8, <1>16 DEF Torn
<1>19. Dark(t)
  <2>1. \A d \in Chains : t.chain[d].at # "stopping" BY <1>2, <1>3, <1>10
  <2>2. l.kind = "websocket" /\ l.live => l.phase # "closed" BY <1>1, <1>4 DEF Base, Dark
  <2> QED BY <2>1, <2>2, <1>2, <1>6, <1>7, <1>9 DEF Dark
<1>20. ReadyRests(t) /\ RuntimeOff(t) /\ GateIsOurs(t)
  BY <1>1, <1>2, <1>6, <1>7, <1>8 DEF Base, ReadyRests, RuntimeOff, GateIsOurs, Hushed
<1>21. Base(t)
  BY <1>1, <1>6, <1>7, <1>8, <1>12, <1>14, <1>15, <1>17, <1>18, <1>19, <1>20 DEF Base, Counted
<1>22. At(t) = "dialing" BY <1>3, <1>6, <1>7, <1>10, <1>11 DEF At
<1>23. Runs(t)
  <2>1. WaitsWell(t) BY <1>22 DEF WaitsWell
  <2>2. t.bus.heard \/ (t.link.kind = "worker" /\ t.link.phase = "closed")
    <3>1. CASE s.link.live
      <4>1. l = s.link /\ l.phase = "closed" BY <1>2, <1>4, <3>1 DEF Able
      <4>2. l.kind = "worker" BY <1>1, <3>1, <4>1 DEF Base, Dark, Links, Kinds
      <4> QED BY <4>1, <4>2, <1>6
    <3>2. CASE ~s.link.live BY <3>2, <1>6, <1>9
    <3> QED BY <3>1, <3>2
  <2>3. UsesWell(t) BY <2>2, <1>2, <1>6, <1>7, <1>9 DEF UsesWell
  <2> QED BY <2>1, <2>3 DEF Runs
<1>24. LostIsTold(t) BY <1>2, <1>6, <1>7, <1>11 DEF LostIsTold
<1>25. Kept(t) BY <1>2, <1>6, <1>7, <1>12 DEF Kept
<1>26. Bound(t)
  <2>1. Gates(t) BY <1>6, <1>7, <1>16 DEF Gates
  <2>2. Pauses(t) BY <1>6, <1>7 DEF Bound, Pauses
  <2> QED BY <2>1, <2>2 DEF Bound
<1>27. Idle(t) = Idle(s)
  <2>1. x # NoChain /\ s.chain[c] # NoChain BY <1>3 DEF NoChain
  <2> QED BY <2>1, <1>10 DEF Idle
<1>28. (s.link.live \/ t.bus.heard) /\ t.bus.pendingStop = None /\ ~t.bus.suspended
  BY <1>6, <1>7, <1>9, <1>16
<1>29. Dialed(s, l, t) BY <1>6, <1>22, <1>27, <1>28 DEF Dialed
<1> QED BY <1>21, <1>23, <1>24, <1>25, <1>26, <1>29 DEF Core, t

\* openTransport, past the promise that it waits for.
LEMMA BeginOpenKeeps ==
  ASSUME Inv, NEW c \in Chains, NEW l, BeginOpen(c, l)
  PROVE  Inv'
<1>1. CASE Superseded(c) BY <1>1, SupersededKeeps
<1>2. CASE ~Superseded(c)
  <2> DEFINE t == Dials(Here, c, l)
             u == UpdateStatus(t, "error", "ignore")
  <2>1. /\ Core(Here) /\ Bound(Here) /\ Here \in States /\ Here.page = page /\ Here.bus = bus
        /\ Here.chain = chain /\ Here.link = link
    BY DEF Inv, Core, Base, Here
  <2>2. /\ chain[c].kind = "open" /\ chain[c].at = "waiting" /\ Done(Here, chain[c].after)
        /\ l \in Started(link) /\ bus.current = c
    BY <1>2 DEF BeginOpen, Superseded, Current
  <2>3. chain[c].after = bus.pendingStop BY <2>1, <2>2, CurrentMayDial
  <2>4. [[Here EXCEPT !.chain[c].after = None] EXCEPT
           !.chain[c].at = "dialing", !.bus.connected = FALSE, !.bus.pendingStop = Spent(c),
           !.bus.heard = ~link.live, !.link = l] = t
    <3>1. Spent(c) = None BY <2>3 DEF Spent
    <3>2. Dialled(Here, c, l, ~Here.link.live) = t BY <2>1, Dialing
    <3> QED BY <3>1, <3>2, <2>1 DEF Dialled
  <2>5. IF l.live THEN Step(t, "ignore")
        ELSE Fault(IF link.kind = "websocket" THEN u ELSE t, "ignore")
    BY <1>2, <2>4 DEF BeginOpen
  <2>6. /\ Core(t) /\ Bound(t) /\ t.page = page /\ Idle(t) = Idle(Here)
        /\ t.link = l /\ At(t) = "dialing" /\ (link.live \/ t.bus.heard)
        /\ t.bus.pendingStop = None /\ ~t.bus.suspended
    <3>1. /\ Here.chain[c].kind = "open" /\ Here.chain[c].at = "waiting"
          /\ Done(Here, Here.chain[c].after) /\ l \in Started(Here.link) /\ Here.bus.current = c
      BY <2>1, <2>2
    <3>2. Core(t) /\ Bound(t) /\ Dialed(Here, l, t) BY <2>1, <3>1, DialsKeeps
    <3> QED BY <2>1, <3>2 DEF Dialed
  <2> HIDE DEF t
  <2>7. CASE l.live BY <2>5, <2>6, <2>7, StepKeeps
  <2>8. CASE ~l.live /\ link.kind # "websocket" BY <2>5, <2>6, <2>8, FaultKeeps
  <2>9. CASE ~l.live /\ link.kind = "websocket"
    <3>1. Fault(u, "ignore") BY <2>5, <2>9
    <3>2. t.bus.heard
      <4>1. link.live => l = link BY <2>2 DEF Started
      <4> QED BY <4>1, <2>6, <2>9
    <3>3. Using(t) => /\ t.bus.pendingStop = None
                      /\ "error" \in {"error", "disconnected"} => Able(t.link)
                      /\ t.bus.heard \/ (t.link.kind = "worker" /\ t.link.phase = "closed")
      BY <2>6, <2>9, <3>2 DEF Able
    <3>4. Room(t, 0 + 3)
      <4>1. \E s : Fault(s, "ignore") BY <3>1
      <4>2. Room(Here, 3) BY <4>1, StepHasRoom
      <4> QED BY <4>2, <2>6 DEF Room
    <3>5. "error" \in Statuses /\ At(t) # "waiting" BY <2>6 DEF Statuses
    <3>6. Core(u) /\ Bound(u) /\ u.page = t.page
      BY <2>6, <3>3, <3>4, <3>5, UpdateStatusKeeps DEF Core
    <3> QED BY <2>6, <3>1, <3>6, FaultKeeps
  <2> QED BY <2>7, <2>8, <2>9
<1> QED BY <1>1, <1>2

----------------------------------------------------------------------------
(* The steps: the current opening settles.                                 *)

\* What is known of the current opening while transport.start() runs: nothing
\* else is in flight, and nothing else uses the bus.
LEMMA DialingIs ==
  ASSUME NEW s, Core(s), NEW c \in Chains, s.bus.current = c, s.chain[c].at = "dialing"
  PROVE  /\ c # None /\ s.chain[c].kind = "open" /\ s.chain[c].after = None
         /\ c \in Flying(s) /\ Head(s, c)
         /\ s.bus.startPromise = c /\ s.bus.started /\ ~Hushed(s) /\ Latest(s) = c
         /\ s.bus.pendingStop = None
         /\ s.bus.status \in {"error", "disconnected"} => Able(s.link)
         /\ s.bus.heard \/ (s.link.kind = "worker" /\ s.link.phase = "closed")
<1>1. Base(s) /\ s \in States BY DEF Core, Base
<1>2. c # None /\ At(s) = "dialing" BY DEF Chains, None, At
<1>3. c \in Flying(s) /\ Head(s, c) BY DEF Flying, Head
<1>4. s.bus.startPromise = c /\ ~Hushed(s) BY <1>1, <1>2, <1>3 DEF Base, CurrentIsOpen
<1>5. s.bus.started BY <1>1, <1>2, <1>4 DEF Base, Phased
<1>6. Latest(s) = c BY <1>2, <1>4 DEF Latest
<1>7. s.chain[c].kind = "open" /\ s.chain[c].after = None
  BY <1>1, <1>2 DEF Base, CurrentIsOpen, Chained, Shaped
<1>8. /\ s.bus.pendingStop = None
      /\ s.bus.status \in {"error", "disconnected"} => Able(s.link)
      /\ s.bus.heard \/ (s.link.kind = "worker" /\ s.link.phase = "closed")
  BY <1>2 DEF Core, Runs, UsesWell, Using
<1> QED BY <1>2, <1>3, <1>4, <1>5, <1>6, <1>7, <1>8

\* The current opening succeeds: the bus is ready.
LEMMA SucceedsKeeps ==
  ASSUME NEW s, Core(s), Bound(s), NEW c \in Chains, s.bus.current = c,
         s.chain[c].at = "dialing"
  PROVE  LET t == Voided(s, c, Turned(s.chain[c], "ok"), TRUE)
         IN Base(t) /\ Runs(t) /\ LostIsTold(t) /\ Bound(t) /\ t.page = s.page
<1> DEFINE x == Turned(s.chain[c], "ok")
           b == [s.bus EXCEPT !.ready = TRUE]
           t == Voided(s, c, x, TRUE)
<1>1. s \in States /\ Base(s) /\ s.chain[c] \in ChainRecords /\ Shaped(s.chain[c])
  BY DEF Core, Base, States, Chained
<1>2. /\ c # None /\ s.chain[c].kind = "open" /\ s.chain[c].after = None
      /\ c \in Flying(s) /\ Head(s, c)
      /\ s.bus.startPromise = c /\ s.bus.started /\ ~Hushed(s) /\ Latest(s) = c
      /\ s.bus.pendingStop = None
      /\ s.bus.status \in {"error", "disconnected"} => Able(s.link)
      /\ s.bus.heard \/ (s.link.kind = "worker" /\ s.link.phase = "closed")
  BY DialingIs
<1>3. /\ x \in ChainRecords /\ Shaped(x) /\ x.at = "ok" /\ x.after = None
      /\ x.kind = "open" /\ x.then = s.chain[c].then
  BY <1>1, <1>2, TurnedIs
<1> HIDE DEF x
<1>4. b \in Buses /\ With(s.chain, c, x) \in [Chains -> ChainRecords]
  BY <1>1, <1>3 DEF States, Buses, With
<1>5. t = [s EXCEPT !.chain = With(s.chain, c, x), !.bus = b] BY <1>1 DEF Voided, States, Buses
<1>6. /\ b.started = s.bus.started /\ b.stopping = s.bus.stopping
      /\ b.suspended = s.bus.suspended /\ b.status = s.bus.status
      /\ b.config = s.bus.config /\ b.current = s.bus.current /\ b.heard = s.bus.heard
      /\ b.startPromise = s.bus.startPromise /\ b.pendingStop = s.bus.pendingStop
  BY <1>1 DEF States, Buses
<1>7. /\ b.down = s.bus.down /\ b.limit = s.bus.limit /\ b.attempt = s.bus.attempt
      /\ b.gate = s.bus.gate /\ b.timer = s.bus.timer
      /\ b.cooled = s.bus.cooled /\ b.ready
  BY <1>1 DEF States, Buses
<1> HIDE DEF t, b
<1>8. /\ t \in States /\ t.bus = b /\ t.chain = With(s.chain, c, x) /\ t.ops = s.ops
      /\ t.link = s.link /\ t.cluster = s.cluster /\ t.page = s.page
  BY <1>1, <1>4, <1>5 DEF States
<1>9. t.chain[c] = x /\ \A d \in Chains \ {c} : t.chain[d] = s.chain[d]
  BY <1>1, <1>8 DEF With, States
<1>10. Flying(t) = {} /\ Queued(t)
  <2>1. t.chain = [s.chain EXCEPT ![c] = x] BY <1>8 DEF With
  <2>2. s.chain \in [Chains -> ChainRecords] /\ Queued(s) BY <1>1 DEF Base, States
  <2> QED BY <2>1, <2>2, <1>2, <1>3, QueueSettles
<1>11. \A d : Alive(s, d) => Alive(t, d) BY <1>3, <1>9 DEF Alive
<1>12. Chained(t) BY <1>1, <1>3, <1>9 DEF Base, Chained
<1>13. Named(t)
  <2>1. Alive(t, None) BY DEF Alive, None, Chains
  <2>2. \A d \in Chains : Alive(t, t.chain[d].after)
    BY <1>1, <1>3, <1>9, <1>11, <2>1 DEF Base, Named
  <2> QED BY <2>2, <1>1, <1>6, <1>7, <1>8, <1>11 DEF Base, Named
<1>14. s.bus.stopping = FALSE /\ s.bus.suspended = FALSE
  BY <1>1, <1>2 DEF Hushed, States, Buses
<1>15. StopsAreStops(t) /\ CurrentIsOpen(t) /\ Phased(t)
  <2>1. t.bus.startPromise = c /\ t.bus.current = c /\ t.bus.pendingStop = None /\ t.bus.started
        /\ t.bus.suspended = FALSE /\ t.bus.stopping = FALSE /\ t.chain[c].kind = "open"
    BY <1>2, <1>3, <1>6, <1>8, <1>9, <1>14
  <2>2. t.bus.config BY <1>1, <1>2, <1>6, <1>8 DEF Base, Phased
  <2> QED BY <2>1, <2>2 DEF StopsAreStops, CurrentIsOpen, Phased, Hushed
<1>16. OpeningIsCurrent(t)
  BY <1>2, <1>3, <1>6, <1>7, <1>8, <1>9 DEF OpeningIsCurrent
<1>17. Torn(t)
  <2>1. s.bus.down.at = "none" BY <1>1, <1>14 DEF Base, Torn
  <2> QED BY <2>1, <1>6, <1>7, <1>8, <1>14 DEF Torn
<1>18. Dark(t)
  <2>1. \A d \in Chains : t.chain[d].at # "stopping" BY <1>10 DEF Flying
  <2> QED BY <2>1, <1>1, <1>2, <1>6, <1>8 DEF Base, Dark
<1>19. ReadyRests(t) /\ RuntimeOff(t)
  BY <1>2, <1>6, <1>8, <1>10, <1>14 DEF ReadyRests, RuntimeOff
<1>20. GateIsOurs(t) BY <1>1, <1>6, <1>7, <1>8 DEF Base, GateIsOurs, Hushed
<1>21. Base(t)
  BY <1>1, <1>7, <1>8, <1>10, <1>12, <1>13, <1>15, <1>16, <1>17, <1>18, <1>19, <1>20
     DEF Base, Counted
<1>22. Runs(t)
  <2>1. At(t) = "ok" BY <1>2, <1>3, <1>6, <1>8, <1>9 DEF At
  <2> QED BY <2>1, <1>2, <1>6, <1>8 DEF Runs, WaitsWell, UsesWell, Using
<1>23. LostIsTold(t) BY <1>2, <1>6, <1>8 DEF LostIsTold
<1>24. Bound(t) BY <1>6, <1>8, <1>14 DEF Bound, Gates, Pauses
<1> QED BY <1>8, <1>21, <1>22, <1>23, <1>24 DEF t, x

Readied(s, c) == Settle(ReleaseGate([s EXCEPT !.bus.ready = TRUE]), c, "ok")

\* The order of FinishOpen's assignments does not matter.
LEMMA Readying ==
  ASSUME NEW s \in States, NEW c \in Chains, s.chain[c].after = None
  PROVE  Readied(s, c) = ReleaseGate(Voided(s, c, Turned(s.chain[c], "ok"), TRUE))
<1> DEFINE x == [s.chain[c] EXCEPT !.at = "ok"]
           O == {[o EXCEPT !.on = IF @ = Gate THEN Released ELSE @] : o \in s.ops}
           b == [s.bus EXCEPT !.ready = TRUE]
           g == [b EXCEPT !.gate = FALSE, !.demand = FALSE]
           C == With(s.chain, c, x)
<1>1. s.chain[c] \in ChainRecords /\ s.chain \in [Chains -> ChainRecords] /\ s.bus \in Buses
  BY DEF States
<1>2. Turned(s.chain[c], "ok") = x BY <1>1 DEF Turned, ChainRecords
<1>3. [s EXCEPT !.bus.ready = TRUE] = [s EXCEPT !.bus = b] BY DEF States
<1>4. Voided(s, c, x, TRUE) = [s EXCEPT !.chain = C, !.bus = b] BY DEF Voided, States
<1> HIDE DEF x, O, b, C
<1>5. ReleaseGate([s EXCEPT !.bus = b]) = [s EXCEPT !.bus = g, !.ops = O]
  BY DEF ReleaseGate, States, O
<1>6. ReleaseGate([s EXCEPT !.chain = C, !.bus = b]) = [s EXCEPT !.chain = C, !.bus = g, !.ops = O]
  BY DEF ReleaseGate, States, O
<1> HIDE DEF g
<1>7. Settle([s EXCEPT !.bus = g, !.ops = O], c, "ok") = [s EXCEPT !.chain = C, !.bus = g, !.ops = O]
  BY <1>1 DEF Settle, States, C, With, x
<1> QED BY <1>2, <1>3, <1>4, <1>5, <1>6, <1>7 DEF Readied

\* The current opening succeeds.
LEMMA FinishReadyKeeps ==
  ASSUME Inv, NEW c \in Chains, NEW r, FinishOpen(c, r), Current(c),
         ~(link.dial = "failed" \/ bus.status = "error")
  PROVE  Inv'
<1> DEFINE u == Voided(Here, c, Turned(Here.chain[c], "ok"), TRUE)
           t == ReleaseGate(u)
<1>1. /\ Core(Here) /\ Bound(Here) /\ Here \in States
      /\ Here.page = page /\ Here.bus = bus /\ Here.chain = chain
  BY DEF Inv, Core, Base, Here
<1>2. Here.bus.current = c /\ Here.chain[c].at = "dialing" BY <1>1 DEF FinishOpen, Current
<1>3. Step(Readied(Here, c), "ignore") BY DEF FinishOpen, Readied
<1>4. Here.chain[c].after = None BY <1>1, <1>2, DialingIs
<1>5. Readied(Here, c) = t BY <1>1, <1>4, Readying
<1>6. Base(u) /\ Runs(u) /\ LostIsTold(u) /\ Bound(u) /\ u.page = Here.page
  BY <1>1, <1>2, SucceedsKeeps
<1> HIDE DEF u
<1>7. /\ Core(t) /\ t.page = u.page /\ (Gates(u) => Gates(t)) /\ (Pauses(u) => Pauses(t))
  BY <1>6, ReleaseKeeps
<1> HIDE DEF t
<1>8. Bound(t) /\ t.page = page BY <1>1, <1>6, <1>7 DEF Bound
<1> QED BY <1>3, <1>5, <1>7, <1>8, StepKeeps

----------------------------------------------------------------------------
\* An opening that failed: it settles, and a stop f of the transport begins.  The
\* bus is started afterwards, or not (w), and its runtime is C.
FailingBus(b, f, w) ==
  [b EXCEPT !.ready = FALSE, !.startPromise = None, !.lastError = TRUE, !.pendingStop = f,
            !.started = w, !.gate = b.gate /\ w]
FailingChains(chains, c, f) ==
  With(With(chains, f, WaitingStop(None)), c, Turned(chains[c], "failed"))
Fails(s, c, w, C) ==
  [s EXCEPT !.chain = FailingChains(s.chain, c, Fresh(s)),
            !.bus = FailingBus(s.bus, Fresh(s), w), !.cluster = C]

Off == [running |-> FALSE, listening |-> FALSE, paused |-> FALSE, assigned |-> {}]

\* The current opening fails.
LEMMA FailsKeeps ==
  ASSUME NEW s, Core(s), Bound(s), NEW c \in Chains, s.bus.current = c,
         s.chain[c].at = "dialing", NEW w \in BOOLEAN, NEW C,
         C = IF w THEN s.cluster ELSE Off, Room(s, 4)
  PROVE  LET t == Fails(s, c, w, C)
         IN /\ Base(t) /\ LostIsTold(t) /\ Bound(t) /\ At(t) # "waiting" /\ ~Using(t)
            /\ Room(t, 3) /\ t.page = s.page /\ ~Hushed(t) /\ t.bus.started = w
<1> DEFINE x == Turned(s.chain[c], "failed")
           f == Fresh(s)
           b == FailingBus(s.bus, f, w)
           M == FailingChains(s.chain, c, f)
           t == Fails(s, c, w, C)
<1>1. s \in States /\ Base(s) /\ s.chain[c] \in ChainRecords /\ Shaped(s.chain[c])
      /\ s.chain \in [Chains -> ChainRecords] /\ s.bus \in Buses
  BY DEF Core, Base, States, Chained
<1>2. /\ c # None /\ s.chain[c].kind = "open" /\ s.chain[c].after = None
      /\ c \in Flying(s) /\ Head(s, c)
      /\ s.bus.startPromise = c /\ s.bus.started /\ ~Hushed(s) /\ Latest(s) = c
  BY DialingIs
<1>3. /\ x \in ChainRecords /\ Shaped(x) /\ x.at = "failed" /\ x.after = None
      /\ x.kind = "open" /\ x.then = s.chain[c].then
  BY <1>1, <1>2, TurnedIs
<1>4. /\ f \in Idle(s) /\ f \in Chains /\ f # None /\ s.chain[f] = NoChain
      /\ \A u : Idle(u) = Idle(s) \ {f} => Room(u, 3)
  <2>1. Room(s, 3 + 1) OBVIOUS
  <2> QED BY <2>1, FreshIsIdle
<1>5. f # c BY <1>2, <1>4 DEF NoChain
<1> DEFINE y == WaitingStop(None)
<1>6. /\ y \in ChainRecords /\ Shaped(y) /\ y.at = "waiting" /\ y.after = None /\ y.kind = "stop"
  BY DEF WaitingStop, NoChain, ChainRecords, Shaped, None
<1>7. C \in Clusters /\ (~w => C = Off)
  <2>1. Off \in Clusters BY DEF Off, Clusters
  <2>2. s.cluster \in Clusters BY <1>1 DEF States
  <2> QED BY <2>1, <2>2
<1> HIDE DEF x, y, f
<1>8. M = [[s.chain EXCEPT ![f] = y] EXCEPT ![c] = x] BY DEF FailingChains, With, x, y
<1>9. /\ M \in [Chains -> ChainRecords] /\ M[c] = x /\ M[f] = y
      /\ \A d \in Chains \ {c, f} : M[d] = s.chain[d]
  BY <1>1, <1>3, <1>4, <1>5, <1>6, <1>8
<1> HIDE DEF M
<1>10. b \in Buses
  <2> DEFINE g == s.bus.gate /\ w
  <2>1. g \in BOOLEAN OBVIOUS
  <2> HIDE DEF g
  <2>2. b = [s.bus EXCEPT !.ready = FALSE, !.startPromise = None, !.lastError = TRUE,
                          !.pendingStop = f, !.started = w, !.gate = g]
    BY DEF FailingBus, g
  <2>3. f \in Refs /\ None \in Refs /\ TRUE \in BOOLEAN /\ FALSE \in BOOLEAN
    BY <1>4 DEF Refs
  <2> DEFINE b1 == [s.bus EXCEPT !.ready = FALSE, !.startPromise = None, !.lastError = TRUE]
  <2>4. b1 \in Buses BY <1>1, <2>3 DEF Buses
  <2>5. b = [b1 EXCEPT !.pendingStop = f, !.started = w, !.gate = g] BY <2>2
  <2> HIDE DEF b, b1
  <2> QED BY <2>1, <2>3, <2>4, <2>5 DEF Buses
<1>11. /\ b.ready = FALSE /\ b.startPromise = None /\ b.lastError = TRUE /\ b.pendingStop = f
       /\ b.started = w /\ b.gate = (s.bus.gate /\ w)
  BY <1>1 DEF FailingBus, Buses
<1>12. /\ b.stopping = s.bus.stopping /\ b.suspended = s.bus.suspended
       /\ b.config = s.bus.config /\ b.current = s.bus.current /\ b.down = s.bus.down
  BY <1>1 DEF FailingBus, Buses
<1>13. /\ b.limit = s.bus.limit /\ b.attempt = s.bus.attempt
       /\ b.timer = s.bus.timer /\ b.cooled = s.bus.cooled
  BY <1>1 DEF FailingBus, Buses
<1>14. t = [s EXCEPT !.chain = M, !.bus = b, !.cluster = C] BY DEF Fails, M, b, f
<1> HIDE DEF t, b
<1>15. /\ t \in States /\ t.bus = b /\ t.chain = M /\ t.ops = s.ops
       /\ t.link = s.link /\ t.cluster = C /\ t.page = s.page
  BY <1>1, <1>7, <1>9, <1>10, <1>14 DEF States
<1>16. Flying(t) = {f}
  <2> DEFINE v == [s EXCEPT !.chain = [s.chain EXCEPT ![c] = x]]
  <2>1. v.chain = [s.chain EXCEPT ![c] = x] BY <1>1 DEF States
  <2>2. Queued(s) BY <1>1 DEF Base
  <2> HIDE DEF v
  <2>3. Flying(v) = {} BY <1>1, <1>2, <1>3, <2>1, <2>2, QueueSettles
  <2>4. v.chain[c] = x /\ \A d \in Chains \ {c} : v.chain[d] = s.chain[d] BY <1>1, <2>1
  <2>5. \A d \in Chains \ {f} : t.chain[d] = v.chain[d] BY <1>9, <1>15, <2>4
  <2> QED BY <1>4, <1>6, <1>9, <1>15, <2>3, <2>5 DEF Flying
<1>17. Queued(t)
  <2> DEFINE pos == [d \in Chains |-> 0]
  <2>1. pos \in [Chains -> Int] /\ \A d \in Chains : pos[d] = 0 OBVIOUS
  <2>2. Latest(t) = f BY <1>11, <1>15 DEF Latest
  <2>3. Head(t, f) BY <1>6, <1>9, <1>15 DEF Head, Done
  <2> HIDE DEF pos
  <2>4. Placed(t, pos) BY <1>4, <1>16, <2>1, <2>2, <2>3 DEF Placed
  <2> QED BY <2>1, <2>4 DEF Queued
<1>18. \A d : Alive(s, d) => Alive(t, d) BY <1>3, <1>6, <1>9, <1>15 DEF Alive
<1>19. Chained(t) BY <1>1, <1>3, <1>6, <1>9, <1>15 DEF Base, Chained
<1>20. Named(t)
  <2>1. Alive(t, None) BY DEF Alive, None, Chains
  <2>2. \A d \in Chains : Alive(t, t.chain[d].after)
    BY <1>1, <1>3, <1>6, <1>9, <1>15, <1>18, <2>1 DEF Base, Named
  <2>3. Alive(t, f) BY <1>6, <1>9, <1>15 DEF Alive
  <2>4. Alive(t, t.bus.startPromise) /\ Alive(t, t.bus.pendingStop) BY <1>11, <1>15, <2>1, <2>3
  <2>5. Alive(t, t.bus.down.on) /\ Alive(t, t.bus.current)
    BY <1>1, <1>12, <1>15, <1>18 DEF Base, Named
  <2>6. \A o \in t.ops : Alive(t, o.on) BY <1>1, <1>15, <1>18 DEF Base, Named
  <2> QED BY <2>2, <2>4, <2>5, <2>6 DEF Named
<1>21. s.bus.stopping = FALSE /\ s.bus.suspended = FALSE BY <1>1, <1>2 DEF Hushed, Buses
<1>22. ~Hushed(t) BY <1>12, <1>15, <1>21 DEF Hushed
<1>23. StopsAreStops(t) /\ CurrentIsOpen(t)
  <2>1. t.bus.startPromise = None /\ t.bus.pendingStop = f /\ t.chain[f].kind = "stop"
        /\ t.bus.current = c /\ t.chain[c].kind = "open" /\ c # f
    BY <1>3, <1>5, <1>6, <1>9, <1>11, <1>12, <1>15
  <2> QED BY <2>1, <1>16, <1>22 DEF StopsAreStops, CurrentIsOpen
<1>24. Phased(t) /\ OpeningIsCurrent(t)
  <2>1. s.bus.config BY <1>1, <1>2 DEF Base, Phased
  <2> QED BY <2>1, <1>11, <1>12, <1>15, <1>21 DEF Phased, OpeningIsCurrent
<1>25. Torn(t)
  <2>1. s.bus.down.at = "none" BY <1>1, <1>21 DEF Base, Torn
  <2> QED BY <2>1, <1>12, <1>15, <1>21 DEF Torn
<1>26. Dark(t)
  <2>1. \A d \in Chains : t.chain[d].at # "stopping" BY <1>6, <1>9, <1>15, <1>16 DEF Flying
  <2>2. ~Done(t, f) BY <1>4, <1>6, <1>9, <1>15 DEF Done
  <2> QED BY <2>1, <2>2, <1>1, <1>4, <1>11, <1>15 DEF Base, Dark
<1>27. ReadyRests(t) /\ RuntimeOff(t) /\ GateIsOurs(t)
  <2>1. ReadyRests(t) BY <1>11, <1>15 DEF ReadyRests
  <2>2. ~w => ~C.running /\ ~C.listening /\ ~C.paused BY <1>7 DEF Off
  <2>3. RuntimeOff(t) BY <2>2, <1>11, <1>12, <1>15, <1>21 DEF RuntimeOff
  <2>4. GateIsOurs(t) BY <1>1, <1>11, <1>13, <1>15, <1>22 DEF Base, GateIsOurs
  <2> QED BY <2>1, <2>3, <2>4
<1>28. Base(t)
  BY <1>1, <1>13, <1>15, <1>17, <1>19, <1>20, <1>23, <1>24, <1>25, <1>26, <1>27 DEF Base, Counted
<1>29. At(t) # "waiting" /\ ~Using(t)
  <2>1. At(t) = "failed" BY <1>2, <1>3, <1>9, <1>12, <1>15 DEF At
  <2> QED BY <2>1, <1>11, <1>15 DEF Using
<1>30. LostIsTold(t) BY <1>4, <1>11, <1>15 DEF LostIsTold
<1>31. Bound(t)
  <2>1. Gates(t) BY <1>12, <1>15, <1>21 DEF Gates
  <2>2. CASE w BY <2>2, <2>1, <1>15, <1>12 DEF Bound, Pauses
  <2>3. CASE ~w
    <3>1. t.cluster = Off BY <2>3, <1>7, <1>15
    <3> QED BY <2>1, <3>1 DEF Bound, Pauses, Off
  <2> QED BY <2>2, <2>3
<1>32. Room(t, 3)
  <2>1. x # NoChain /\ y # NoChain BY <1>3, <1>6 DEF NoChain
  <2>2. s.chain[c] # NoChain BY <1>2 DEF NoChain
  <2>3. Idle(t) = Idle(s) \ {f} BY <2>1, <2>2, <1>4, <1>9, <1>15 DEF Idle
  <2> QED BY <1>4, <2>3
<1> QED BY <1>11, <1>15, <1>22, <1>28, <1>29, <1>30, <1>31, <1>32 DEF t

----------------------------------------------------------------------------
\* CatchOpen before it reports the error, and its bus.
Caught(s, c) ==
  LET q == [s EXCEPT !.bus.ready = FALSE, !.bus.startPromise = None, !.bus.lastError = TRUE]
      q1 == IF s.bus.pendingStop = None THEN NewStop(q, None) ELSE q
      q2 == IF s.chain[c].initial THEN ClusterStop([q1 EXCEPT !.bus.started = FALSE]) ELSE q1
  IN Settle(q2, c, "failed")
CaughtBus(b, f) ==
  [[b EXCEPT !.ready = FALSE, !.startPromise = None, !.lastError = TRUE] EXCEPT !.pendingStop = f]
CaughtIn(s, c, b) == [s EXCEPT !.chain = FailingChains(s.chain, c, Fresh(s)), !.bus = b]

\* CatchOpen's assignments, in these terms.
LEMMA Catching ==
  ASSUME NEW s \in States, NEW c \in Chains, Fresh(s) \in Chains, Fresh(s) # c,
         s.bus.pendingStop = None, s.chain[c].after = None
  PROVE  /\ ~s.chain[c].initial => Caught(s, c) = CaughtIn(s, c, CaughtBus(s.bus, Fresh(s)))
         /\ s.chain[c].initial
              => Caught(s, c) = [CaughtIn(s, c, [CaughtBus(s.bus, Fresh(s)) EXCEPT !.started = FALSE])
                                   EXCEPT !.cluster = Off]
<1> DEFINE f == Fresh(s)
           y == WaitingStop(None)
           x == Turned(s.chain[c], "failed")
           b0 == [s.bus EXCEPT !.ready = FALSE, !.startPromise = None, !.lastError = TRUE]
           b1 == [b0 EXCEPT !.pendingStop = f]
           N == With(s.chain, f, y)
           q == [s EXCEPT !.bus = b0]
           q1 == [s EXCEPT !.chain = N, !.bus = b1]
<1>1. s.chain \in [Chains -> ChainRecords] /\ s.chain[c] \in ChainRecords BY DEF States
<1>2. [s EXCEPT !.bus.ready = FALSE, !.bus.startPromise = None, !.bus.lastError = TRUE] = q
  OBVIOUS
<1>3. Fresh(q) = f
  <2>1. q.chain = s.chain BY DEF States
  <2>2. Idle(q) = Idle(s) BY <2>1 DEF Idle
  <2> QED BY <2>2 DEF Fresh
<1>4. NewStop(q, None) = q1
  <2>1. q.chain = s.chain /\ q.bus = b0 BY DEF States
  <2> HIDE DEF b0, f, y
  <2>2. NewStop(q, None) = [q EXCEPT !.chain[f] = y, !.bus.pendingStop = f]
    BY <1>3 DEF NewStop, WaitingStop, y
  <2>3. [q EXCEPT !.chain[f] = y, !.bus.pendingStop = f] = q1 BY <2>1 DEF With
  <2> QED BY <2>2, <2>3
<1>5. N[c] = s.chain[c] /\ x = [s.chain[c] EXCEPT !.at = "failed"]
  BY <1>1 DEF With, Turned, ChainRecords
<1>6. CaughtBus(s.bus, f) = b1 BY DEF CaughtBus
<1>7. FailingChains(s.chain, c, f) = With(N, c, x) BY DEF FailingChains
<1> HIDE DEF b0, y, N, f, b1, x
<1>8. CASE ~s.chain[c].initial
  <2>1. Caught(s, c) = Settle(q1, c, "failed") BY <1>2, <1>4, <1>8 DEF Caught
  <2>2. q1.chain = N BY DEF States
  <2>3. Settle(q1, c, "failed") = [q1 EXCEPT !.chain = With(N, c, x)]
    BY <1>5, <2>2 DEF Settle, With
  <2>4. [q1 EXCEPT !.chain = With(N, c, x)] = [s EXCEPT !.chain = With(N, c, x), !.bus = b1]
    OBVIOUS
  <2> QED BY <1>6, <1>7, <1>8, <2>1, <2>3, <2>4 DEF CaughtIn, f
<1>9. CASE s.chain[c].initial
  <2> DEFINE b2 == [b1 EXCEPT !.started = FALSE]
             q2 == [s EXCEPT !.chain = N, !.bus = b2, !.cluster = Off]
  <2>1. Caught(s, c) = Settle(ClusterStop([q1 EXCEPT !.bus.started = FALSE]), c, "failed")
    BY <1>2, <1>4, <1>9 DEF Caught
  <2>2. [q1 EXCEPT !.bus.started = FALSE] = [s EXCEPT !.chain = N, !.bus = b2] BY DEF States
  <2> HIDE DEF b2
  <2>3. ClusterStop([s EXCEPT !.chain = N, !.bus = b2]) = q2 BY DEF ClusterStop, Off
  <2>4. q2.chain = N BY DEF States
  <2>5. Settle(q2, c, "failed") = [q2 EXCEPT !.chain = With(N, c, x)]
    <3> HIDE DEF q2
    <3> QED BY <1>5, <2>4 DEF Settle, With
  <2>6. [q2 EXCEPT !.chain = With(N, c, x)]
          = [[s EXCEPT !.chain = With(N, c, x), !.bus = b2] EXCEPT !.cluster = Off]
    OBVIOUS
  <2> HIDE DEF q2, q1
  <2> QED BY <1>6, <1>7, <1>9, <2>1, <2>2, <2>3, <2>5, <2>6 DEF CaughtIn, f, b2
<1> QED BY <1>8, <1>9 DEF f

\* The state in which it does so has the gate that it had before.
LEMMA CaughtIs ==
  ASSUME NEW s \in States, NEW c \in Chains, Fresh(s) \in Chains, Fresh(s) # c,
         s.bus.pendingStop = None, s.chain[c].after = None, s.bus.started
  PROVE  /\ ~s.chain[c].initial => Caught(s, c) = Fails(s, c, TRUE, s.cluster)
         /\ s.chain[c].initial
              => Caught(s, c) = [Fails(s, c, FALSE, Off) EXCEPT !.bus.gate = s.bus.gate]
<1> DEFINE f == Fresh(s)
           M == FailingChains(s.chain, c, f)
           b == CaughtBus(s.bus, f)
<1>1. s.bus \in Buses /\ s.cluster = s.cluster BY DEF States
<1>2. \A w \in BOOLEAN : FailingBus(s.bus, f, w) = [b EXCEPT !.started = w, !.gate = s.bus.gate /\ w]
  BY DEF FailingBus, CaughtBus
<1>3. b.started = TRUE /\ b.gate = s.bus.gate /\ s.bus.gate \in BOOLEAN
  BY <1>1 DEF CaughtBus, Buses
<1>4. CASE ~s.chain[c].initial
  <2>1. (s.bus.gate /\ TRUE) = s.bus.gate BY <1>3
  <2>2. [b EXCEPT !.started = TRUE, !.gate = s.bus.gate] = b
    <3>1. [s.bus EXCEPT !.started = TRUE, !.gate = s.bus.gate] = s.bus BY <1>1 DEF Buses
    <3>2. [b EXCEPT !.started = TRUE, !.gate = s.bus.gate]
            = CaughtBus([s.bus EXCEPT !.started = TRUE, !.gate = s.bus.gate], f)
      BY DEF CaughtBus
    <3> QED BY <3>1, <3>2
  <2>3. FailingBus(s.bus, f, TRUE) = b BY <1>2, <2>1, <2>2
  <2> HIDE DEF b, M
  <2>4. Fails(s, c, TRUE, s.cluster) = [s EXCEPT !.chain = M, !.bus = b, !.cluster = s.cluster]
    BY <2>3 DEF Fails, M
  <2>5. [s EXCEPT !.chain = M, !.bus = b, !.cluster = s.cluster] = [s EXCEPT !.chain = M, !.bus = b]
    BY DEF States
  <2>6. Caught(s, c) = [s EXCEPT !.chain = M, !.bus = b] BY <1>4, Catching DEF CaughtIn, b, M
  <2> QED BY <1>4, <2>4, <2>5, <2>6
<1>5. CASE s.chain[c].initial
  <2> DEFINE g == s.bus.gate /\ FALSE
             b3 == [b EXCEPT !.started = FALSE]
  <2>1. [b EXCEPT !.started = FALSE, !.gate = g] = FailingBus(s.bus, f, FALSE) BY <1>2
  <2> HIDE DEF g
  <2>2. [[b EXCEPT !.started = FALSE, !.gate = g] EXCEPT !.gate = s.bus.gate] = b3
    <3>1. [s.bus EXCEPT !.gate = s.bus.gate] = s.bus BY <1>1 DEF Buses
    <3>2. [[b EXCEPT !.started = FALSE, !.gate = g] EXCEPT !.gate = s.bus.gate]
            = [CaughtBus([s.bus EXCEPT !.gate = s.bus.gate], f) EXCEPT !.started = FALSE]
      BY DEF CaughtBus
    <3> QED BY <3>1, <3>2
  <2> DEFINE b4 == FailingBus(s.bus, f, FALSE)
  <2> HIDE DEF b, M, b3, b4
  <2>3. Fails(s, c, FALSE, Off) = [s EXCEPT !.chain = M, !.bus = b4, !.cluster = Off]
    BY DEF Fails, M, b4
  <2>4. [[s EXCEPT !.chain = M, !.bus = b4, !.cluster = Off] EXCEPT !.bus.gate = s.bus.gate]
          = [s EXCEPT !.chain = M, !.bus = [b4 EXCEPT !.gate = s.bus.gate], !.cluster = Off]
    BY DEF States
  <2>5. [b4 EXCEPT !.gate = s.bus.gate] = b3 BY <2>1, <2>2 DEF b4
  <2>6. Caught(s, c) = [[s EXCEPT !.chain = M, !.bus = b3] EXCEPT !.cluster = Off]
    BY <1>5, Catching DEF CaughtIn, b, b3, M
  <2> QED BY <1>5, <2>3, <2>4, <2>5, <2>6
<1> QED BY <1>4, <1>5

----------------------------------------------------------------------------
WithGate(s, g) == [s EXCEPT !.bus.gate = g]

\* Nothing is left of the gate of a bus that is not started.
LEMMA ErrorOpensGate ==
  ASSUME NEW s \in States, ~s.bus.started, NEW g, NEW r
  PROVE  UpdateStatus(WithGate(s, g), "error", r) = UpdateStatus(s, "error", r)
<1> DEFINE e == SetStatus(s, "error")
           d == SetStatus(WithGate(s, g), "error")
           v == s.bus.connected \/ "error" = "connected"
           b == [s.bus EXCEPT !.status = "error", !.connected = v, !.topics = {}]
           bg == [s.bus EXCEPT !.gate = g]
           O == {[o EXCEPT !.on = IF @ = Gate THEN Released ELSE @] : o \in s.ops}
           b2 == [b EXCEPT !.gate = FALSE, !.demand = FALSE]
<1>1. s.bus \in Buses BY DEF States
<1>2. e = [s EXCEPT !.bus = b] BY DEF SetStatus, States
<1>3. d = [s EXCEPT !.bus = [b EXCEPT !.gate = g]]
  <2>1. bg.connected = s.bus.connected BY <1>1 DEF Buses
  <2>2. WithGate(s, g) = [s EXCEPT !.bus = bg] BY DEF WithGate
  <2> HIDE DEF bg
  <2>3. [s EXCEPT !.bus = bg].bus = bg BY DEF States
  <2>4. SetStatus([s EXCEPT !.bus = bg], "error")
          = [s EXCEPT !.bus = [bg EXCEPT !.status = "error", !.connected = v, !.topics = {}]]
    BY <2>1, <2>3 DEF SetStatus
  <2>5. [bg EXCEPT !.status = "error", !.connected = v, !.topics = {}] = [b EXCEPT !.gate = g]
    <3> HIDE DEF v
    <3> QED BY <1>1 DEF bg, Buses
  <2> QED BY <2>2, <2>4, <2>5
<1>4. ~e.bus.started /\ ~d.bus.started
  <2> HIDE DEF v
  <2>1. b.started = s.bus.started /\ [b EXCEPT !.gate = g].started = s.bus.started
    BY <1>1 DEF Buses
  <2> HIDE DEF b, e, d
  <2>2. e.bus = b /\ d.bus = [b EXCEPT !.gate = g] BY <1>2, <1>3 DEF States
  <2> QED BY <2>1, <2>2
<1> HIDE DEF b, O
<1>5. ReleaseGate([s EXCEPT !.bus = b]) = [s EXCEPT !.bus = b2, !.ops = O]
  BY DEF ReleaseGate, States, O
<1>6. ReleaseGate([s EXCEPT !.bus = [b EXCEPT !.gate = g]]) = [s EXCEPT !.bus = b2, !.ops = O]
  BY DEF ReleaseGate, States, O
<1> HIDE DEF b2, e, d
<1>7. ReleaseGate(e) = ReleaseGate(d) BY <1>2, <1>3, <1>5, <1>6
<1>8. Failed(e, r) = Handler(r, ReleaseGate(e)) /\ Failed(d, r) = Handler(r, ReleaseGate(d))
  BY <1>4 DEF Failed
<1> QED BY <1>7, <1>8 DEF UpdateStatus, e, d

\* The current opening fails.
LEMMA FinishFailedKeeps ==
  ASSUME Inv, NEW c \in Chains, NEW r, FinishOpen(c, r), Current(c),
         link.dial = "failed" \/ bus.status = "error"
  PROVE  Inv'
<1> DEFINE w == ~chain[c].initial
           C == IF w THEN Here.cluster ELSE Off
           t == Fails(Here, c, w, C)
           u == UpdateStatus(t, "error", r)
<1>1. /\ Core(Here) /\ Bound(Here) /\ Base(Here) /\ Here \in States /\ bus \in Buses
      /\ Here.page = page /\ Here.bus = bus /\ Here.chain = chain
  BY DEF Inv, Core, Base, Here, States
<1>2. Here.bus.current = c /\ Here.chain[c].at = "dialing" BY <1>1 DEF FinishOpen, Current
<1>3. /\ Here.chain[c].after = None /\ Here.chain[c].kind = "open"
      /\ Here.bus.pendingStop = None /\ Here.bus.started
  BY <1>1, <1>2, DialingIs
<1>4. Step(UpdateStatus(Caught(Here, c), "error", r), r)
  BY <1>1 DEF FinishOpen, CatchOpen, Caught
<1>5. Room(Here, 3 + 1) /\ Room(Here, 4)
  <2>1. \E s : Step(s, r) BY <1>4
  <2>2. Room(Here, 4) BY <2>1, StepHasRoom
  <2> QED BY <2>2
<1>6. Fresh(Here) \in Chains /\ Fresh(Here) # c
  <2>1. Fresh(Here) \in Chains /\ Here.chain[Fresh(Here)] = NoChain BY <1>5, FreshIsIdle
  <2> QED BY <2>1, <1>3 DEF NoChain
<1>7. w \in BOOLEAN OBVIOUS
<1>8. /\ Base(t) /\ LostIsTold(t) /\ Bound(t) /\ At(t) # "waiting" /\ ~Using(t)
      /\ Room(t, 3) /\ t.page = Here.page /\ ~Hushed(t) /\ t.bus.started = w
  <2>1. C = IF w THEN Here.cluster ELSE Off OBVIOUS
  <2> HIDE DEF w, C
  <2> QED BY <1>1, <1>2, <1>5, <1>7, <2>1, FailsKeeps
<1>9. UpdateStatus(Caught(Here, c), "error", r) = u
  <2>1. CASE ~chain[c].initial
    <3>1. Caught(Here, c) = Fails(Here, c, TRUE, Here.cluster)
      BY <1>1, <1>3, <1>6, <2>1, CaughtIs
    <3>2. w = TRUE BY <2>1
    <3> QED BY <3>1, <3>2
  <2>2. CASE chain[c].initial
    <3>1. Caught(Here, c) = WithGate(Fails(Here, c, FALSE, Off), Here.bus.gate)
      BY <1>1, <1>3, <1>6, <2>2, CaughtIs DEF WithGate
    <3>2. w = FALSE BY <2>2
    <3>3. t = Fails(Here, c, FALSE, Off) BY <3>2
    <3> HIDE DEF t
    <3>4. t \in States /\ ~t.bus.started BY <1>8, <3>2 DEF Base
    <3>5. UpdateStatus(WithGate(t, Here.bus.gate), "error", r) = UpdateStatus(t, "error", r)
      BY <3>4, ErrorOpensGate
    <3> QED BY <3>1, <3>3, <3>5
  <2> QED BY <2>1, <2>2
<1> HIDE DEF t
<1>10. "error" \in Statuses /\ ~t.bus.suspended /\ Room(t, 0 + 3)
  BY <1>8 DEF Statuses, Hushed
<1>11. Core(u) /\ Bound(u) /\ u.page = t.page BY <1>8, <1>10, UpdateStatusKeeps
<1> HIDE DEF u
<1> QED BY <1>1, <1>4, <1>8, <1>9, <1>11, StepKeeps

\* The transport's start() settled.
LEMMA FinishOpenKeeps ==
  ASSUME Inv, NEW c \in Chains, NEW r, FinishOpen(c, r)
  PROVE  Inv'
  BY FinishOldKeeps, FinishReadyKeeps, FinishFailedKeeps

----------------------------------------------------------------------------
(* The steps: handlers of settled promises.                                *)

\* The bus forgets an opening that is over.
Forgets(s) == [s EXCEPT !.bus.startPromise = None]

\* What an opening that settled leaves to its own handler.
LEMMA ForgetsKeeps ==
  ASSUME NEW s, Core(s), Bound(s), NEW c \in Chains, s.chain[c].kind = "open",
         s.chain[c].at \in {"ok", "failed"}, s.bus.startPromise = c
  PROVE  Core(Forgets(s)) /\ Bound(Forgets(s)) /\ Forgets(s).page = s.page
<1> DEFINE b == [s.bus EXCEPT !.startPromise = None]
           t == Forgets(s)
<1>1. s \in States /\ Base(s) /\ s.chain \in [Chains -> ChainRecords] /\ s.bus \in Buses
  BY DEF Core, Base, States
<1>2. c # None /\ c \notin Flying(s) /\ Latest(s) = c BY DEF Chains, None, Flying, Latest
<1>3. Flying(s) = {} BY <1>1, <1>2, QueueFirst DEF Base
<1>4. ~Hushed(s) => s.bus.ready BY <1>1, <1>2, <1>3 DEF Base, OpeningIsCurrent
<1>5. ~(s.bus.suspended /\ ~s.bus.stopping)
  <2> SUFFICES ASSUME s.bus.suspended, ~s.bus.stopping PROVE FALSE OBVIOUS
  <2>1. s.bus.pendingStop = c BY DEF Bound, Gates
  <2> QED BY <2>1, <1>1, <1>2 DEF Base, StopsAreStops
<1>6. b \in Buses BY <1>1 DEF Buses, Refs
<1>7. /\ b.started = s.bus.started /\ b.stopping = s.bus.stopping
      /\ b.suspended = s.bus.suspended /\ b.status = s.bus.status /\ b.ready = s.bus.ready
      /\ b.config = s.bus.config /\ b.current = s.bus.current /\ b.heard = s.bus.heard
      /\ b.pendingStop = s.bus.pendingStop
  BY <1>1 DEF Buses
<1>8. /\ b.down = s.bus.down /\ b.limit = s.bus.limit /\ b.attempt = s.bus.attempt
      /\ b.gate = s.bus.gate /\ b.demand = s.bus.demand /\ b.timer = s.bus.timer
      /\ b.cooled = s.bus.cooled /\ b.lastError = s.bus.lastError /\ b.startPromise = None
  BY <1>1 DEF Buses
<1>9. t = [s EXCEPT !.bus = b] BY DEF Forgets
<1> HIDE DEF t, b
<1>10. /\ t \in States /\ t.bus = b /\ t.chain = s.chain /\ t.ops = s.ops
       /\ t.link = s.link /\ t.cluster = s.cluster /\ t.page = s.page
  BY <1>1, <1>6, <1>9 DEF States
<1>11. Flying(t) = {} /\ Queued(t)
  <2>1. Flying(t) = {} BY <1>3, <1>10 DEF Flying
  <2> QED BY <2>1, QueueEmpty
<1>12. \A d : (Alive(t, d) <=> Alive(s, d)) /\ (Done(t, d) <=> Done(s, d))
  BY <1>10 DEF Alive, Done
<1>13. Chained(t) BY <1>1, <1>10 DEF Base, Chained
<1>14. Named(t)
  <2>1. Alive(t, None) BY DEF Alive, None, Chains
  <2> QED BY <2>1, <1>1, <1>7, <1>8, <1>10, <1>12 DEF Base, Named
<1>15. StopsAreStops(t) /\ CurrentIsOpen(t) /\ Phased(t) /\ OpeningIsCurrent(t)
  <2>1. StopsAreStops(t) BY <1>1, <1>7, <1>8, <1>10 DEF Base, StopsAreStops
  <2>2. CurrentIsOpen(t) BY <1>1, <1>7, <1>10, <1>11 DEF Base, CurrentIsOpen, Hushed
  <2>3. Phased(t) BY <1>1, <1>7, <1>8, <1>10 DEF Base, Phased
  <2>4. OpeningIsCurrent(t) BY <1>8, <1>10 DEF OpeningIsCurrent
  <2> QED BY <2>1, <2>2, <2>3, <2>4
<1>16. Torn(t)
  <2>1. Done(t, None) BY DEF Done
  <2> QED BY <2>1, <1>1, <1>7, <1>8, <1>10, <1>11 DEF Base, Torn
<1>17. Dark(t) BY <1>1, <1>7, <1>10, <1>12 DEF Base, Dark
<1>18. ReadyRests(t) /\ RuntimeOff(t) /\ GateIsOurs(t)
  BY <1>1, <1>7, <1>8, <1>10, <1>11 DEF Base, ReadyRests, RuntimeOff, GateIsOurs, Hushed
<1>19. Base(t)
  BY <1>1, <1>8, <1>10, <1>11, <1>13, <1>14, <1>15, <1>16, <1>17, <1>18 DEF Base, Counted
<1>20. Runs(t)
  <2>1. At(t) = At(s) /\ (Using(t) <=> Using(s)) BY <1>7, <1>10 DEF At, Using
  <2> QED BY <2>1, <1>7, <1>10 DEF Core, Runs, WaitsWell, UsesWell
<1>21. LostIsTold(t) BY <1>4, <1>7, <1>10 DEF LostIsTold, Hushed
<1>22. Kept(t) BY <1>3, <1>7, <1>8, <1>10, <1>11 DEF Core, Kept
<1>23. Bound(t) BY <1>5, <1>7, <1>10 DEF Bound, Gates, Pauses
<1> QED BY <1>10, <1>19, <1>20, <1>21, <1>22, <1>23 DEF Core, t

\* An attempt that led to a connection ends the count.
LEMMA AttemptsCalm ==
  ASSUME NEW s, Base(s)
  PROVE  LET t == [s EXCEPT !.bus.attempt = 0, !.bus.exhausted = FALSE]
         IN t \in States /\ Calm(s, t) /\ t.page = s.page
<1> DEFINE b == [s.bus EXCEPT !.attempt = 0, !.exhausted = FALSE]
           t == [s EXCEPT !.bus.attempt = 0, !.bus.exhausted = FALSE]
<1>1. s \in States /\ s.bus \in Buses BY DEF Base, States
<1>2. b \in Buses /\ t = [s EXCEPT !.bus = b] BY <1>1 DEF Buses
<1>3. /\ b.started = s.bus.started /\ b.stopping = s.bus.stopping
      /\ b.suspended = s.bus.suspended /\ b.status = s.bus.status /\ b.ready = s.bus.ready
      /\ b.config = s.bus.config /\ b.current = s.bus.current /\ b.heard = s.bus.heard
      /\ b.startPromise = s.bus.startPromise /\ b.pendingStop = s.bus.pendingStop
  BY <1>1 DEF Buses
<1>4. /\ b.down = s.bus.down /\ b.limit = s.bus.limit /\ b.attempt = 0
      /\ b.gate = s.bus.gate /\ b.demand = s.bus.demand /\ b.timer = s.bus.timer
      /\ b.cooled = s.bus.cooled /\ b.lastError = s.bus.lastError
  BY <1>1 DEF Buses
<1>5. b.limit \in Nat BY <1>1, <1>2 DEF Buses
<1> HIDE DEF b, t
<1>6. /\ t \in States /\ t.bus = b /\ t.chain = s.chain /\ t.ops = s.ops
      /\ t.link = s.link /\ t.cluster = s.cluster /\ t.page = s.page
  BY <1>1, <1>2 DEF States
<1>7. \A o \in s.ops : Alive(s, o.on) BY DEF Base, Named
<1>8. Counted(t) BY <1>4, <1>5, <1>6 DEF Counted
<1>9. Soft(s, t) BY <1>3, <1>4, <1>6, <1>7 DEF Soft
<1>10. Calm(s, t) BY <1>3, <1>4, <1>6, <1>8, <1>9 DEF Calm
<1> QED BY <1>6, <1>10 DEF t

\* So it clears the start promise, if it is still its own.
LEMMA WatchKeeps ==
  ASSUME NEW s, Core(s), Bound(s), NEW c \in Chains, s.chain[c].kind = "open",
         s.chain[c].at \in {"ok", "failed"}
  PROVE  LET t == Watch(s, c)
         IN Core(t) /\ Bound(t) /\ t.page = s.page
<1> DEFINE u == [s EXCEPT !.bus.startPromise = IF @ = c THEN None ELSE @]
           t == [u EXCEPT !.bus.attempt = 0, !.bus.exhausted = FALSE]
<1>1. s \in States /\ s.bus \in Buses BY DEF Core, Base, States
<1>2. Core(u) /\ Bound(u) /\ u.page = s.page
  <2>1. CASE s.bus.startPromise = c
    <3>1. u = Forgets(s) BY <2>1 DEF Forgets
    <3> HIDE DEF u
    <3> QED BY <2>1, <3>1, ForgetsKeeps
  <2>2. CASE s.bus.startPromise # c
    <3>1. u = s BY <1>1, <2>2 DEF States, Buses
    <3> QED BY <3>1
  <2> QED BY <2>1, <2>2
<1>3. Watch(s, c) \in {u, t} BY DEF Watch
<1> HIDE DEF u
<1>4. t \in States /\ Calm(u, t) /\ t.page = u.page BY <1>2, AttemptsCalm DEF Core
<1> HIDE DEF t
<1>5. Core(t) /\ Bound(t)
  <2>1. Core(t) BY <1>2, <1>4, CalmCore
  <2>2. Base(u) /\ Gates(u) /\ Pauses(u) BY <1>2 DEF Core, Bound
  <2>3. Gates(t) /\ Pauses(t) BY <2>2, <1>4, CalmKeeps
  <2> QED BY <2>1, <2>3 DEF Bound
<1> QED BY <1>2, <1>3, <1>4, <1>5

\* A handler of a settled opening runs.
LEMMA ContinueKeeps ==
  ASSUME Inv, NEW c \in Chains, NEW h, NEW r, Continue(c, h, r)
  PROVE  Inv'
<1> DEFINE X == chain[c].then \ {h}
           s == Handled(Here, c, X)
           t == CASE h = "watch" -> Watch(s, c)
                  [] h # "watch" /\ chain[c].at = "ok" -> ReleaseGate(s)
                  [] h = "recovery" /\ chain[c].at = "failed" -> AllowDemand(s, TRUE, r)
                  [] h = "demand" /\ chain[c].at = "failed" -> AllowDemand(s, FALSE, r)
<1>1. /\ Core(Here) /\ Bound(Here) /\ Base(Here) /\ Here \in States
      /\ Here.page = page /\ Here.bus = bus /\ Here.chain = chain
      /\ chain[c] \in ChainRecords /\ Shaped(chain[c])
  BY DEF Inv, Core, Base, States, Chained, Here
<1>2. /\ chain[c].at \in {"ok", "failed"} /\ h \in chain[c].then BY DEF Continue
<1>3. /\ chain[c].kind = "open" /\ chain[c].then \in SUBSET Handlers
  BY <1>1, <1>2 DEF Shaped, ChainRecords
<1>4. [Here EXCEPT !.chain[c].then = @ \ {h}] = s
  BY <1>1 DEF Handled, With, Here
<1>5. Step(t, r)
  <2> HIDE DEF s
  <2> QED BY <1>4 DEF Continue
<1>6. h \in Handlers /\ X \in SUBSET Handlers /\ Here.chain[c].kind = "open"
      /\ Here.chain[c].then = chain[c].then
  BY <1>1, <1>2, <1>3
<1>7. Room(Here, 0 + 1)
  <2> HIDE DEF t
  <2>1. \E u : Step(u, r) BY <1>5
  <2>2. Room(Here, 1) BY <2>1, StepHasRoom
  <2> QED BY <2>2
<1> HIDE DEF X
<1>8. /\ Base(s) /\ (Runs(Here) => Runs(s)) /\ (LostIsTold(Here) => LostIsTold(s))
      /\ (Kept(Here) /\ Here.chain[c].then \ {"watch"} \subseteq X => Kept(s))
      /\ Idle(s) = Idle(Here) /\ s.bus = Here.bus /\ s.cluster = Here.cluster
      /\ s.page = Here.page
      /\ \A d \in Chains : s.chain[d].at = Here.chain[d].at /\ s.chain[d].kind = Here.chain[d].kind
  BY <1>1, <1>6, HandledKeeps
<1> HIDE DEF s
<1>9. Base(s) /\ Runs(s) /\ LostIsTold(s) /\ Bound(s) /\ s.page = page /\ Room(s, 0 + 1)
  BY <1>1, <1>7, <1>8 DEF Core, Bound, Gates, Pauses, Room
<1>10. CASE h = "watch"
  <2>1. t = Watch(s, c) BY <1>10
  <2>2. Core(s)
    <3>1. Here.chain[c].then \ {"watch"} \subseteq X BY <1>6, <1>10 DEF X
    <3> QED BY <3>1, <1>1, <1>8, <1>9 DEF Core
  <2>3. s.chain[c].kind = "open" /\ s.chain[c].at \in {"ok", "failed"}
    BY <1>1, <1>2, <1>3, <1>8
  <2> HIDE DEF t
  <2>4. Core(t) /\ Bound(t) /\ t.page = s.page BY <1>9, <2>1, <2>2, <2>3, WatchKeeps
  <2> QED BY <1>5, <1>9, <2>4, StepKeeps
<1>11. CASE h # "watch" /\ chain[c].at = "ok"
  <2>1. t = ReleaseGate(s) BY <1>11
  <2> HIDE DEF t
  <2>2. /\ Core(t) /\ t.page = s.page /\ (Gates(s) => Gates(t)) /\ (Pauses(s) => Pauses(t))
    BY <1>9, <2>1, ReleaseKeeps
  <2> QED BY <1>5, <1>9, <2>2, StepKeeps DEF Bound
<1>12. CASE h # "watch" /\ chain[c].at = "failed"
  <2>1. t = AllowDemand(s, h = "recovery", r)
    <3>1. CASE h = "recovery"
      <4>1. (h = "recovery") = TRUE BY <3>1
      <4>2. t = AllowDemand(s, TRUE, r) BY <3>1, <1>12
      <4> QED BY <4>1, <4>2
    <3>2. CASE h # "recovery"
      <4>1. h = "demand" BY <3>2, <1>6, <1>12 DEF Handlers
      <4>2. (h = "recovery") = FALSE BY <3>2
      <4>3. t = AllowDemand(s, FALSE, r) BY <4>1, <1>12
      <4> QED BY <4>2, <4>3
    <3> QED BY <3>1, <3>2
  <2> DEFINE kick == h = "recovery"
  <2>2. kick \in BOOLEAN OBVIOUS
  <2> HIDE DEF t, kick
  <2>3. LET v == AllowDemand(s, kick, r)
        IN Core(v) /\ Bound(v) /\ Room(v, 0) /\ v.page = s.page
    BY <1>9, <2>2, AllowDemandKeeps
  <2>4. t = AllowDemand(s, kick, r) BY <2>1 DEF kick
  <2> QED BY <1>5, <1>9, <2>3, <2>4, StepKeeps
<1> QED BY <1>2, <1>10, <1>11, <1>12

----------------------------------------------------------------------------
\* An operation leaves the queue.
Without(s, o) == [s EXCEPT !.ops = s.ops \ {o}]

\* A waiting operation resumes, or is dropped.
LEMMA ResumeKeeps ==
  ASSUME Inv, NEW o, NEW r, Resume(o, r)
  PROVE  Inv'
<1> DEFINE s == Without(Here, o)
<1>1. /\ Core(Here) /\ Bound(Here) /\ Base(Here) /\ Here \in States
      /\ Here.page = page /\ Here.ops = ops
  BY DEF Inv, Core, Base, Here
<1>2. [Here EXCEPT !.ops = @ \ {o}] = s BY DEF Without
<1>3. o \in ops BY DEF Resume
<1>4. o.act \in Acts /\ {o.topic} \in SUBSET Topics
  BY <1>1, <1>3 DEF States, Waiters, Acts
<1>5. s \in States /\ Calm(Here, s) /\ s.page = page /\ s.chain = Here.chain
  <2>1. Here.ops \ {o} \subseteq Here.ops OBVIOUS
  <2>2. s \in States /\ Calm(Here, s) BY <1>1, <2>1, LeaveCalm DEF Without
  <2> QED BY <1>1, <2>2 DEF Calm, Soft
<1> HIDE DEF s
<1>6. Core(s) BY <1>1, <1>5, CalmCore
<1>7. Base(s) /\ Gates(s) /\ Pauses(s) BY <1>1, <1>5, CalmKeeps DEF Bound
<1>8. Bound(s) BY <1>7 DEF Bound
<1> DEFINE t == RunTransport(s, o.act, {o.topic}, r)
           u == Execute(s, o.act, {o.topic})
<1>9. Step(s, r) \/ Step(t, r) \/ Step(s, "ignore") \/ Step(u, "ignore")
  BY <1>2 DEF Resume
<1>10. CASE Step(s, r) \/ Step(s, "ignore") BY <1>5, <1>6, <1>8, <1>10, StepKeeps
<1>11. CASE Step(t, r)
  <2>1. Room(s, 0 + 1)
    <3>1. \E v : Step(v, r) BY <1>11
    <3>2. Room(Here, 1) BY <3>1, StepHasRoom
    <3>3. Idle(s) = Idle(Here) BY <1>5 DEF Idle
    <3> QED BY <3>2, <3>3 DEF Room
  <2>2. Remains(s, t) BY <1>4, <1>6, <2>1, RunTransportKeeps
  <2> HIDE DEF t
  <2>3. Bound(t) BY <1>8, <2>2, RemainsBound
  <2> QED BY <1>5, <1>11, <2>2, <2>3, StepKeeps DEF Remains
<1>12. CASE Step(u, "ignore")
  <2>1. o.act \in {"subscribe", "unsubscribe", "publish"} BY <1>4 DEF Acts
  <2>2. u \in States /\ Calm(s, u) BY <1>4, <1>7, <2>1, ExecuteCalm
  <2> HIDE DEF u
  <2>3. Core(u) BY <1>6, <2>2, CalmCore
  <2>4. Gates(u) /\ Pauses(u) BY <1>7, <2>2, CalmKeeps
  <2>5. u.page = page BY <1>5, <2>2 DEF Calm, Soft
  <2> QED BY <1>12, <2>3, <2>4, <2>5, StepKeeps DEF Bound
<1> QED BY <1>9, <1>10, <1>11, <1>12

\* performStop goes on: it waits for the pending stop, or stops the transport.
Tears(s, d, l) == [s EXCEPT !.bus.down = d, !.link = l]

\* Nothing of the bus itself changes meanwhile.
LEMMA TearsKeeps ==
  ASSUME NEW s, Base(s), s.bus.stopping, NEW d \in Downs, NEW l \in Links(Topics),
         l = s.link \/ (l.kind = s.link.kind /\ ~l.live),
         \/ d.at = "waiting" /\ d.on = s.bus.pendingStop /\ d.on # None
         \/ d.at = "stopping" /\ d.on = None /\ ~l.live /\ Flying(s) = {},
         Done(s, s.bus.startPromise)
  PROVE  LET t == Tears(s, d, l)
         IN Core(t) /\ Bound(t) /\ t.page = s.page
<1> DEFINE b == [s.bus EXCEPT !.down = d]
           t == Tears(s, d, l)
<1>1. s \in States /\ s.chain \in [Chains -> ChainRecords] /\ s.bus \in Buses
  BY DEF Base, States
<1>2. b \in Buses BY <1>1 DEF Buses
<1>3. /\ b.started = s.bus.started /\ b.stopping = s.bus.stopping
      /\ b.suspended = s.bus.suspended /\ b.status = s.bus.status /\ b.ready = s.bus.ready
      /\ b.config = s.bus.config /\ b.current = s.bus.current /\ b.heard = s.bus.heard
      /\ b.pendingStop = s.bus.pendingStop
  BY <1>1 DEF Buses
<1>4. /\ b.startPromise = s.bus.startPromise /\ b.limit = s.bus.limit
      /\ b.attempt = s.bus.attempt /\ b.gate = s.bus.gate /\ b.demand = s.bus.demand
      /\ b.timer = s.bus.timer /\ b.cooled = s.bus.cooled
      /\ b.lastError = s.bus.lastError /\ b.down = d
  BY <1>1 DEF Buses
<1>5. t = [s EXCEPT !.bus = b, !.link = l] BY DEF Tears
<1> HIDE DEF t, b
<1>6. /\ t \in States /\ t.bus = b /\ t.chain = s.chain /\ t.ops = s.ops
      /\ t.link = l /\ t.cluster = s.cluster /\ t.page = s.page
  BY <1>1, <1>2, <1>5 DEF States
<1>7. Flying(t) = Flying(s) /\ Latest(t) = Latest(s) BY <1>3, <1>4, <1>6 DEF Flying, Latest
<1>8. \A c : (Alive(t, c) <=> Alive(s, c)) /\ (Done(t, c) <=> Done(s, c))
  BY <1>6 DEF Alive, Done
<1>9. Chained(t) BY <1>6 DEF Base, Chained
<1>10. Named(t)
  <2>1. Alive(t, None) BY DEF Alive, None, Chains
  <2> QED BY <2>1, <1>3, <1>4, <1>6, <1>8 DEF Base, Named
<1>11. Queued(t)
  <2>1. \A c : Head(t, c) <=> Head(s, c) BY <1>6, <1>8 DEF Head
  <2> QED BY <2>1, <1>6, <1>7 DEF Base, Queued, Placed
<1>12. StopsAreStops(t) /\ CurrentIsOpen(t) /\ Phased(t) /\ OpeningIsCurrent(t)
  <2>1. StopsAreStops(t) BY <1>3, <1>4, <1>6 DEF Base, StopsAreStops, Hushed
  <2>2. CurrentIsOpen(t) BY <1>3, <1>4, <1>6, <1>7 DEF Base, CurrentIsOpen, Hushed
  <2>3. Phased(t) BY <1>3, <1>4, <1>6 DEF Base, Phased
  <2>4. OpeningIsCurrent(t) BY <1>3, <1>6 DEF OpeningIsCurrent, Hushed
  <2> QED BY <2>1, <2>2, <2>3, <2>4
<1>13. Torn(t) BY <1>3, <1>4, <1>6, <1>7, <1>8 DEF Torn
<1>14. Dark(t) BY <1>3, <1>6, <1>8 DEF Base, Dark
<1>15. ReadyRests(t) /\ RuntimeOff(t) /\ GateIsOurs(t)
  BY <1>3, <1>4, <1>6, <1>7 DEF Base, ReadyRests, RuntimeOff, GateIsOurs, Hushed
<1>16. Base(t)
  BY <1>4, <1>6, <1>9, <1>10, <1>11, <1>12, <1>13, <1>14, <1>15 DEF Base, Counted
<1>17. t.bus.stopping BY <1>3, <1>6
<1> QED BY <1>6, <1>16, <1>17, StoppingIsBound DEF t

\* performStop, past the opening.
LEMMA TearDownKeeps ==
  ASSUME Inv, TearDown
  PROVE  Inv'
<1>1. /\ Base(Here) /\ Here \in States /\ bus \in Buses /\ link \in Links(Topics)
      /\ Here.page = page /\ Here.bus = bus /\ Here.chain = chain /\ Here.link = link
      /\ chain \in [Chains -> ChainRecords]
  BY DEF Inv, Core, Base, Here, States
<1>2. bus.down.at = "opening" /\ Done(Here, bus.down.on) BY DEF TearDown
<1>3. bus.stopping /\ Done(Here, bus.startPromise)
  <2>1. bus.stopping /\ bus.startPromise \in {bus.down.on, None} BY <1>1, <1>2 DEF Base, Torn
  <2> QED BY <2>1, <1>2 DEF Done
<1>4. CASE bus.pendingStop # None
  <2> DEFINE d == [at |-> "waiting", on |-> bus.pendingStop]
             t == Tears(Here, d, link)
  <2>1. [Here EXCEPT !.bus.down = d] = t
    <3> HIDE DEF d
    <3> QED BY <1>1 DEF Tears, States
  <2>2. Step(t, "ignore")
    <3> HIDE DEF t
    <3> QED BY <1>4, <2>1 DEF TearDown
  <2>3. d \in Downs /\ d.at = "waiting" /\ d.on = bus.pendingStop BY <1>1 DEF Downs, Buses
  <2> HIDE DEF d
  <2>4. Core(t) /\ Bound(t) /\ t.page = Here.page BY <1>1, <1>3, <1>4, <2>3, TearsKeeps
  <2> HIDE DEF t
  <2> QED BY <1>1, <2>2, <2>4, StepKeeps
<1>5. CASE bus.pendingStop = None
  <2> DEFINE d == [at |-> "stopping", on |-> None]
             l == Stopped(link)
             t == Tears(Here, d, l)
  <2>1. [Here EXCEPT !.bus.down = d, !.link = Stopped(@)] = t
    <3> HIDE DEF d
    <3> QED BY <1>1 DEF Tears, States
  <2>2. Step(t, "ignore")
    <3> HIDE DEF t
    <3> QED BY <1>5, <2>1 DEF TearDown
  <2>3. d \in Downs /\ d.at = "stopping" /\ d.on = None BY DEF Downs, Refs
  <2>4. l \in Links(Topics) /\ l.kind = link.kind /\ ~l.live
    BY <1>1 DEF Stopped, Unplugged, Links, Kinds
  <2>5. Flying(Here) = {}
    <3>1. Latest(Here) \notin Flying(Here)
      BY <1>1, <1>3, <1>5 DEF Latest, Flying, Done, Chains, None
    <3> QED BY <1>1, <3>1, QueueFirst DEF Base
  <2> HIDE DEF d, l
  <2>6. Core(t) /\ Bound(t) /\ t.page = Here.page BY <1>1, <1>3, <2>3, <2>4, <2>5, TearsKeeps
  <2> HIDE DEF t
  <2> QED BY <1>1, <2>2, <2>6, StepKeeps
<1> QED BY <1>4, <1>5

\* performStop's finally leaves a bus as it was before its first start.
LEMMA ResettingKeeps ==
  ASSUME NEW s, Base(s), s.bus.stopping, ~s.link.live, Flying(s) = {}
  PROVE  LET t == Reset(s)
         IN /\ Base(t) /\ LostIsTold(t) /\ Kept(t) /\ Bound(t) /\ At(t) # "waiting" /\ ~Using(t)
            /\ Idle(t) = Idle(s) /\ t.page = s.page
<1> DEFINE d == [at |-> "none", on |-> None]
           b == [s.bus EXCEPT !.started = FALSE, !.stopping = FALSE, !.suspended = FALSE,
                              !.ready = FALSE, !.startPromise = None, !.pendingStop = None,
                              !.config = FALSE, !.attempt = 0, !.exhausted = FALSE,
                              !.topics = {}, !.down = d]
           t == Reset(s)
<1>1. s \in States /\ s.chain \in [Chains -> ChainRecords] /\ s.bus \in Buses
  BY DEF Base, States
<1>2. d \in Downs /\ d.at = "none" /\ d.on = None BY DEF Downs, Refs
<1>3. t = [s EXCEPT !.bus = b] BY DEF Reset
<1> HIDE DEF d
<1>4. b \in Buses
  <2> DEFINE b0 == [s.bus EXCEPT !.started = FALSE, !.stopping = FALSE]
             b1 == [b0 EXCEPT !.suspended = FALSE, !.ready = FALSE]
             b2 == [b1 EXCEPT !.startPromise = None, !.pendingStop = None, !.config = FALSE]
  <2>1. FALSE \in BOOLEAN /\ None \in Refs /\ 0 \in Nat /\ {} \in SUBSET Topics BY DEF Refs
  <2>2. b1 \in Buses
    <3>1. b0 \in Buses BY <1>1, <2>1 DEF Buses
    <3> HIDE DEF b0
    <3> QED BY <2>1, <3>1 DEF Buses
  <2>3. b2 \in Buses
    <3> HIDE DEF b1
    <3> QED BY <2>1, <2>2 DEF Buses
  <2>4. b = [b2 EXCEPT !.attempt = 0, !.exhausted = FALSE, !.topics = {}, !.down = d] OBVIOUS
  <2> HIDE DEF b, b2
  <2> QED BY <1>2, <2>1, <2>3, <2>4 DEF Buses
<1>5. /\ b.started = FALSE /\ b.stopping = FALSE /\ b.suspended = FALSE /\ b.ready = FALSE
      /\ b.startPromise = None /\ b.pendingStop = None
  BY <1>1 DEF Buses
<1>6. /\ b.attempt = 0 /\ b.down = d /\ b.limit = s.bus.limit /\ b.current = s.bus.current
      /\ b.heard = s.bus.heard /\ b.gate = s.bus.gate
  BY <1>1 DEF Buses
<1> HIDE DEF t, b
<1>7. /\ t \in States /\ t.bus = b /\ t.chain = s.chain /\ t.ops = s.ops
      /\ t.link = s.link /\ t.cluster = s.cluster /\ t.page = s.page
  BY <1>1, <1>3, <1>4 DEF States
<1>8. Flying(t) = {} /\ Queued(t)
  <2>1. Flying(t) = {} BY <1>7 DEF Flying
  <2> QED BY <2>1, QueueEmpty
<1>9. s.bus.current = None /\ ~s.bus.gate /\ ~s.cluster.running /\ ~s.cluster.listening
      /\ ~s.cluster.paused
  BY DEF Base, CurrentIsOpen, GateIsOurs, RuntimeOff, Hushed
<1>10. \A c : Alive(s, c) => Alive(t, c) BY <1>7 DEF Alive
<1>11. Chained(t) BY <1>7 DEF Base, Chained
<1>12. Named(t)
  <2>1. Alive(t, None) BY DEF Alive, None, Chains
  <2> QED BY <2>1, <1>2, <1>5, <1>6, <1>7, <1>9, <1>10 DEF Base, Named
<1>13. StopsAreStops(t) /\ CurrentIsOpen(t) /\ Phased(t) /\ OpeningIsCurrent(t)
  BY <1>5, <1>6, <1>7, <1>8, <1>9
     DEF StopsAreStops, CurrentIsOpen, Phased, OpeningIsCurrent, Hushed
<1>14. Torn(t) BY <1>2, <1>5, <1>6, <1>7 DEF Torn
<1>15. Dark(t)
  <2>1. \A c \in Chains : t.chain[c].at # "stopping" BY <1>8 DEF Flying
  <2> QED BY <2>1, <1>5, <1>7 DEF Dark
<1>16. ReadyRests(t) /\ RuntimeOff(t) /\ GateIsOurs(t)
  BY <1>5, <1>6, <1>7, <1>9 DEF ReadyRests, RuntimeOff, GateIsOurs
<1>17. Counted(t)
  <2>1. b.limit \in Nat BY <1>4 DEF Buses
  <2> QED BY <2>1, <1>6, <1>7 DEF Counted
<1>18. Base(t) BY <1>7, <1>8, <1>11, <1>12, <1>13, <1>14, <1>15, <1>16, <1>17 DEF Base
<1>19. At(t) = "none" /\ ~Using(t) BY <1>5, <1>6, <1>7, <1>9 DEF At, Using
<1>20. LostIsTold(t) /\ Kept(t) BY <1>5, <1>6, <1>7, <1>9 DEF LostIsTold, Kept
<1>21. Bound(t) BY <1>5, <1>7, <1>9 DEF Bound, Gates, Pauses
<1>22. Idle(t) = Idle(s) BY <1>7 DEF Idle
<1> QED BY <1>7, <1>18, <1>19, <1>20, <1>21, <1>22 DEF t

\* performStop is over.
LEMMA TornDownKeeps ==
  ASSUME Inv, NEW r, TornDown(r)
  PROVE  Inv'
<1> DEFINE t == Reset(Here)
           u == UpdateStatus(t, "disconnected", r)
<1>1. /\ Base(Here) /\ Here.page = page /\ Here.bus = bus /\ Here.chain = chain
      /\ Here.link = link /\ chain \in [Chains -> ChainRecords]
  BY DEF Inv, Core, Base, Here, States
<1>2. bus.down.at = "stopping" \/ (bus.down.at = "waiting" /\ Done(Here, bus.down.on))
  BY DEF TornDown
<1>3. bus.stopping BY <1>1, <1>2 DEF Base, Torn
<1>4. ~link.live /\ Flying(Here) = {}
  <2>1. CASE bus.down.at = "stopping" BY <2>1, <1>1 DEF Base, Torn
  <2>2. CASE bus.down.at = "waiting" /\ Done(Here, bus.down.on)
    <3>1. /\ bus.pendingStop # None /\ Done(Here, bus.pendingStop)
          /\ Done(Here, bus.startPromise)
      BY <2>2, <1>1 DEF Base, Torn
    <3>2. ~link.live BY <1>1, <3>1 DEF Base, Dark
    <3>3. Latest(Here) \notin Flying(Here)
      BY <1>1, <3>1 DEF Latest, Flying, Done, Chains, None
    <3> QED BY <1>1, <3>2, <3>3, QueueFirst DEF Base
  <2> QED BY <2>1, <2>2, <1>2
<1>5. Step(u, r) BY DEF TornDown
<1>6. /\ Base(t) /\ LostIsTold(t) /\ Kept(t) /\ Bound(t) /\ At(t) # "waiting" /\ ~Using(t)
      /\ Idle(t) = Idle(Here) /\ t.page = Here.page
  BY <1>1, <1>3, <1>4, ResettingKeeps
<1> HIDE DEF t
<1>7. Room(t, 0 + 3)
  <2> HIDE DEF u
  <2>1. \E s : Step(s, r) BY <1>5
  <2>2. Room(Here, 3) BY <2>1, StepHasRoom
  <2> QED BY <2>2, <1>6 DEF Room
<1>8. "disconnected" \in Statuses /\ "disconnected" # "error" BY DEF Statuses
<1>9. Core(u) /\ Bound(u) /\ u.page = t.page BY <1>6, <1>7, <1>8, UpdateStatusKeeps
<1> HIDE DEF u
<1> QED BY <1>1, <1>5, <1>6, <1>9, StepKeeps

Unqueued(s) == [s EXCEPT !.bus.queued = FALSE]

\* The start queued behind a stop.
LEMMA QueuedStartKeeps ==
  ASSUME Inv, NEW r, QueuedStart(r)
  PROVE  Inv'
<1> DEFINE s == Unqueued(Here)
           t == Start(s, r)
<1>1. Core(Here) /\ Bound(Here) /\ Base(Here) /\ Here.page = page BY DEF Inv, Core, Here
<1>2. Step(t, r) BY DEF QueuedStart, Unqueued
<1>3. s \in States /\ Calm(Here, s)
  <2>1. FALSE \in BOOLEAN OBVIOUS
  <2> QED BY <1>1, <2>1, QueuedCalm DEF Unqueued
<1> HIDE DEF s
<1>4. Core(s) BY <1>1, <1>3, CalmCore
<1>5. Gates(s) /\ Pauses(s) BY <1>1, <1>3, CalmKeeps DEF Bound
<1>6. s.page = page /\ s.chain = Here.chain BY <1>1, <1>3 DEF Calm, Soft
<1>7. Room(s, 0 + 4)
  <2> HIDE DEF t
  <2>1. \E u : Step(u, r) BY <1>2
  <2>2. Room(Here, 4) BY <2>1, StepHasRoom
  <2>3. Idle(s) = Idle(Here) BY <1>6 DEF Idle
  <2> QED BY <2>2, <2>3 DEF Room
<1>8. Bound(s) BY <1>5 DEF Bound
<1>9. Core(t) /\ Bound(t) /\ t.page = s.page BY <1>4, <1>7, <1>8, StartKeeps
<1> HIDE DEF t
<1> QED BY <1>2, <1>6, <1>9, StepKeeps

----------------------------------------------------------------------------
(* The invariant.                                                          *)

\* Before its first start a bus has nothing in flight.
LEMMA InitialKeeps ==
  ASSUME BusAssumption, Init
  PROVE  Inv
<1> DEFINE s == Here
<1>1. PICK setup \in Setups :
        /\ bus = [limit |-> setup.limit, started |-> FALSE, stopping |-> FALSE,
                  suspended |-> FALSE,
                  status |-> "disconnected", ready |-> FALSE, connected |-> FALSE,
                  config |-> FALSE,
                  current |-> None, heard |-> FALSE, startPromise |-> None, pendingStop |-> None,
                  queued |-> FALSE, down |-> [at |-> "none", on |-> None],
                  gate |-> FALSE, demand |-> FALSE, timer |-> FALSE, cooled |-> TRUE,
                  attempt |-> 0, exhausted |-> FALSE, lastError |-> FALSE, topics |-> {}]
        /\ chain = [c \in Chains |-> NoChain]
        /\ ops = {}
        /\ link = Unplugged(setup.kind)
        /\ cluster = [running |-> FALSE, listening |-> FALSE, paused |-> FALSE, assigned |-> {}]
        /\ page \in {"visible", "hidden"}
  BY DEF Init
<1>2. setup.limit \in Nat /\ setup.kind \in {"websocket", "worker"} BY DEF BusAssumption
<1>3. /\ bus.started = FALSE /\ bus.stopping = FALSE /\ bus.suspended = FALSE
      /\ bus.ready = FALSE /\ bus.current = None /\ bus.heard = FALSE
      /\ bus.startPromise = None /\ bus.pendingStop = None
  BY <1>1
<1>4. /\ bus.down = [at |-> "none", on |-> None] /\ bus.gate = FALSE /\ bus.attempt = 0
      /\ bus.limit = setup.limit
  BY <1>1
<1>5. bus \in Buses
  <2>1. [at |-> "none", on |-> None] \in Downs BY DEF Downs, Refs
  <2>2. None \in Refs /\ "disconnected" \in Statuses /\ 0 \in Nat /\ {} \in SUBSET Topics
    BY DEF Refs, Statuses
  <2> DEFINE d == [at |-> "none", on |-> None]
  <2> HIDE DEF d
  <2> QED BY <1>1, <1>2, <2>1, <2>2 DEF Buses, d
<1>6. /\ NoChain \in ChainRecords /\ Shaped(NoChain) /\ NoChain.at = "idle"
      /\ NoChain.after = None
  BY DEF NoChain, ChainRecords, Shaped, None
<1>7. /\ chain \in [Chains -> ChainRecords] /\ \A c \in Chains : chain[c] = NoChain
  BY <1>1, <1>6
<1>8. link \in Links(Topics) /\ ~link.live BY <1>1, <1>2 DEF Unplugged, Links, Kinds
<1>9. /\ cluster \in Clusters /\ ~cluster.running /\ ~cluster.listening /\ ~cluster.paused
  BY <1>1 DEF Clusters
<1>10. page \in Pages /\ ops \in SUBSET Waiters BY <1>1 DEF Pages
<1>11. /\ s \in States /\ s.bus = bus /\ s.chain = chain /\ s.ops = {} /\ s.link = link
       /\ s.cluster = cluster
  BY <1>1, <1>5, <1>7, <1>8, <1>9, <1>10 DEF Here, States
<1> HIDE DEF s
<1>12. Flying(s) = {} /\ Queued(s)
  <2>1. Flying(s) = {} BY <1>6, <1>7, <1>11 DEF Flying
  <2> QED BY <2>1, QueueEmpty
<1>13. Counted(s) BY <1>2, <1>4, <1>11 DEF Counted
<1>14. Chained(s) BY <1>6, <1>7, <1>11 DEF Chained
<1>15. Named(s)
  <2>1. Alive(s, None) BY DEF Alive, None, Chains
  <2>2. bus.down.on = None BY <1>4
  <2> QED BY <2>1, <2>2, <1>3, <1>6, <1>7, <1>11 DEF Named
<1>16. StopsAreStops(s) /\ CurrentIsOpen(s) /\ Phased(s) /\ OpeningIsCurrent(s)
  BY <1>3, <1>11, <1>12 DEF StopsAreStops, CurrentIsOpen, Phased, OpeningIsCurrent, Hushed
<1>17. Torn(s)
  <2>1. bus.down.at = "none" BY <1>4
  <2> QED BY <2>1, <1>3, <1>11 DEF Torn
<1>18. Dark(s) BY <1>3, <1>6, <1>7, <1>8, <1>11 DEF Dark
<1>19. ReadyRests(s) /\ RuntimeOff(s) /\ GateIsOurs(s)
  BY <1>3, <1>4, <1>9, <1>11 DEF ReadyRests, RuntimeOff, GateIsOurs
<1>20. Base(s) BY <1>11, <1>12, <1>13, <1>14, <1>15, <1>16, <1>17, <1>18, <1>19 DEF Base
<1>21. Runs(s)
  <2>1. At(s) = "none" BY <1>3, <1>11 DEF At
  <2> QED BY <2>1, <1>3, <1>11 DEF Runs, WaitsWell, UsesWell, Using
<1>22. LostIsTold(s) /\ Kept(s) BY <1>3, <1>4, <1>11 DEF LostIsTold, Kept
<1>23. Bound(s) BY <1>3, <1>9, <1>11 DEF Bound, Gates, Pauses
<1> QED BY <1>20, <1>21, <1>22, <1>23 DEF Inv, Core, s

\* Every step keeps the invariant.
LEMMA NextKeeps ==
  ASSUME Inv, Next
  PROVE  Inv'
<1>1. CASE System
  <2>1. CASE TearDown BY <2>1, TearDownKeeps
  <2>2. CASE \E c \in Chains : BeginStop(c) \/ FinishStop(c)
    BY <2>2, BeginStopKeeps, FinishStopKeeps
  <2>3. CASE \E c \in Chains : \E l \in Started(link) \cup {link} : BeginOpen(c, l)
    BY <2>3, BeginOpenKeeps
  <2>4. CASE \E r \in Reactions : TornDown(r) \/ QueuedStart(r)
    BY <2>4, TornDownKeeps, QueuedStartKeeps
  <2>5. CASE \E r \in Reactions : \E o \in ops : Resume(o, r)
    BY <2>5, ResumeKeeps
  <2>6. CASE \E r \in Reactions : \E c \in Chains : FinishOpen(c, r)
    BY <2>6, FinishOpenKeeps
  <2>7. CASE \E r \in Reactions : \E c \in Chains : \E h \in Handlers : Continue(c, h, r)
    BY <2>7, ContinueKeeps
  <2>8. CASE Elapse BY <2>8, ElapseKeeps
  <2>9. CASE \E r \in Reactions : Recover(r) \/ Opens(r)
    BY <2>9, RecoverKeeps, TransportEventsKeep
  <2> QED BY <1>1, <2>1, <2>2, <2>3, <2>4, <2>5, <2>6, <2>7, <2>8, <2>9 DEF System, Promises
<1>2. CASE StopCall BY <1>2, StopCallKeeps
<1>3. CASE VisibilityChange BY <1>3, VisibilityChangeKeeps
<1>4. CASE \E r \in Reactions : StartCall(r) \/ PageShow(r)
  BY <1>4, StartCallKeeps, PageShowKeeps
<1>5. CASE \E r \in Reactions : Closes(r) \/ Breaks(r) \/ Redials(r)
  BY <1>5, TransportEventsKeep
<1>6. CASE \E r \in Reactions : \E t \in Topics : Assign(t, r) \/ Unassign(t, r) \/ Publish(t, r)
  BY <1>6, AssignKeeps, UnassignKeeps, PublishKeeps
<1>7. CASE \E r \in Reactions : \E handed \in SUBSET cluster.assigned : PageHide(handed, r)
  BY <1>7, PageHideKeeps
<1> QED BY <1>1, <1>2, <1>3, <1>4, <1>5, <1>6, <1>7 DEF Next

\* The invariant holds in every reachable state.
THEOREM Invariance == Spec => []Inv
<1>1. Init => Inv BY BusAssumption, InitialKeeps
<1>2. Inv /\ [Next]_vars => Inv'
  <2>1. Inv /\ Next => Inv' BY NextKeeps
  <2>2. Inv /\ UNCHANGED vars => Inv' BY DEF Inv, Here, vars
  <2> QED BY <2>1, <2>2
<1> QED BY <1>1, <1>2, PTL DEF Spec

----------------------------------------------------------------------------
(* What it shows.                                                          *)

\* TypeOK, of a bus whose runs may be of any length.
THEOREM Types == Spec => []TypeOK
<1>1. Inv => TypeOK
  <2> SUFFICES ASSUME Inv PROVE TypeOK OBVIOUS
  <2>1. /\ Base(Here) /\ Here \in States /\ Here.bus = bus /\ Here.chain = chain
        /\ bus \in Buses /\ chain \in [Chains -> ChainRecords] /\ ops \in SUBSET Waiters
        /\ link \in Links(Topics) /\ cluster \in Clusters
    BY DEF Inv, Core, Base, States, Here
  <2>2. bus.status \in Statuses /\ bus.topics \subseteq Topics BY <2>1 DEF Buses
  <2>3. {bus.current, bus.startPromise, bus.pendingStop, bus.down.on} \subseteq Chains \cup {None}
        /\ bus.down.at \in {"none", "opening", "waiting", "stopping"}
    BY <2>1 DEF Buses, Downs, Refs
  <2>4. bus.attempt \in 0..(bus.limit + 1)
    <3>1. bus.attempt \in Nat /\ bus.limit \in Nat BY <2>1 DEF Buses
    <3>2. bus.attempt <= bus.limit + 1 BY <2>1 DEF Base, Counted
    <3> QED BY <3>1, <3>2
  <2>5. \A c \in Chains : chain[c].after # c
    <3> SUFFICES ASSUME NEW c \in Chains, chain[c].after = c PROVE FALSE OBVIOUS
    <3>1. c # None BY DEF Chains, None
    <3>2. chain[c].at = "waiting" BY <2>1, <3>1 DEF Base, Chained, Shaped
    <3>3. ~Head(Here, c) /\ c \in Flying(Here) BY <2>1, <3>1, <3>2 DEF Head, Done, Flying
    <3>4. PICK pos \in [Chains -> Int] : Placed(Here, pos) BY <2>1 DEF Base, Queued
    <3>5. pos[c] = pos[c] + 1 BY <2>1, <3>3, <3>4 DEF Placed
    <3>6. pos[c] \in Int BY <3>4
    <3> QED BY <3>5, <3>6
  <2>6. cluster.assigned \subseteq Topics BY <2>1 DEF Clusters
  <2> QED BY <2>1, <2>2, <2>3, <2>4, <2>5, <2>6 DEF TypeOK
<1> QED BY <1>1, Invariance, PTL

\* A stop that nothing in flight precedes is over, and took the transport down.
LEMMA StopIsOver ==
  ASSUME NEW s, Base(s), Flying(s) = {}, s.bus.pendingStop # None
  PROVE  ~s.link.live
<1> DEFINE c == s.bus.pendingStop
<1>1. c \in Chains BY DEF Base, States, Buses, Refs
<1>2. s.chain[c].kind = "stop" /\ s.chain[c].at # "idle" /\ Shaped(s.chain[c])
  BY <1>1 DEF Base, StopsAreStops, Named, Alive, Chained
<1>3. s.chain[c].at = "ok" BY <1>1, <1>2 DEF Shaped, Flying
<1> QED BY <1>1, <1>3 DEF Base, Dark, Done

\* CallsInOrder: calls of the transport never overlap, and the last one wins.
THEOREM Order == Spec => []CallsInOrder
<1>1. Inv => CallsInOrder
  <2> SUFFICES ASSUME Inv PROVE CallsInOrder OBVIOUS
  <2>1. /\ Base(Here) /\ Here.bus = bus /\ Here.chain = chain /\ Here.link = link
        /\ chain \in [Chains -> ChainRecords] /\ Flying(Here) = InFlight
        /\ Calls \subseteq Flying(Here)
    BY DEF Inv, Core, Base, States, Here, InFlight, Flying, Calls
  <2>2. OneLifecycleCall
    <3>1. CASE bus.down.at = "stopping" BY <2>1, <3>1 DEF Base, Torn, OneLifecycleCall
    <3>2. CASE bus.down.at # "stopping"
      <4>1. \A c, d \in Calls : c = d
        <5>1. \A c \in Calls : Head(Here, c) BY <2>1 DEF Calls, Head
        <5> QED BY <2>1, <5>1, QueueFirst DEF Base
      <4>2. Cardinality(Calls) <= 1
        <5>1. CASE Calls = {} BY <5>1, FS_EmptySet
        <5>2. CASE Calls # {}
          <6>1. PICK c : c \in Calls BY <5>2
          <6>2. Calls = {c} BY <4>1, <6>1
          <6> QED BY <6>2, FS_Singleton
        <5> QED BY <5>1, <5>2
      <4> QED BY <3>2, <4>2 DEF OneLifecycleCall
    <3> QED BY <3>1, <3>2
  <2>3. SuspendedIsGated BY <2>1 DEF Inv, Bound, Gates, SuspendedIsGated
  <2>4. StoppedIsDown
    <3> SUFFICES ASSUME ~bus.started \/ bus.suspended, InFlight = {}, bus.down.at = "none"
                 PROVE  ~link.live
      BY DEF StoppedIsDown
    <3>1. ~bus.stopping BY <2>1 DEF Base, Torn
    <3>2. CASE bus.pendingStop # None BY <2>1, <3>2, StopIsOver
    <3>3. CASE bus.pendingStop = None
      <4>1. ~bus.started BY <2>3, <3>1, <3>3 DEF SuspendedIsGated
      <4> QED BY <2>1, <3>1, <3>3, <4>1 DEF Base, Dark
    <3> QED BY <3>2, <3>3
  <2> QED BY <2>2, <2>3, <2>4 DEF CallsInOrder
<1> QED BY <1>1, Invariance, PTL

\* GateHasKeeper: somebody will open a closed recovery gate.
THEOREM Gatekeeping == Spec => []GateHasKeeper
<1>1. Inv => GateHasKeeper
  <2> SUFFICES ASSUME Inv, bus.gate, ~bus.timer, ~bus.demand,
                      ~\E c \in Chains : {"recovery", "demand"} \cap chain[c].then # {}
               PROVE  \E c \in Chains : /\ chain[c].kind = "open"
                                        /\ c = bus.current /\ c \in InFlight
    BY DEF GateHasKeeper
  <2>1. /\ Base(Here) /\ Kept(Here) /\ Here.bus = bus /\ Here.chain = chain
        /\ Flying(Here) = InFlight
    BY DEF Inv, Core, Here, InFlight, Flying
  <2>2. bus.current \in InFlight BY <2>1 DEF Kept
  <2>3. bus.current \in Chains /\ bus.current # None BY <2>2 DEF InFlight, Chains, None
  <2>4. chain[bus.current].kind = "open" BY <2>1, <2>3 DEF Base, CurrentIsOpen
  <2> QED BY <2>2, <2>3, <2>4
<1> QED BY <1>1, Invariance, PTL

\* The conditions of ready()'s returns.
LEMMA ReturnsAre ==
  /\ ReadyReturns[2][1] = bus.stopping /\ ReadyReturns[3][1] = bus.suspended
  /\ ReadyReturns[4][1] = ~bus.started /\ ReadyReturns[5][1] = (bus.startPromise # None)
  /\ ReadyReturns[6][1] = bus.ready /\ ReadyReturns[7][1] = bus.lastError
  BY DEF ReadyReturns

\* ready() takes the first of its returns whose condition holds.
LEMMA FirstReturn ==
  \E i \in 1..8 : /\ ReadyAnswer = ReadyReturns[i][2] /\ ReadyReturns[i][1]
                  /\ \A j \in 1..(i - 1) : ~ReadyReturns[j][1]
<1> DEFINE P(i) == ReadyReturns[i][1]
           Q(i) == P(i) /\ \A j \in 1..(i - 1) : ~P(j)
<1>1. P(8) BY DEF ReadyReturns
<1> HIDE DEF P
<1>2. \E i \in 1..8 : Q(i)
  <2>1. CASE P(1) BY <2>1
  <2>2. CASE P(2) /\ ~P(1) BY <2>2
  <2>3. CASE P(3) /\ ~P(2) /\ ~P(1) BY <2>3
  <2>4. CASE P(4) /\ ~P(3) /\ ~P(2) /\ ~P(1) BY <2>4
  <2>5. CASE P(5) /\ ~P(4) /\ ~P(3) /\ ~P(2) /\ ~P(1) BY <2>5
  <2>6. CASE P(6) /\ ~P(5) /\ ~P(4) /\ ~P(3) /\ ~P(2) /\ ~P(1) BY <2>6
  <2>7. CASE P(7) /\ ~P(6) /\ ~P(5) /\ ~P(4) /\ ~P(3) /\ ~P(2) /\ ~P(1) BY <2>7
  <2>8. CASE ~P(7) /\ ~P(6) /\ ~P(5) /\ ~P(4) /\ ~P(3) /\ ~P(2) /\ ~P(1) BY <1>1, <2>8
  <2> QED BY <2>1, <2>2, <2>3, <2>4, <2>5, <2>6, <2>7, <2>8
<1> DEFINE k == CHOOSE i \in 1..8 : Q(i)
<1>3. k \in 1..8 /\ Q(k)
  <2> HIDE DEF Q
  <2> QED BY <1>2
<1>4. ReadyAnswer = ReadyReturns[k][2] BY DEF ReadyAnswer, P
<1> HIDE DEF k
<1> QED BY <1>3, <1>4 DEF P

\* ReadyIsReal: ready() answers for an opening, and a ready bus hears its transport.
THEOREM Readiness == Spec => []ReadyIsReal
<1>1. Inv => ReadyIsReal
  <2> SUFFICES ASSUME Inv PROVE ReadyIsReal OBVIOUS
  <2>1. /\ Base(Here) /\ Runs(Here) /\ LostIsTold(Here)
        /\ Here.bus = bus /\ Here.chain = chain /\ Here.link = link
    BY DEF Inv, Core, Here
  <2>2. PICK i \in 1..8 : /\ ReadyAnswer = ReadyReturns[i][2] /\ ReadyReturns[i][1]
                          /\ \A j \in 1..(i - 1) : ~ReadyReturns[j][1]
    BY FirstReturn
  <2>3. ReadyAnswer # "lost"
    <3> SUFFICES ASSUME ReadyAnswer = "lost" PROVE FALSE OBVIOUS
    <3>1. i = 8 BY <2>2 DEF ReadyReturns
    <3>2. \A j \in 1..7 : ~ReadyReturns[j][1] BY <2>2, <3>1
    <3>3. ~bus.stopping /\ ~bus.suspended /\ bus.started /\ bus.startPromise = None
          /\ ~bus.ready /\ ~bus.lastError
      <4>1. /\ ~ReadyReturns[2][1] /\ ~ReadyReturns[3][1] /\ ~ReadyReturns[4][1]
            /\ ~ReadyReturns[5][1] /\ ~ReadyReturns[6][1] /\ ~ReadyReturns[7][1]
        BY <3>2
      <4> QED BY <4>1, ReturnsAre, Zenon
    <3> QED BY <2>1, <3>3 DEF LostIsTold, Hushed
  <2>4. ASSUME ReadyAnswer = "opening"
        PROVE  /\ chain[bus.startPromise].kind = "open"
               /\ chain[bus.startPromise].at = "ok" => bus.ready
    <3>1. i = 5 BY <2>2, <2>4 DEF ReadyReturns
    <3>2. ReadyReturns[5][1] /\ \A j \in 1..4 : ~ReadyReturns[j][1] BY <2>2, <3>1
    <3>3. ~bus.stopping /\ ~bus.suspended /\ bus.startPromise # None
      <4>1. ~ReadyReturns[2][1] /\ ~ReadyReturns[3][1] /\ ReadyReturns[5][1] BY <3>2
      <4> QED BY <4>1, ReturnsAre, Zenon
    <3>4. ~Hushed(Here) BY <2>1, <3>3 DEF Hushed
    <3>5. chain[bus.startPromise].kind = "open" BY <2>1, <3>3, <3>4, ActiveIsOpen
    <3>6. chain[bus.startPromise].at = "ok" => bus.startPromise \notin Flying(Here)
      BY <2>1 DEF Flying
    <3> QED BY <2>1, <3>3, <3>4, <3>5, <3>6 DEF Base, OpeningIsCurrent
  <2>5. ReadyIsHeard BY <2>1 DEF Runs, UsesWell, Using, ReadyIsHeard
  <2> QED BY <2>3, <2>4, <2>5 DEF ReadyIsReal, ReadyIsAnswered
<1> QED BY <1>1, Invariance, PTL

----------------------------------------------------------------------------
(* No connection is taken for a new one: only BeginOpen starts the         *)
(* transport.  The functions of Lifecycle only begin chains that wait.     *)

\* No opening dials in s that did not in a.
NoneDials(a, s) ==
  /\ DOMAIN s = {"bus", "chain", "ops", "link", "cluster", "page"}
  /\ DOMAIN s.chain = Chains
  /\ \A c \in Chains : /\ "at" \in DOMAIN s.chain[c]
                       /\ s.chain[c].at = "dialing" => a.chain[c].at = "dialing"

\* What leaves the chains alone starts none.
LEMMA SameDials ==
  ASSUME NEW a, NEW s, NoneDials(a, s), NEW t, DOMAIN t = DOMAIN s, t.chain = s.chain
  PROVE  NoneDials(a, t)
  BY DEF NoneDials

\* The functions that do.
LEMMA SimplyNoneDials ==
  ASSUME NEW a, NEW s, NoneDials(a, s)
  PROVE  /\ NoneDials(a, ReleaseGate(s)) /\ NoneDials(a, CancelRecovery(s))
         /\ \A keep : NoneDials(a, ResetFailure(s, keep))
         /\ \A status : NoneDials(a, SetStatus(s, status))
         /\ \A owner : NoneDials(a, NewEpoch(s, owner))
         /\ NoneDials(a, ClusterStop(s)) /\ NoneDials(a, Gated(s))
<1> USE SameDials DEF NoneDials
<1>1. NoneDials(a, ReleaseGate(s)) BY DEF ReleaseGate
<1>2. NoneDials(a, CancelRecovery(s)) BY DEF CancelRecovery
<1>3. ASSUME NEW keep PROVE NoneDials(a, ResetFailure(s, keep))
  <2> DEFINE s1 == [s EXCEPT !.bus.timer = FALSE, !.bus.demand = FALSE,
                             !.bus.attempt = 0, !.bus.exhausted = FALSE, !.bus.cooled = TRUE,
                             !.bus.lastError = FALSE]
  <2>1. NoneDials(a, s1) OBVIOUS
  <2>2. NoneDials(a, ReleaseGate(s1))
    <3> HIDE DEF s1
    <3> QED BY <2>1 DEF ReleaseGate
  <2>3. ResetFailure(s, keep) = IF keep THEN s1 ELSE ReleaseGate(s1) BY DEF ResetFailure
  <2> HIDE DEF s1, NoneDials
  <2> QED BY <2>1, <2>2, <2>3, Zenon
<1>4. ASSUME NEW status PROVE NoneDials(a, SetStatus(s, status)) BY DEF SetStatus
<1>5. ASSUME NEW owner PROVE NoneDials(a, NewEpoch(s, owner)) BY DEF NewEpoch
<1>6. NoneDials(a, ClusterStop(s)) BY DEF ClusterStop
<1>7. NoneDials(a, Gated(s)) BY DEF Gated
<1> HIDE DEF NoneDials
<1> QED BY <1>1, <1>2, <1>3, <1>4, <1>5, <1>6, <1>7

\* The operation itself, and its wait.
LEMMA OperationsDialNone ==
  ASSUME NEW a, NEW s, NoneDials(a, s), NEW act \in {"subscribe", "unsubscribe", "publish"},
         NEW topics
  PROVE  /\ NoneDials(a, Execute(s, act, topics))
         /\ \A on : NoneDials(a, Wait(s, act, topics, on))
<1>1. NoneDials(a, Execute(s, act, topics)) BY SameDials DEF Execute, NoneDials
<1>2. ASSUME NEW on PROVE NoneDials(a, Wait(s, act, topics, on))
  BY SameDials DEF Wait, NoneDials
<1> QED BY <1>1, <1>2

\* A chain begins by waiting.
LEMMA BegunDialNone ==
  ASSUME NEW a, NEW s, NoneDials(a, s)
  PROVE  /\ \A h : NoneDials(a, Attach(s, h))
         /\ \A after : NoneDials(a, NewStop(s, after))
         /\ \A after, initial, trace : NoneDials(a, NewOpening(s, after, initial, trace))
<1>1. ASSUME NEW h PROVE NoneDials(a, Attach(s, h)) BY DEF Attach, NoneDials
<1>2. ASSUME NEW after PROVE NoneDials(a, NewStop(s, after))
  <2> DEFINE x == [NoChain EXCEPT !.kind = "stop", !.at = "waiting", !.after = after]
  <2>1. x.at = "waiting" /\ "at" \in DOMAIN x BY DEF NoChain
  <2>2. NewStop(s, after) = [s EXCEPT !.chain[Fresh(s)] = x, !.bus.pendingStop = Fresh(s)]
    BY DEF NewStop
  <2> HIDE DEF x
  <2> QED BY <2>1, <2>2 DEF NoneDials
<1>3. ASSUME NEW after, NEW initial, NEW trace
      PROVE  NoneDials(a, NewOpening(s, after, initial, trace))
  <2> DEFINE x == [kind |-> "open", at |-> "waiting", after |-> after,
                   initial |-> initial, trace |-> trace, then |-> {}]
             e == NewEpoch(s, Fresh(s))
  <2>1. x.at = "waiting" /\ "at" \in DOMAIN x OBVIOUS
  <2>2. NewOpening(s, after, initial, trace) =
          [e EXCEPT !.chain[Fresh(s)] = x, !.bus.startPromise = Fresh(s),
                    !.bus.started = TRUE, !.bus.suspended = FALSE, !.bus.ready = FALSE]
    BY DEF NewOpening
  <2>3. NoneDials(a, e) BY SimplyNoneDials
  <2> HIDE DEF x, e
  <2> QED BY <2>1, <2>2, <2>3 DEF NoneDials
<1> QED BY <1>1, <1>2, <1>3

\* The ends of stop and suspension.
LEMMA StopsDialNone ==
  ASSUME NEW a, NEW s, NoneDials(a, s)
  PROVE  NoneDials(a, Stop(s)) /\ NoneDials(a, StopSuspended(s))
<1>1. NoneDials(a, Stop(s))
  <2> DEFINE s1 == [s EXCEPT !.bus.queued = FALSE]
             s2 == [NewEpoch(s1, None) EXCEPT !.bus.stopping = TRUE]
             begun == ClusterStop(CancelRecovery(s2))
             t == [begun EXCEPT !.bus.down = [at |-> "opening", on |-> s.bus.startPromise]]
  <2>1. NoneDials(a, s1) BY SameDials DEF NoneDials
  <2>2. NoneDials(a, NewEpoch(s1, None))
    <3> HIDE DEF s1
    <3> QED BY <2>1, SimplyNoneDials
  <2>3. NoneDials(a, s2) BY <2>2, SameDials DEF NoneDials
  <2>4. NoneDials(a, begun)
    <3> HIDE DEF s2
    <3>1. NoneDials(a, CancelRecovery(s2)) BY <2>3, SimplyNoneDials
    <3> QED BY <3>1, SimplyNoneDials
  <2>5. NoneDials(a, t)
    <3> HIDE DEF begun
    <3> QED BY <2>4, SameDials DEF NoneDials
  <2>6. Stop(s) = s1 \/ Stop(s) = t BY DEF Stop
  <2> HIDE DEF s1, t
  <2> QED BY <2>1, <2>5, <2>6
<1>2. NoneDials(a, StopSuspended(s))
  BY SimplyNoneDials, BegunDialNone DEF StopSuspended
<1> QED BY <1>1, <1>2

----------------------------------------------------------------------------
(* A start() that a status handler called.                                 *)

\* reopenTransport.
LEMMA PlainReopenDialsNone ==
  ASSUME NEW a, NEW s, NoneDials(a, s), NEW byTimer, NEW r
  PROVE  NoneDials(a, Plain!Reopen(s, byTimer, r))
<1> DEFINE tr == byTimer \/ s.bus.attempt > 0
           t == SetStatus(NewOpening(s, Latest(s), FALSE, tr), "connecting")
<1>1. \/ Plain!Reopen(s, byTimer, r) = s
      \/ Plain!Reopen(s, byTimer, r) = t
      \/ Plain!Reopen(s, byTimer, r) = Attach(t, "watch")
  BY PlainSame DEF Plain!Reopen, Plain!Reopened, Ignored
<1> HIDE DEF tr
<1>2. NoneDials(a, t) BY SimplyNoneDials, BegunDialNone
<1> HIDE DEF t
<1> QED BY <1>1, <1>2, BegunDialNone

\* suspendTransport and cluster.start().
LEMMA PlainSuspendDialsNone ==
  ASSUME NEW a, NEW s, NoneDials(a, s), NEW r
  PROVE  /\ NoneDials(a, Plain!SuspendTransport(s, r))
         /\ NoneDials(a, Plain!ClusterStart(s, r))
<1>1. ASSUME NEW u, NoneDials(a, u) PROVE NoneDials(a, Plain!SuspendTransport(u, r))
  <2> DEFINE e == CancelRecovery(NewEpoch(u, None))
             h == [e EXCEPT !.bus.suspended = TRUE, !.bus.ready = FALSE, !.bus.topics = {}]
  <2>1. NoneDials(a, e) BY <1>1, SimplyNoneDials
  <2>2. NoneDials(a, h)
    <3> HIDE DEF e
    <3> QED BY <2>1, SameDials DEF NoneDials
  <2>3. \/ Plain!SuspendTransport(u, r) = u
        \/ Plain!SuspendTransport(u, r) = StopSuspended(Plain!UpdateStatus(h, "disconnected", r))
    BY PlainSame DEF Plain!SuspendTransport
  <2> HIDE DEF h
  <2>4. Plain!UpdateStatus(h, "disconnected", r) = SetStatus(h, "disconnected")
    BY PlainSame DEF Plain!UpdateStatus, Ignored
  <2> QED BY <1>1, <2>2, <2>3, <2>4, SimplyNoneDials, StopsDialNone
<1>2. NoneDials(a, Plain!ClusterStart(s, r))
  <2> DEFINE u == [s EXCEPT !.cluster.listening = TRUE, !.cluster.paused = TRUE]
             v == [s EXCEPT !.cluster.listening = TRUE, !.cluster.paused = FALSE,
                            !.cluster.running = TRUE]
  <2>1. NoneDials(a, u) /\ NoneDials(a, v) BY SameDials DEF NoneDials
  <2>2. \/ Plain!ClusterStart(s, r) = s \/ Plain!ClusterStart(s, r) = v
        \/ Plain!ClusterStart(s, r) = Plain!SuspendTransport(u, r)
    BY DEF Plain!ClusterStart
  <2> HIDE DEF u, v
  <2> QED BY <1>1, <2>1, <2>2
<1> QED BY <1>1, <1>2

\* start().
LEMMA PlainStartDialsNone ==
  ASSUME NEW a, NEW s, NoneDials(a, s), NEW r
  PROVE  NoneDials(a, Plain!Start(s, r))
<1>1. \A keep : NoneDials(a, [ResetFailure(s, keep) EXCEPT !.bus.config = TRUE])
  <2> TAKE keep
  <2> DEFINE u == ResetFailure(s, keep)
  <2>1. NoneDials(a, u) BY SimplyNoneDials
  <2> HIDE DEF u
  <2>2. NoneDials(a, [u EXCEPT !.bus.config = TRUE]) BY <2>1, SameDials DEF NoneDials
  <2> QED BY <2>2 DEF u
<1>2. NoneDials(a, Plain!Restart(s, r))
  <2> DEFINE u == [ResetFailure(s, TRUE) EXCEPT !.bus.config = TRUE]
             t == Plain!Reopen(u, FALSE, r)
  <2>1. NoneDials(a, u) BY <1>1
  <2>2. \/ Plain!Restart(s, r) = s \/ Plain!Restart(s, r) = t
        \/ Plain!Restart(s, r) = Plain!ClusterStart(t, r)
    BY PlainSame DEF Plain!Restart, Plain!Resumed
  <2> HIDE DEF u
  <2>3. NoneDials(a, t) BY <2>1, PlainReopenDialsNone
  <2> HIDE DEF t
  <2> QED BY <2>2, <2>3, PlainSuspendDialsNone
<1>3. NoneDials(a, Plain!FirstStart(s, r))
  <2> DEFINE u == [ResetFailure(s, FALSE) EXCEPT !.bus.config = TRUE]
             o == NewOpening(u, s.bus.pendingStop, TRUE, FALSE)
             t == SetStatus(o, "connecting")
             j == Plain!Join(t, Fresh(s), r)
  <2>1. NoneDials(a, u) BY <1>1
  <2> HIDE DEF u
  <2>2. NoneDials(a, t)
    <3>1. NoneDials(a, o) BY <2>1, BegunDialNone
    <3> HIDE DEF o
    <3> QED BY <3>1, SimplyNoneDials
  <2>3. Plain!UpdateStatus(o, "connecting", r) = t
    <3> HIDE DEF o
    <3> QED BY PlainSame DEF Plain!UpdateStatus, Ignored
  <2>4. Plain!FirstStart(s, r) = Plain!Joined(j, Fresh(s))
    <3> HIDE DEF t
    <3> QED BY <2>3, PlainSame DEF Plain!FirstStart, u
  <2> HIDE DEF t
  <2>5. NoneDials(a, j) BY <2>2, PlainSuspendDialsNone DEF Plain!Join
  <2> HIDE DEF j
  <2>6. \/ Plain!Joined(j, Fresh(s)) = j \/ Plain!Joined(j, Fresh(s)) = Attach(j, "watch")
    BY PlainSame DEF Plain!Joined
  <2> QED BY <2>4, <2>5, <2>6, BegunDialNone
<1>4. NoneDials(a, [s EXCEPT !.bus.queued = TRUE]) BY SameDials DEF NoneDials
<1>5. \/ Plain!Start(s, r) = [s EXCEPT !.bus.queued = TRUE] \/ Plain!Start(s, r) = s
      \/ Plain!Start(s, r) = Plain!Restart(s, r) \/ Plain!Start(s, r) = Plain!FirstStart(s, r)
  BY DEF Plain!Start
<1> QED BY <1>2, <1>3, <1>4, <1>5

\* What a status handler does.
LEMMA HandlerDialsNone ==
  ASSUME NEW a, NEW s, NoneDials(a, s), NEW r
  PROVE  NoneDials(a, Handler(r, s))
<1>1. \/ Handler(r, s) = Stop(s) \/ Handler(r, s) = Plain!Start(s, "ignore") \/ Handler(r, s) = s
  BY PlainSame DEF Handler
<1> QED BY <1>1, StopsDialNone, PlainStartDialsNone

----------------------------------------------------------------------------
(* Everybody else.                                                         *)

\* reopenTransport and startDemandRecovery.
LEMMA ReopenDialsNone ==
  ASSUME NEW a, NEW s, NoneDials(a, s), NEW byTimer, NEW r
  PROVE  NoneDials(a, Reopen(s, byTimer, r)) /\ NoneDials(a, DemandRecovery(s, r))
<1>1. ASSUME NEW u, NoneDials(a, u), NEW timer PROVE NoneDials(a, Reopen(u, timer, r))
  <2> DEFINE tr == timer \/ u.bus.attempt > 0
             v == SetStatus(NewOpening(u, Latest(u), FALSE, tr), "connecting")
             t == Handler(r, v)
  <2>1. \/ Reopen(u, timer, r) = u \/ Reopen(u, timer, r) = t
        \/ Reopen(u, timer, r) = Attach(t, "watch")
    BY DEF Reopen, Reopened
  <2> HIDE DEF tr
  <2>2. NoneDials(a, v) BY <1>1, SimplyNoneDials, BegunDialNone
  <2> HIDE DEF v
  <2>3. NoneDials(a, t) BY <2>2, HandlerDialsNone
  <2> HIDE DEF t
  <2> QED BY <1>1, <2>1, <2>3, BegunDialNone
<1>2. NoneDials(a, DemandRecovery(s, r))
  <2> DEFINE u == [s EXCEPT !.bus.demand = FALSE]
             t == Reopen(u, FALSE, r)
  <2>1. NoneDials(a, u) BY SameDials DEF NoneDials
  <2>2. DemandRecovery(s, r) = s \/ DemandRecovery(s, r) = Attach(t, "demand")
    BY DEF DemandRecovery
  <2> HIDE DEF u
  <2>3. NoneDials(a, t) BY <1>1, <2>1
  <2> HIDE DEF t
  <2> QED BY <2>2, <2>3, BegunDialNone
<1> QED BY <1>1, <1>2

\* runTransport, subscribeTransport, unsubscribeTransport.
LEMMA TransportDialsNone ==
  ASSUME NEW a, NEW s, NoneDials(a, s), NEW topics, NEW r
  PROVE  /\ \A act \in Acts : NoneDials(a, RunTransport(s, act, topics, r))
         /\ NoneDials(a, SubscribeTransport(s, topics, r))
         /\ NoneDials(a, UnsubscribeTransport(s, topics, r))
<1>1. ASSUME NEW u, NoneDials(a, u), NEW act \in Acts, NEW ts
      PROVE  NoneDials(a, RunTransport(u, act, ts, r))
  <2> DEFINE p == DemandRecovery(u, r)
             q == EnsureOpening(u, r)
  <2>1. NoneDials(a, p) BY <1>1, ReopenDialsNone, Zenon
  <2>2. NoneDials(a, q) BY <1>1, ReopenDialsNone DEF EnsureOpening
  <2>3. \/ RunTransport(u, act, ts, r) = u
        \/ RunTransport(u, act, ts, r) = Park(p, act, ts)
        \/ RunTransport(u, act, ts, r) = Execute(u, act, ts)
        \/ RunTransport(u, act, ts, r) = AwaitOpening(q, act, ts)
    BY DEF RunTransport
  <2> HIDE DEF p, q
  <2>4. NoneDials(a, Park(p, act, ts)) BY <2>1, OperationsDialNone DEF Park, Acts
  <2>5. NoneDials(a, AwaitOpening(q, act, ts)) BY <2>2, OperationsDialNone DEF AwaitOpening, Acts
  <2>6. NoneDials(a, Execute(u, act, ts)) BY <1>1, OperationsDialNone DEF Acts
  <2> QED BY <1>1, <2>3, <2>4, <2>5, <2>6
<1>2. \A ts : NoneDials(a, [s EXCEPT !.bus.topics = ts]) BY SameDials DEF NoneDials
<1>3. NoneDials(a, SubscribeTransport(s, topics, r))
  <2> DEFINE u == [s EXCEPT !.bus.topics = s.bus.topics \cup (topics \ s.bus.topics)]
  <2>1. \/ SubscribeTransport(s, topics, r) = s
        \/ SubscribeTransport(s, topics, r) =
             RunTransport(u, "subscribe", topics \ s.bus.topics, r)
    BY DEF SubscribeTransport
  <2>2. NoneDials(a, u) BY <1>2
  <2> HIDE DEF u
  <2> QED BY <1>1, <2>1, <2>2 DEF Acts
<1>4. NoneDials(a, UnsubscribeTransport(s, topics, r))
  <2> DEFINE u == [s EXCEPT !.bus.topics = s.bus.topics \ (topics \cap s.bus.topics)]
  <2>1. \/ UnsubscribeTransport(s, topics, r) = s
        \/ UnsubscribeTransport(s, topics, r) =
             RunTransport(u, "unsubscribe", topics \cap s.bus.topics, r)
    BY DEF UnsubscribeTransport
  <2>2. NoneDials(a, u) BY <1>2
  <2> HIDE DEF u
  <2> QED BY <1>1, <2>1, <2>2 DEF Acts
<1> QED BY <1>1, <1>3, <1>4

\* allowDemandRecovery.
LEMMA AllowDialsNone ==
  ASSUME NEW a, NEW s, NoneDials(a, s), NEW kick, NEW r
  PROVE  NoneDials(a, AllowDemand(s, kick, r))
<1> DEFINE u == [s EXCEPT !.bus.demand = TRUE]
<1>1. NoneDials(a, u) BY SameDials DEF NoneDials
<1>2. \/ AllowDemand(s, kick, r) = u \/ AllowDemand(s, kick, r) = DemandRecovery(u, r)
      \/ AllowDemand(s, kick, r) = ReleaseGate(s)
  BY DEF AllowDemand
<1> HIDE DEF u
<1>3. NoneDials(a, DemandRecovery(u, r)) BY <1>1, ReopenDialsNone, Zenon
<1> QED BY <1>1, <1>2, <1>3, SimplyNoneDials

\* updateStatus.
LEMMA UpdateDialsNone ==
  ASSUME NEW a, NEW s, NoneDials(a, s), NEW status, NEW r
  PROVE  NoneDials(a, UpdateStatus(s, status, r))
<1> DEFINE u == SetStatus(s, status)
<1>1. NoneDials(a, u) BY SimplyNoneDials
<1> HIDE DEF u
<1>2. NoneDials(a, Failed(u, r))
  <2> DEFINE n == NextAttempt(u.bus.limit, u.bus.attempt)
             v == [u EXCEPT !.bus.cooled = FALSE, !.bus.attempt = n, !.bus.exhausted = TRUE]
             w == [u EXCEPT !.bus.cooled = FALSE, !.bus.attempt = n, !.bus.gate = TRUE,
                            !.bus.demand = FALSE, !.bus.timer = TRUE]
  <2>1. NoneDials(a, v) /\ NoneDials(a, w)
    <3> HIDE DEF n
    <3> QED BY <1>1, SameDials DEF NoneDials
  <2>2. \/ Failed(u, r) = Handler(r, ReleaseGate(u)) \/ Failed(u, r) = Handler(r, u)
        \/ Failed(u, r) = ReleaseGate(v) \/ Failed(u, r) = Handler(r, w)
    BY DEF Failed
  <2> HIDE DEF v, w
  <2>3. NoneDials(a, ReleaseGate(u)) /\ NoneDials(a, ReleaseGate(v)) BY <1>1, <2>1, SimplyNoneDials
  <2> QED BY <1>1, <2>1, <2>2, <2>3, HandlerDialsNone
<1>3. NoneDials(a, Reconnected(u, r))
  <2>1. \/ Reconnected(u, r) = SubscribeTransport(ReleaseGate(u), u.cluster.assigned, r)
        \/ Reconnected(u, r) = SubscribeTransport(u, u.cluster.assigned, r)
    BY DEF Reconnected
  <2>2. NoneDials(a, ReleaseGate(u)) BY <1>1, SimplyNoneDials
  <2> QED BY <1>1, <2>1, <2>2, TransportDialsNone
<1>4. \/ UpdateStatus(s, status, r) = Failed(u, r)
      \/ UpdateStatus(s, status, r) = Handler(r, Reconnected(u, r))
      \/ UpdateStatus(s, status, r) = Handler(r, u)
  BY DEF UpdateStatus, u
<1> QED BY <1>1, <1>2, <1>3, <1>4, HandlerDialsNone

\* suspendTransport and cluster.start().
LEMMA SuspendDialsNone ==
  ASSUME NEW a, NEW s, NoneDials(a, s), NEW r
  PROVE  NoneDials(a, SuspendTransport(s, r)) /\ NoneDials(a, ClusterStart(s, r))
<1>1. ASSUME NEW u, NoneDials(a, u) PROVE NoneDials(a, SuspendTransport(u, r))
  <2> DEFINE e == CancelRecovery(NewEpoch(u, None))
             h == [e EXCEPT !.bus.suspended = TRUE, !.bus.ready = FALSE, !.bus.topics = {}]
  <2>1. NoneDials(a, e) BY <1>1, SimplyNoneDials
  <2>2. NoneDials(a, h)
    <3> HIDE DEF e
    <3> QED BY <2>1, SameDials DEF NoneDials
  <2>3. \/ SuspendTransport(u, r) = u
        \/ SuspendTransport(u, r) = StopSuspended(UpdateStatus(h, "disconnected", r))
    BY DEF SuspendTransport
  <2> HIDE DEF h
  <2> QED BY <1>1, <2>2, <2>3, UpdateDialsNone, StopsDialNone
<1>2. NoneDials(a, ClusterStart(s, r))
  <2> DEFINE u == [s EXCEPT !.cluster.listening = TRUE, !.cluster.paused = TRUE]
             v == [s EXCEPT !.cluster.listening = TRUE, !.cluster.paused = FALSE,
                            !.cluster.running = TRUE]
  <2>1. NoneDials(a, u) /\ NoneDials(a, v) BY SameDials DEF NoneDials
  <2>2. \/ ClusterStart(s, r) = s \/ ClusterStart(s, r) = v
        \/ ClusterStart(s, r) = SuspendTransport(u, r)
    BY DEF ClusterStart
  <2> HIDE DEF u, v
  <2> QED BY <1>1, <2>1, <2>2
<1> QED BY <1>1, <1>2

\* start().
LEMMA StartDialsNone ==
  ASSUME NEW a, NEW s, NoneDials(a, s), NEW r
  PROVE  NoneDials(a, Start(s, r))
<1>1. \A keep : NoneDials(a, [ResetFailure(s, keep) EXCEPT !.bus.config = TRUE])
  <2> TAKE keep
  <2> DEFINE u == ResetFailure(s, keep)
  <2>1. NoneDials(a, u) BY SimplyNoneDials
  <2> HIDE DEF u
  <2>2. NoneDials(a, [u EXCEPT !.bus.config = TRUE]) BY <2>1, SameDials DEF NoneDials
  <2> QED BY <2>2 DEF u
<1>2. NoneDials(a, Restart(s, r))
  <2> DEFINE u == [ResetFailure(s, TRUE) EXCEPT !.bus.config = TRUE]
             t == Reopen(u, FALSE, r)
  <2>1. NoneDials(a, u) BY <1>1
  <2>2. Restart(s, r) = s \/ Restart(s, r) = t \/ Restart(s, r) = ClusterStart(t, r)
    BY DEF Restart, Resumed
  <2> HIDE DEF u
  <2>3. NoneDials(a, t) BY <2>1, ReopenDialsNone
  <2> HIDE DEF t
  <2> QED BY <2>2, <2>3, SuspendDialsNone
<1>3. NoneDials(a, FirstStart(s, r))
  <2> DEFINE u == [ResetFailure(s, FALSE) EXCEPT !.bus.config = TRUE]
             o == NewOpening(u, s.bus.pendingStop, TRUE, FALSE)
             t == UpdateStatus(o, "connecting", r)
             j == Join(t, Fresh(s), r)
  <2>1. NoneDials(a, u) BY <1>1
  <2> HIDE DEF u
  <2>2. NoneDials(a, t)
    <3>1. NoneDials(a, o) BY <2>1, BegunDialNone
    <3> HIDE DEF o
    <3> QED BY <3>1, UpdateDialsNone
  <2>3. FirstStart(s, r) = Joined(j, Fresh(s)) BY DEF FirstStart, u
  <2> HIDE DEF t
  <2>4. NoneDials(a, j) BY <2>2, SuspendDialsNone DEF Join
  <2> HIDE DEF j
  <2> QED BY <2>3, <2>4, BegunDialNone DEF Joined
<1>4. NoneDials(a, [s EXCEPT !.bus.queued = TRUE]) BY SameDials DEF NoneDials
<1>5. \/ Start(s, r) = [s EXCEPT !.bus.queued = TRUE] \/ Start(s, r) = s
      \/ Start(s, r) = Restart(s, r) \/ Start(s, r) = FirstStart(s, r)
  BY DEF Start
<1> QED BY <1>2, <1>3, <1>4, <1>5

----------------------------------------------------------------------------
(* Steps.                                                                  *)

Undialed == \A c \in Chains : chain'[c].at = "dialing" => chain[c].at = "dialing"

\* At the start of a step, nothing has happened.
LEMMA HereDialsNone ==
  ASSUME Inv
  PROVE  NoneDials(Here, Here)
<1>1. Here.chain = chain /\ chain \in [Chains -> ChainRecords]
  BY DEF Inv, Core, Base, States, Here
<1>2. DOMAIN Here = {"bus", "chain", "ops", "link", "cluster", "page"} BY DEF Here
<1> QED BY <1>1, <1>2 DEF NoneDials, ChainRecords

\* A step that becomes s dials only what s does.
LEMMA BecomeDials ==
  ASSUME NEW s, Become(s), NEW c \in Chains, chain'[c].at = "dialing"
  PROVE  s.chain[c].at = "dialing"
<1>1. chain'[c] = IF c \in Garbage(s) THEN NoChain ELSE s.chain[c] BY DEF Become
<1>2. NoChain.at = "idle" BY DEF NoChain
<1> QED BY <1>1, <1>2

\* So do the bounded steps.
LEMMA StepDialsNone ==
  ASSUME NEW s, NEW r, Step(s, r) \/ Move(s, r) \/ Fault(s, r), NoneDials(Here, s)
  PROVE  Undialed
<1>1. Become(s) BY DEF Step, Move, Fault
<1> SUFFICES ASSUME NEW c \in Chains, chain'[c].at = "dialing" PROVE chain[c].at = "dialing"
  BY DEF Undialed
<1>2. s.chain[c].at = "dialing" BY <1>1, BecomeDials
<1>3. Here.chain = chain BY DEF Here
<1> QED BY <1>2, <1>3 DEF NoneDials

\* A status of the transport reaches the bus.
LEMMA ReportDialsNone ==
  ASSUME NEW a, NEW s, NoneDials(a, s), NEW status, NEW r
  PROVE  NoneDials(a, Report(s, status, r))
<1>1. \/ Report(s, status, r) = s \/ Report(s, status, r) = UpdateStatus(s, status, "ignore")
      \/ Report(s, status, r) = UpdateStatus(s, status, r)
  BY DEF Report
<1> QED BY <1>1, UpdateDialsNone

\* Settling is not dialing.
LEMMA SettleDialsNone ==
  ASSUME NEW a, NEW s, NoneDials(a, s), NEW c, NEW result, result # "dialing"
  PROVE  NoneDials(a, Settle(s, c, result))
  BY DEF Settle, NoneDials

\* Calls of the application.
LEMMA CallsDialNone ==
  ASSUME Inv, NEW r, StartCall(r) \/ StopCall \/ QueuedStart(r)
  PROVE  Undialed
<1>1. NoneDials(Here, Here) BY HereDialsNone
<1>2. CASE StartCall(r) BY <1>1, <1>2, StartDialsNone, StepDialsNone DEF StartCall
<1>3. CASE StopCall BY <1>1, <1>3, StopsDialNone, StepDialsNone DEF StopCall
<1>4. CASE QueuedStart(r)
  <2> DEFINE u == [Here EXCEPT !.bus.queued = FALSE]
  <2>1. NoneDials(Here, u) BY <1>1, SameDials DEF NoneDials
  <2>2. Step(Start(u, r), r) BY <1>4 DEF QueuedStart
  <2> HIDE DEF u
  <2> QED BY <2>1, <2>2, StartDialsNone, StepDialsNone
<1> QED BY <1>2, <1>3, <1>4

\* The runtime assigns and releases topics.
LEMMA TopicsDialNone ==
  ASSUME Inv, NEW t, NEW r, Assign(t, r) \/ Unassign(t, r) \/ Publish(t, r)
  PROVE  Undialed
<1>1. NoneDials(Here, Here) BY HereDialsNone
<1>2. \A x : NoneDials(Here, [Here EXCEPT !.cluster.assigned = x])
  BY <1>1, SameDials DEF NoneDials
<1>3. CASE Assign(t, r)
  <2> DEFINE u == [Here EXCEPT !.cluster.assigned = Here.cluster.assigned \cup {t}]
  <2>1. Move(SubscribeTransport(u, {t}, r), r) BY <1>3 DEF Assign
  <2>2. NoneDials(Here, u) BY <1>2
  <2> HIDE DEF u
  <2> QED BY <2>1, <2>2, TransportDialsNone, StepDialsNone
<1>4. CASE Unassign(t, r)
  <2> DEFINE u == [Here EXCEPT !.cluster.assigned = Here.cluster.assigned \ {t}]
  <2>1. Move(UnsubscribeTransport(u, {t}, r), r) BY <1>4 DEF Unassign
  <2>2. NoneDials(Here, u) BY <1>2
  <2> HIDE DEF u
  <2> QED BY <2>1, <2>2, TransportDialsNone, StepDialsNone
<1>5. CASE Publish(t, r)
  <2>1. Move(RunTransport(Here, "publish", {t}, r), r) BY <1>5 DEF Publish
  <2>2. "publish" \in Acts BY DEF Acts
  <2> QED BY <1>1, <2>1, <2>2, TransportDialsNone, StepDialsNone
<1> QED BY <1>3, <1>4, <1>5

\* Events of the page.
LEMMA PagesDialNone ==
  ASSUME Inv, NEW r, NEW handed, PageHide(handed, r) \/ PageShow(r) \/ VisibilityChange
  PROVE  Undialed
<1>1. NoneDials(Here, Here) BY HereDialsNone
<1>2. \A x : NoneDials(Here, [Here EXCEPT !.cluster.paused = x])
  BY <1>1, SameDials DEF NoneDials
<1>3. CASE PageHide(handed, r)
  <2> DEFINE p == [Here EXCEPT !.cluster.running = FALSE, !.cluster.paused = TRUE,
                               !.page = "gone"]
             u == UnsubscribeTransport(p, handed, r)
             v == [u EXCEPT !.cluster.assigned = {}]
             w == [Here EXCEPT !.cluster.paused = cluster.listening]
  <2>1. Move(SuspendTransport(v, r), r) \/ Move(w, "ignore") BY <1>3 DEF PageHide
  <2>2. NoneDials(Here, p) BY <1>1, SameDials DEF NoneDials
  <2>3. NoneDials(Here, w) BY <1>2
  <2> HIDE DEF p, w
  <2>4. NoneDials(Here, u) BY <2>2, TransportDialsNone
  <2> HIDE DEF u
  <2>5. NoneDials(Here, v) BY <2>4, SameDials DEF NoneDials
  <2> HIDE DEF v
  <2> QED BY <2>1, <2>3, <2>5, SuspendDialsNone, StepDialsNone
<1>4. CASE PageShow(r)
  <2> DEFINE p == [Here EXCEPT !.cluster.paused = FALSE, !.page = "visible"]
             u == Reopen(p, FALSE, r)
             x == u.cluster.running \/ u.cluster.listening
             v == [u EXCEPT !.cluster.running = x]
  <2>1. Move(v, r) \/ Move(Here, "ignore") BY <1>4 DEF PageShow
  <2>2. NoneDials(Here, p) BY <1>1, SameDials DEF NoneDials
  <2> HIDE DEF p
  <2>3. NoneDials(Here, u) BY <2>2, ReopenDialsNone
  <2> HIDE DEF u, x
  <2>4. NoneDials(Here, v) BY <2>3, SameDials DEF NoneDials
  <2> HIDE DEF v
  <2> QED BY <1>1, <2>1, <2>4, StepDialsNone
<1>5. CASE VisibilityChange BY <1>1, <1>5, StepDialsNone DEF VisibilityChange
<1> QED BY <1>3, <1>4, <1>5

\* Events of the transport.
LEMMA EventsDialNone ==
  ASSUME Inv, NEW r, Opens(r) \/ Closes(r) \/ Breaks(r) \/ Redials(r)
  PROVE  Undialed
<1>1. \A l : NoneDials(Here, [Here EXCEPT !.link = l])
  BY HereDialsNone, SameDials DEF NoneDials
<1>2. PICK l, status : LET u == Report([Here EXCEPT !.link = l], status, r)
                       IN Step(u, r) \/ Fault(u, r)
  BY DEF Opens, Closes, Breaks, Redials
<1> DEFINE v == [Here EXCEPT !.link = l]
<1>3. NoneDials(Here, v) BY <1>1
<1>4. Step(Report(v, status, r), r) \/ Fault(Report(v, status, r), r) BY <1>2
<1> HIDE DEF v
<1> QED BY <1>3, <1>4, ReportDialsNone, StepDialsNone

\* The timers.
LEMMA TimersDialNone ==
  ASSUME Inv, NEW r, Elapse \/ Recover(r)
  PROVE  Undialed
<1>1. NoneDials(Here, Here) BY HereDialsNone
<1>2. CASE Elapse BY <1>2 DEF Elapse, Undialed
<1>3. CASE Recover(r)
  <2> DEFINE f == [Here EXCEPT !.bus.timer = FALSE]
             g == [f EXCEPT !.bus.demand = FALSE]
             u == Reopen(g, TRUE, r)
  <2>1. Step(Attach(u, "recovery"), r) \/ Step(ReleaseGate(f), "ignore") BY <1>3 DEF Recover
  <2>2. NoneDials(Here, f) BY <1>1, SameDials DEF NoneDials
  <2>3. NoneDials(Here, g)
    <3> HIDE DEF f
    <3> QED BY <2>2, SameDials DEF NoneDials
  <2> HIDE DEF f, g
  <2>4. NoneDials(Here, u) BY <2>3, ReopenDialsNone
  <2> HIDE DEF u
  <2> QED BY <2>1, <2>2, <2>4, SimplyNoneDials, BegunDialNone, StepDialsNone
<1> QED BY <1>2, <1>3

----------------------------------------------------------------------------
\* An opening ends.
LEMMA FinishOpenDialsNone ==
  ASSUME Inv, NEW c \in Chains, NEW r, FinishOpen(c, r)
  PROVE  Undialed
<1>1. NoneDials(Here, Here) BY HereDialsNone
<1>2. CASE ~Current(c)
  <2>1. link.dial # "dialing" BY DEF Inv, Core, Base, States, Here, Links
  <2> QED BY <1>1, <1>2, <2>1, SettleDialsNone, StepDialsNone DEF FinishOpen
<1>3. CASE Current(c) /\ (link.dial = "failed" \/ bus.status = "error")
  <2> DEFINE s == [Here EXCEPT !.bus.ready = FALSE, !.bus.startPromise = None,
                               !.bus.lastError = TRUE]
             s1 == IF bus.pendingStop = None THEN NewStop(s, None) ELSE s
             u == [s1 EXCEPT !.bus.started = FALSE]
             s2 == IF chain[c].initial THEN ClusterStop(u) ELSE s1
  <2>1. NoneDials(Here, s) BY <1>1, SameDials DEF NoneDials
  <2>2. CatchOpen(c, r) = UpdateStatus(Settle(s2, c, "failed"), "error", r) BY DEF CatchOpen
  <2> HIDE DEF s
  <2>3. NoneDials(Here, s1) BY <2>1, BegunDialNone
  <2> HIDE DEF s1
  <2>4. NoneDials(Here, u) BY <2>3, SameDials DEF NoneDials
  <2> HIDE DEF u
  <2>5. NoneDials(Here, s2) BY <2>3, <2>4, SimplyNoneDials
  <2> HIDE DEF s2
  <2>6. NoneDials(Here, Settle(s2, c, "failed")) BY <2>5, SettleDialsNone
  <2>7. Step(CatchOpen(c, r), r) BY <1>3 DEF FinishOpen
  <2> QED BY <2>2, <2>6, <2>7, UpdateDialsNone, StepDialsNone
<1>4. CASE Current(c) /\ ~(link.dial = "failed" \/ bus.status = "error")
  <2> DEFINE s == [Here EXCEPT !.bus.ready = TRUE]
  <2>1. NoneDials(Here, s) BY <1>1, SameDials DEF NoneDials
  <2>2. Step(Settle(ReleaseGate(s), c, "ok"), "ignore") BY <1>4 DEF FinishOpen
  <2> HIDE DEF s
  <2>3. NoneDials(Here, ReleaseGate(s)) BY <2>1, SimplyNoneDials
  <2>4. NoneDials(Here, Settle(ReleaseGate(s), c, "ok")) BY <2>3, SettleDialsNone
  <2> QED BY <2>2, <2>4, StepDialsNone
<1> QED BY <1>2, <1>3, <1>4

\* A stop begins and ends.
LEMMA StoppingDialsNone ==
  ASSUME Inv, NEW c \in Chains, NEW r,
         BeginStop(c) \/ FinishStop(c) \/ TearDown \/ TornDown(r)
  PROVE  Undialed
<1>1. NoneDials(Here, Here) BY HereDialsNone
<1>2. CASE BeginStop(c)
  <2> DEFINE u == [Here EXCEPT !.chain[c].after = None, !.chain[c].at = "stopping",
                               !.link = Stopped(@)]
  <2>1. NoneDials(Here, u) BY <1>1 DEF NoneDials
  <2>2. Step(u, "ignore") BY <1>2 DEF BeginStop
  <2> HIDE DEF u
  <2> QED BY <2>1, <2>2, StepDialsNone
<1>3. CASE FinishStop(c) BY <1>1, <1>3, SettleDialsNone, StepDialsNone DEF FinishStop
<1>4. CASE TearDown
  <2> DEFINE u == [Here EXCEPT !.bus.down = [at |-> "waiting", on |-> bus.pendingStop]]
             v == [Here EXCEPT !.bus.down = [at |-> "stopping", on |-> None],
                               !.link = Stopped(@)]
  <2>1. NoneDials(Here, u) /\ NoneDials(Here, v) BY <1>1, SameDials DEF NoneDials
  <2>2. Step(u, "ignore") \/ Step(v, "ignore") BY <1>4 DEF TearDown
  <2> HIDE DEF u, v
  <2> QED BY <2>1, <2>2, StepDialsNone
<1>5. CASE TornDown(r)
  <2>1. NoneDials(Here, Reset(Here))
    <3> DEFINE d == [at |-> "none", on |-> None]
               b == [bus EXCEPT !.started = FALSE, !.stopping = FALSE, !.suspended = FALSE,
                                !.ready = FALSE, !.startPromise = None, !.pendingStop = None,
                                !.config = FALSE, !.attempt = 0, !.exhausted = FALSE,
                                !.topics = {}, !.down = d]
    <3>1. Here.bus = bus BY DEF Here
    <3>2. Reset(Here) = [Here EXCEPT !.bus = b] BY <3>1 DEF Reset
    <3> HIDE DEF b
    <3> QED BY <1>1, <3>2, SameDials DEF NoneDials
  <2>2. Step(UpdateStatus(Reset(Here), "disconnected", r), r) BY <1>5 DEF TornDown
  <2> QED BY <2>1, <2>2, UpdateDialsNone, StepDialsNone
<1> QED BY <1>2, <1>3, <1>4, <1>5

\* A handler of a settled opening runs.
LEMMA ContinueDialsNone ==
  ASSUME Inv, NEW c \in Chains, NEW h \in Handlers, NEW r, Continue(c, h, r)
  PROVE  Undialed
<1> DEFINE s == [Here EXCEPT !.chain[c].then = @ \ {h}]
<1>1. NoneDials(Here, s) BY HereDialsNone DEF NoneDials
<1>2. \/ h = "watch" /\ Step(Watch(s, c), r)
      \/ Step(ReleaseGate(s), r)
      \/ Step(AllowDemand(s, TRUE, r), r) \/ Step(AllowDemand(s, FALSE, r), r)
  <2>1. h \in {"watch", "recovery", "demand"} /\ chain[c].at \in {"ok", "failed"}
    BY DEF Handlers, Continue
  <2>2. CASE h = "watch" BY <2>1, <2>2 DEF Continue
  <2>3. CASE h # "watch" /\ chain[c].at = "ok" BY <2>1, <2>3 DEF Continue
  <2>4. CASE h = "recovery" /\ chain[c].at = "failed" BY <2>4 DEF Continue
  <2>5. CASE h = "demand" /\ chain[c].at = "failed" BY <2>5 DEF Continue
  <2> QED BY <2>1, <2>2, <2>3, <2>4, <2>5
<1> HIDE DEF s
<1>3. NoneDials(Here, Watch(s, c))
  <2> DEFINE p == IF s.bus.startPromise = c THEN None ELSE s.bus.startPromise
             u == [s EXCEPT !.bus.startPromise = p]
             v == [u EXCEPT !.bus.attempt = 0, !.bus.exhausted = FALSE]
  <2>1. Watch(s, c) = u \/ Watch(s, c) = v BY DEF Watch
  <2> HIDE DEF p
  <2>2. NoneDials(Here, u) BY <1>1, SameDials DEF NoneDials
  <2>3. NoneDials(Here, v)
    <3> HIDE DEF u
    <3> QED BY <2>2, SameDials DEF NoneDials
  <2> HIDE DEF u, v
  <2> QED BY <2>1, <2>2, <2>3
<1> QED BY <1>1, <1>2, <1>3, SimplyNoneDials, AllowDialsNone, StepDialsNone

\* An operation resumes.
LEMMA ResumeDialsNone ==
  ASSUME Inv, NEW o \in ops, NEW r, Resume(o, r)
  PROVE  Undialed
<1> DEFINE s == [Here EXCEPT !.ops = @ \ {o}]
<1>1. NoneDials(Here, s) BY HereDialsNone, SameDials DEF NoneDials
<1>2. o.act \in Acts
  <2>1. o \in Waiters BY DEF Inv, Core, Base, States, Here
  <2> QED BY <2>1 DEF Waiters, Acts
<1>3. \/ Step(s, r) \/ Step(s, "ignore") \/ Step(RunTransport(s, o.act, {o.topic}, r), r)
      \/ Step(Execute(s, o.act, {o.topic}), "ignore")
  BY DEF Resume
<1> HIDE DEF s
<1> QED BY <1>1, <1>2, <1>3, TransportDialsNone, OperationsDialNone, StepDialsNone DEF Acts

\* An opening begins: the only call of the transport's start().
LEMMA BeginOpenDials ==
  ASSUME Inv, NEW c \in Chains, NEW l, BeginOpen(c, l),
         NEW d \in Chains, chain[d].at = "waiting", chain'[d].at = "dialing"
  PROVE  ~link.live \/ link.phase = "closed"
<1>1. /\ Core(Here) /\ Here.bus = bus /\ Here.chain = chain /\ Here.link = link
      /\ chain \in [Chains -> ChainRecords]
  BY DEF Inv, Core, Base, States, Here
<1> DEFINE s == [Here EXCEPT !.chain[c].after = None]
<1>2. NoneDials(Here, s) BY HereDialsNone DEF NoneDials
<1>3. CASE Superseded(c)
  <2> DEFINE u == [s EXCEPT !.bus.ready = @ /\ chain[c].initial]
  <2>1. Step(Settle(u, c, "ok"), "ignore") BY <1>3 DEF BeginOpen
  <2> HIDE DEF s
  <2>2. u.chain = s.chain /\ DOMAIN u = DOMAIN s
    <3> DEFINE x == s.bus.ready /\ chain[c].initial
    <3>1. u = [s EXCEPT !.bus.ready = x] OBVIOUS
    <3> HIDE DEF x, u
    <3> QED BY <1>2, <3>1 DEF NoneDials
  <2> HIDE DEF u
  <2>3. NoneDials(Here, u) BY <1>2, <2>2, SameDials
  <2>4. NoneDials(Here, Settle(u, c, "ok")) BY <2>3, SettleDialsNone
  <2>5. Undialed BY <2>1, <2>4, StepDialsNone
  <2> QED BY <2>5 DEF Undialed
<1>4. CASE ~Superseded(c)
  <2> DEFINE t == [s EXCEPT !.chain[c].at = "dialing", !.bus.connected = FALSE,
                            !.bus.pendingStop = Spent(c), !.bus.heard = ~link.live, !.link = l]
             u == UpdateStatus(t, "error", "ignore")
  <2>1. Step(t, "ignore") \/ Fault(u, "ignore") \/ Fault(t, "ignore") BY <1>4 DEF BeginOpen
  <2>2. /\ NoneDials(t, t) /\ \A e \in Chains : t.chain[e].at = "dialing" /\ e # c
                                                  => chain[e].at = "dialing"
    <3> DEFINE h == ~link.live
    <3>1. t = [s EXCEPT !.chain[c].at = "dialing", !.bus.connected = FALSE,
                        !.bus.pendingStop = Spent(c), !.bus.heard = h, !.link = l]
      OBVIOUS
    <3> HIDE DEF s, h, t
    <3> QED BY <1>1, <1>2, <3>1 DEF NoneDials
  <2> HIDE DEF t
  <2>3. NoneDials(t, u) BY <2>2, UpdateDialsNone
  <2>4. t.chain[d].at = "dialing"
    <3>1. Become(t) \/ Become(u) BY <2>1 DEF Step, Fault
    <3>2. t.chain[d].at = "dialing" \/ u.chain[d].at = "dialing" BY <3>1, BecomeDials
    <3> QED BY <2>3, <3>2 DEF NoneDials
  <2>5. d = c BY <2>2, <2>4
  <2>6. bus.current = c /\ chain[c].kind = "open" /\ Done(Here, chain[c].after)
    BY <1>4 DEF BeginOpen, Superseded, Current
  <2>7. Able(link) BY <1>1, <2>5, <2>6, CurrentMayDial
  <2> QED BY <2>7 DEF Able
<1> QED BY <1>3, <1>4

\* No step but BeginOpen calls it.
LEMMA OthersDialNone ==
  ASSUME Inv, Next, ~\E c \in Chains : \E l \in Started(link) \cup {link} : BeginOpen(c, l)
  PROVE  Undialed
<1>1. CASE System
  <2>1. CASE \E c \in Chains : BeginStop(c) \/ FinishStop(c) BY <2>1, StoppingDialsNone
  <2>2. CASE TearDown \/ \E r \in Reactions : TornDown(r)
    <3>1. CASE Chains = {} BY <3>1 DEF Undialed
    <3>2. CASE Chains # {} BY <2>2, <3>2, StoppingDialsNone
    <3> QED BY <3>1, <3>2
  <2>3. CASE \E r \in Reactions : QueuedStart(r) BY <2>3, CallsDialNone
  <2>4. CASE \E r \in Reactions : \E o \in ops : Resume(o, r) BY <2>4, ResumeDialsNone
  <2>5. CASE \E r \in Reactions : \E c \in Chains : FinishOpen(c, r)
    BY <2>5, FinishOpenDialsNone
  <2>6. CASE \E r \in Reactions : \E c \in Chains : \E h \in Handlers : Continue(c, h, r)
    BY <2>6, ContinueDialsNone
  <2>7. CASE Elapse BY <2>7, TimersDialNone
  <2>8. CASE \E r \in Reactions : Recover(r) \/ Opens(r)
    BY <2>8, TimersDialNone, EventsDialNone
  <2> QED BY <1>1, <2>1, <2>2, <2>3, <2>4, <2>5, <2>6, <2>7, <2>8 DEF System, Promises
<1>2. CASE StopCall BY <1>2, CallsDialNone
<1>3. CASE VisibilityChange BY <1>3, PagesDialNone
<1>4. CASE \E r \in Reactions : StartCall(r) \/ PageShow(r)
  BY <1>4, CallsDialNone, PagesDialNone
<1>5. CASE \E r \in Reactions : Closes(r) \/ Breaks(r) \/ Redials(r)
  BY <1>5, EventsDialNone
<1>6. CASE \E r \in Reactions : \E t \in Topics : Assign(t, r) \/ Unassign(t, r) \/ Publish(t, r)
  BY <1>6, TopicsDialNone
<1>7. CASE \E r \in Reactions : \E handed \in SUBSET cluster.assigned : PageHide(handed, r)
  BY <1>7, PagesDialNone
<1> QED BY <1>1, <1>2, <1>3, <1>4, <1>5, <1>6, <1>7 DEF Next

\* StartsFresh: transport.start() is only called on a transport that is down, or
\* whose client disconnected for good.
THEOREM FreshStarts == Spec => StartsFresh
<1> DEFINE Fresher == \A c \in Chains : chain[c].at = "waiting" /\ chain'[c].at = "dialing"
                                          => ~link.live \/ link.phase = "closed"
<1>1. Inv /\ [Next]_vars => [Fresher]_vars
  <2> SUFFICES ASSUME Inv, Next PROVE Fresher OBVIOUS
  <2>1. CASE \E c \in Chains : \E l \in Started(link) \cup {link} : BeginOpen(c, l)
    BY <2>1, BeginOpenDials
  <2>2. CASE ~\E c \in Chains : \E l \in Started(link) \cup {link} : BeginOpen(c, l)
    BY <2>2, OthersDialNone DEF Undialed
  <2> QED BY <2>1, <2>2
<1> QED BY <1>1, Invariance, PTL DEF Spec, StartsFresh

----------------------------------------------------------------------------
=============================================================================
