-------------------------- MODULE PortReaperProofs --------------------------
(***************************************************************************)
(* Proofs about PortReaper, for any set of ports, any heartbeats, and any  *)
(* delays below the slack that the multiplier leaves: its type invariant,  *)
(* and that only silent sessions end (OnlySilentEnd).                      *)
(*                                                                         *)
(* The heart of the matter is HeardOf: the worker heard of a prompt tab no *)
(* longer ago than the tab sent its oldest message still under way, plus   *)
(* one heartbeat.  It rests on the order of the messages of one port, and  *)
(* on the time-out being the tab's own from its INIT on.                   *)
(***************************************************************************)
EXTENDS PortReaper, SequenceTheorems, WellFoundedInduction, TLAPS

Intervals == Heartbeats \cup {DEFAULT_HEARTBEAT_INTERVAL_MS}
Timeouts == {SessionTimeout(h) : h \in Intervals}
Messages == [kind : {"CONNECT", "INIT", "PING", "STOP"}, age : 0..MaxDelay]

----------------------------------------------------------------------------
(* Minima and maxima.                                                      *)

Less == {ss \in Nat \X Nat : ss[1] < ss[2]}

\* Less is well-founded.
LEMMA LessWellFounded == IsWellFoundedOn(Less, Nat)
<1>1. OpToRel(<, Nat) = Less
  BY Zenon DEF OpToRel, Less
<1> QED BY <1>1, NatLessThanWellFounded, Zenon

\* A nonempty set of naturals has a minimum.
LEMMA MinOfNat ==
  ASSUME NEW T \in SUBSET Nat, T # {}
  PROVE  Min(T) \in T /\ \A y \in T : Min(T) <= y
<1>1. PICK x \in T : \A y \in T : ~ (<<y, x>> \in Less)
  BY WFMin, LessWellFounded
<1>2. ASSUME NEW y \in T PROVE x <= y
  <2>1. y \in Nat /\ x \in Nat
    OBVIOUS
  <2>2. y < x => <<y, x>> \in Less
    BY <2>1 DEF Less
  <2> QED BY <1>1, <2>1, <2>2
<1> QED BY <1>2 DEF Min

\* A nonempty set of naturals below a bound has a maximum.
LEMMA MaxOfNat ==
  ASSUME NEW T \in SUBSET Nat, T # {}, NEW n \in Nat, \A y \in T : y < n
  PROVE  Max(T) \in T /\ \A y \in T : y <= Max(T)
<1> DEFINE U == {n - y : y \in T}
<1>1. U \in SUBSET Nat /\ U # {}
  <2>1. ASSUME NEW y \in T PROVE n - y \in Nat
    OBVIOUS
  <2> QED BY <2>1
<1>2. PICK u \in U : \A v \in U : u <= v
  BY <1>1, MinOfNat
<1>3. PICK x \in T : u = n - x
  BY <1>2
<1>4. \A y \in T : y <= x
  <2>1. ASSUME NEW y \in T PROVE y <= x
    <3>1. n - x <= n - y
      BY <1>2, <1>3
    <3> QED BY <3>1
  <2> QED BY <2>1
<1> QED BY <1>4 DEF Max

----------------------------------------------------------------------------
(* Time-outs.                                                              *)

\* The multiple of a heartbeat divided by the multiplier is positive.
LEMMA Quotient ==
  ASSUME NEW m \in Nat \ {0}, NEW n \in Nat, n >= m
  PROVE  n \div m \in Nat \ {0}
<1>1. n = m * (n \div m) + (n % m) /\ n % m \in 0..(m - 1) /\ n \div m \in Int
  OBVIOUS
<1>2. ASSUME n \div m <= 0 PROVE FALSE
  <2>1. m * (n \div m) <= 0
    BY <1>1, <1>2
  <2> QED BY <1>1, <2>1
<1> QED BY <1>1, <1>2

\* Heartbeats are positive, and their time-outs exceed what may delay a PING.
LEMMA TimeoutType ==
  ASSUME NEW h \in Intervals
  PROVE  /\ h \in Nat \ {0} /\ SessionTimeout(h) \in Nat
         /\ SessionTimeout(h) >= DEFAULT_SESSION_TIMEOUT_MULTIPLIER
         /\ h # Infinity => SessionTimeout(h) >= h + MaxDelay /\ h <= Infinity
<1> DEFINE m == DEFAULT_SESSION_TIMEOUT_MULTIPLIER
           d == DEFAULT_HEARTBEAT_INTERVAL_MS
<1>1. h \in Nat \ {0} /\ m \in Nat \ {0} /\ Infinity \in Nat /\ MaxDelay \in Nat
  BY HeartbeatsAssumption, DelayAssumption DEF Intervals
<1>2. /\ h + MaxDelay <= m * h
      /\ h # Infinity => Infinity > m * h + 1
      /\ d \in Nat \ {0} /\ d # Infinity /\ Infinity > m * d + 1
  BY HeartbeatsAssumption, DelayAssumption DEF Intervals
<1>3. m * h >= m /\ m * h \in Nat /\ m * d >= m /\ m * d \in Nat /\ h * m = m * h
  BY <1>1, <1>2
<1>4. CASE h = Infinity
  BY <1>1, <1>2, <1>3, <1>4 DEF SessionTimeout
<1>5. CASE h # Infinity
  BY <1>1, <1>2, <1>3, <1>5 DEF SessionTimeout
<1> QED BY <1>4, <1>5

\* The time-out of register() is that of the default heartbeat.
LEMMA DefaultIsOne ==
  /\ DefaultTimeout = SessionTimeout(DEFAULT_HEARTBEAT_INTERVAL_MS)
  /\ DefaultTimeout \in Timeouts /\ DefaultTimeout >= MaxDelay
<1>1. DEFAULT_HEARTBEAT_INTERVAL_MS \in Intervals
  BY DEF Intervals
<1>2. DefaultTimeout = SessionTimeout(DEFAULT_HEARTBEAT_INTERVAL_MS)
  BY HeartbeatsAssumption DEF DefaultTimeout, SessionTimeout
<1>3. SessionTimeout(DEFAULT_HEARTBEAT_INTERVAL_MS) >= DEFAULT_HEARTBEAT_INTERVAL_MS + MaxDelay
  BY <1>1, TimeoutType, HeartbeatsAssumption
<1> QED BY <1>1, <1>2, <1>3, HeartbeatsAssumption, DelayAssumption, TimeoutType DEF Timeouts

\* Silence is counted beyond every finite time-out, and stays below Infinity.
LEMMA SilenceType ==
  /\ MaxSilence \in Nat /\ MaxSilence < Infinity
  /\ \A h \in Intervals : h # Infinity => SessionTimeout(h) < MaxSilence
<1> DEFINE T == {h \in Intervals : h # Infinity}
           m == DEFAULT_SESSION_TIMEOUT_MULTIPLIER
<1>1. T \in SUBSET Nat /\ T # {} /\ m \in Nat \ {0} /\ Infinity \in Nat
  BY HeartbeatsAssumption DEF Intervals
<1>2. \A h \in T : Infinity > m * h + 1
  BY HeartbeatsAssumption DEF Intervals
<1>3. \A h \in T : h < Infinity
  <2>1. ASSUME NEW h \in T PROVE h < Infinity
    <3>1. h \in Nat /\ m * h >= h /\ m * h \in Nat
      BY <1>1
    <3> QED BY <1>1, <1>2, <3>1
  <2> QED BY <2>1
<1>4. Longest = Max(T)
  BY DEF Longest, Intervals
<1>5. Longest \in T /\ \A h \in T : h <= Longest
  BY <1>1, <1>3, <1>4, MaxOfNat
<1>6. MaxSilence = m * Longest + 1
  BY DEF MaxSilence
<1>7. ASSUME NEW h \in T PROVE SessionTimeout(h) < MaxSilence
  <2>1. m * h <= m * Longest /\ m * h \in Nat /\ m * Longest \in Nat /\ h * m = m * h
    BY <1>1, <1>5
  <2> QED BY <1>6, <2>1 DEF SessionTimeout
<1>8. MaxSilence \in Nat /\ MaxSilence < Infinity
  BY <1>1, <1>2, <1>5, <1>6
<1> QED BY <1>7, <1>8

\* The cadence is a positive number of ticks.
LEMMA CadenceType ==
  ASSUME NEW ports \in SUBSET Ports, NEW timeouts \in [Ports -> Timeouts]
  PROVE  MinHeartbeat(ports, timeouts) \in Nat \ {0}
<1> DEFINE m == DEFAULT_SESSION_TIMEOUT_MULTIPLIER
           T == {DEFAULT_HEARTBEAT_INTERVAL_MS} \cup {timeouts[p] \div m : p \in ports}
<1>1. m \in Nat \ {0} /\ DEFAULT_HEARTBEAT_INTERVAL_MS \in Nat \ {0}
  BY HeartbeatsAssumption
<1>2. ASSUME NEW p \in ports PROVE timeouts[p] \div m \in Nat \ {0}
  <2>1. timeouts[p] \in Nat /\ timeouts[p] >= m
    BY TimeoutType DEF Timeouts
  <2> QED BY <1>1, <2>1, Quotient
<1>3. T \in SUBSET (Nat \ {0}) /\ T \in SUBSET Nat /\ T # {}
  BY <1>1, <1>2
<1>4. Min(T) \in T
  BY <1>3, MinOfNat
<1> QED BY <1>3, <1>4 DEF MinHeartbeat

----------------------------------------------------------------------------
(* The inductive invariant.                                                *)

Kind(p, i) == wire[p][i].kind

\* The oldest message under way from p is its connect event, or its INIT.
Fresh(p) == wire[p] # <<>> /\ Kind(p, 1) = "CONNECT"
Greets(p) == wire[p] # <<>> /\ Kind(p, 1) = "INIT"

\* The messages of a port: connect, INIT, PINGs, and a STOP by which it left.
Orderly(p) ==
  /\ \A i \in 1..Len(wire[p]) :
       /\ i > 2 => Kind(p, i) \in {"PING", "STOP"}
       /\ i = 2 => IF Kind(p, 1) = "CONNECT" THEN Kind(p, 2) = "INIT"
                   ELSE Kind(p, 2) \in {"PING", "STOP"}
       /\ Kind(p, i) = "STOP" => tab[p] = "left"
  /\ Fresh(p) => Len(wire[p]) > 1
  /\ tab[p] = "none" => wire[p] = <<>>

\* A port is tracked from its connect event on, with the default time-out
\* until its INIT and with its own afterwards.
Tracked(p) ==
  /\ Fresh(p) \/ tab[p] = "none" => p \notin targets
  /\ p \in targets => timeout[p] = IF Greets(p) THEN DefaultTimeout ELSE SessionTimeout(hb[p])

\* The worker heard of a prompt tab when it sent its oldest message under
\* way, or one heartbeat before, or, with none under way, since its last PING.
HeardOf(p) ==
  tab[p] = "prompt" /\ p \in targets =>
    IF wire[p] = <<>> THEN hb[p] # Infinity => silence[p] + ping[p] <= hb[p]
    ELSE IF Greets(p) THEN silence[p] <= wire[p][1].age
    ELSE hb[p] # Infinity => silence[p] <= wire[p][1].age + hb[p]

\* What OnlySilentEnd says of one port.
Answered(p) ==
  /\ tab[p] = "prompt" => session[p] # "ended"
  /\ tab[p] \in {"stalled", "woken"} /\ session[p] = "ended" => p \in notice

PortOK(p) == Orderly(p) /\ Tracked(p) /\ HeardOf(p) /\ Answered(p)

\* The types, with the domains TypeOK does not name.
Types ==
  /\ TypeOK
  /\ open = targets
  /\ wire \in [Ports -> Seq(Messages)]
  /\ ping \in [Ports -> Nat]
  /\ timeout \in [Ports -> Timeouts]

Inv == Types /\ CadenceFollowsPorts /\ \A p \in Ports : PortOK(p)

\* Nothing about port q changed.
Same(q) ==
  /\ tab'[q] = tab[q] /\ hb'[q] = hb[q] /\ ping'[q] = ping[q] /\ wire'[q] = wire[q]
  /\ session'[q] = session[q] /\ silence'[q] = silence[q] /\ timeout'[q] = timeout[q]
  /\ q \in targets' <=> q \in targets
  /\ q \in notice' <=> q \in notice

\* Then it stays as it should be.
LEMMA SamePort ==
  ASSUME NEW q \in Ports, PortOK(q), Same(q) PROVE PortOK(q)'
BY DEF PortOK, Same, Orderly, Tracked, HeardOf, Answered, Fresh, Greets, Kind

\* What schedule() establishes for the ports and time-outs it is given.
Watches(ports, timeouts) ==
  /\ handle' \in BOOLEAN /\ interval' \in Nat \ {0} /\ due' \in 0..interval'
  /\ handle' <=> ports # {}
  /\ handle' => interval' = MinHeartbeat(ports, timeouts)

\* So it does, for whatever ports and time-outs it is called with.
LEMMA ScheduleWatches ==
  ASSUME Inv, NEW ports \in SUBSET Ports, NEW timeouts \in [Ports -> Timeouts],
         NEW left \in 0..interval, Schedule(ports, timeouts, left)
  PROVE  Watches(ports, timeouts)
<1>1. MinHeartbeat(ports, timeouts) \in Nat \ {0}
  BY CadenceType
<1>2. interval \in Nat \ {0} /\ handle \in BOOLEAN
  BY DEF Inv, Types, TypeOK
<1>3. CASE ports = {}
  <2>1. handle' = FALSE /\ due' = 0 /\ interval' = interval
    BY <1>3 DEF Schedule
  <2>2. handle' \in BOOLEAN /\ interval' \in Nat \ {0} /\ due' \in 0..interval'
    <3>1. handle' \in BOOLEAN
      BY <2>1, Zenon
    <3>2. interval' \in Nat \ {0} /\ due' = 0
      BY <1>2, <2>1
    <3> QED BY <3>1, <3>2
  <2> QED BY <1>3, <2>1, <2>2, Zenon DEF Watches
<1>4. CASE ports # {} /\ handle /\ interval = MinHeartbeat(ports, timeouts)
  <2>1. due' = left /\ handle' = handle /\ interval' = interval
    BY <1>4 DEF Schedule
  <2> QED BY <1>2, <1>4, <2>1 DEF Watches
<1>5. CASE ports # {} /\ ~(handle /\ interval = MinHeartbeat(ports, timeouts))
  <2>1. /\ handle' = TRUE /\ interval' = MinHeartbeat(ports, timeouts)
        /\ due' = MinHeartbeat(ports, timeouts)
    BY <1>5 DEF Schedule
  <2> QED BY <1>1, <1>5, <2>1 DEF Watches
<1> QED BY <1>3, <1>4, <1>5

\* A timer that is left alone goes on watching the same ports.
LEMMA SteadyWatches ==
  ASSUME Inv, UNCHANGED <<targets, timeout, handle, interval, due>>
  PROVE  Watches(targets', timeout')
BY DEF Inv, Types, TypeOK, CadenceFollowsPorts, Watches

\* The pieces of the invariant that a step of port p must establish.
LEMMA StepInv ==
  ASSUME Inv, NEW p \in Ports,
         tab' \in [Ports -> {"none", "left", "dead"} \cup Living],
         hb' \in [Ports -> Intervals], ping' \in [Ports -> Nat], ping'[p] <= hb'[p],
         wire' \in [Ports -> Seq(Messages)], notice' \subseteq Ports,
         session' \in [Ports -> {"none", "running", "ended"}],
         targets' \subseteq Ports, open' = targets',
         silence' \in [Ports -> 0..MaxSilence], timeout' \in [Ports -> Timeouts],
         Watches(targets', timeout'),
         \A q \in Ports \ {p} : Same(q), PortOK(p)'
  PROVE  Inv'
<1>1. timeout' \in [Ports -> Nat]
  BY TimeoutType DEF Timeouts
<1>2. \A q \in Ports : ping'[q] \in 0..hb'[q]
  <2>1. ASSUME NEW q \in Ports PROVE ping'[q] \in 0..hb'[q]
    <3>1. hb'[q] \in Nat /\ ping'[q] \in Nat
      BY TimeoutType
    <3>2. CASE q # p
      <4>1. Same(q) /\ ping[q] \in 0..hb[q]
        BY <3>2 DEF Inv, Types, TypeOK
      <4> QED BY <4>1 DEF Same
    <3> QED BY <3>1, <3>2
  <2> QED BY <2>1
<1>3. TypeOK'
  BY <1>1, <1>2 DEF TypeOK, Watches, Messages, Intervals
<1>4. CadenceFollowsPorts'
  BY DEF Watches, CadenceFollowsPorts
<1>5. \A q \in Ports : PortOK(q)'
  BY SamePort DEF Inv
<1> QED BY <1>3, <1>4, <1>5 DEF Inv, Types

\* What the invariant says of the domains and of one port.
LEMMA Known ==
  ASSUME Inv, NEW p \in Ports
  PROVE  /\ tab \in [Ports -> {"none", "left", "dead"} \cup Living]
         /\ hb \in [Ports -> Intervals] /\ ping \in [Ports -> Nat] /\ ping[p] <= hb[p]
         /\ wire \in [Ports -> Seq(Messages)] /\ notice \subseteq Ports
         /\ session \in [Ports -> {"none", "running", "ended"}]
         /\ targets \subseteq Ports /\ open = targets
         /\ silence \in [Ports -> 0..MaxSilence] /\ timeout \in [Ports -> Timeouts]
         /\ PortOK(p)
<1>1. hb \in [Ports -> Intervals]
  BY DEF Inv, Types, TypeOK, Intervals
<1>2. ping[p] \in 0..hb[p] /\ hb[p] \in Nat
  BY <1>1, TimeoutType DEF Inv, Types, TypeOK
<1>3. ping \in [Ports -> Nat] /\ wire \in [Ports -> Seq(Messages)]
      /\ timeout \in [Ports -> Timeouts] /\ open = targets
  BY DEF Inv, Types
<1>4. /\ tab \in [Ports -> {"none", "left", "dead"} \cup Living] /\ notice \subseteq Ports
      /\ session \in [Ports -> {"none", "running", "ended"}] /\ open \subseteq Ports
      /\ silence \in [Ports -> 0..MaxSilence]
  BY DEF Inv, Types, TypeOK
<1> QED BY <1>1, <1>2, <1>3, <1>4 DEF Inv

----------------------------------------------------------------------------
(* The tabs.                                                               *)

\* A step of a tab, which leaves the reaper and the worker's ports alone.
LEMMA TabStep ==
  ASSUME Inv, NEW p \in Ports, UNCHANGED <<open, reaper>>,
         tab' \in [Ports -> {"none", "left", "dead"} \cup Living],
         hb' \in [Ports -> Intervals], ping' \in [Ports -> Nat], ping'[p] <= hb'[p],
         wire' \in [Ports -> Seq(Messages)], notice' \subseteq Ports,
         session' \in [Ports -> {"none", "running", "ended"}],
         \A q \in Ports \ {p} :
           /\ tab'[q] = tab[q] /\ hb'[q] = hb[q] /\ ping'[q] = ping[q]
           /\ wire'[q] = wire[q] /\ session'[q] = session[q]
           /\ q \in notice' <=> q \in notice,
         PortOK(p)'
  PROVE  Inv'
<1>1. UNCHANGED <<open, targets, silence, timeout, handle, interval, due>>
  BY DEF reaper
<1>2. Watches(targets', timeout')
  BY <1>1, SteadyWatches
<1>3. \A q \in Ports \ {p} : Same(q)
  BY <1>1 DEF Same
<1>4. /\ targets' \subseteq Ports /\ open' = targets'
      /\ silence' \in [Ports -> 0..MaxSilence] /\ timeout' \in [Ports -> Timeouts]
  BY <1>1, Known
<1> QED BY <1>2, <1>3, <1>4, StepInv

\* A tab connects: its connect event and its INIT are under way.
LEMMA ConnectInv ==
  ASSUME Inv, NEW p \in Ports, NEW h \in Heartbeats, Connect(p, h)
  PROVE  Inv'
<1>1. h \in Intervals /\ h \in Nat
  BY TimeoutType DEF Intervals
<1>2. Message("CONNECT") \in Messages /\ Message("INIT") \in Messages
  BY DelayAssumption DEF Message, Messages
<1>3. UNCHANGED <<open, reaper>> /\ notice' = notice
  BY DEF Connect
<1>4. /\ tab' = [tab EXCEPT ![p] = "prompt"] /\ hb' = [hb EXCEPT ![p] = h]
      /\ ping' = [ping EXCEPT ![p] = h] /\ session' = [session EXCEPT ![p] = "none"]
      /\ wire' = [wire EXCEPT ![p] = <<Message("CONNECT"), Message("INIT")>>]
  BY DEF Connect
<1>5. p \notin targets'
  BY <1>3, Known DEF Connect, reaper, PortOK, Tracked
<1>6. /\ tab'[p] = "prompt" /\ session'[p] = "none" /\ hb'[p] = h /\ ping'[p] = h
      /\ wire'[p] = <<Message("CONNECT"), Message("INIT")>>
  BY <1>4, Known
<1>7. PortOK(p)'
  <2>1. Orderly(p)'
    BY <1>6 DEF Orderly, Fresh, Kind, Message
  <2>2. Tracked(p)' /\ HeardOf(p)' /\ Answered(p)'
    BY <1>5, <1>6 DEF Tracked, HeardOf, Answered
  <2> QED BY <2>1, <2>2 DEF PortOK
<1>8. /\ tab' \in [Ports -> {"none", "left", "dead"} \cup Living]
      /\ hb' \in [Ports -> Intervals] /\ ping' \in [Ports -> Nat] /\ ping'[p] <= hb'[p]
      /\ notice' \subseteq Ports
      /\ session' \in [Ports -> {"none", "running", "ended"}]
  BY <1>1, <1>3, <1>4, <1>6, Known DEF Living
<1>9. wire' \in [Ports -> Seq(Messages)]
  BY <1>2, <1>4, Known
<1>10. \A q \in Ports \ {p} :
         /\ tab'[q] = tab[q] /\ hb'[q] = hb[q] /\ ping'[q] = ping[q]
         /\ wire'[q] = wire[q] /\ session'[q] = session[q]
         /\ q \in notice' <=> q \in notice
  BY <1>3, <1>4, Known
<1> QED BY <1>3, <1>7, <1>8, <1>9, <1>10, TabStep

\* A PING or a STOP joins the messages of a tab that has not left.
LEMMA Posted ==
  ASSUME Inv, NEW p \in Ports, NEW kind \in {"PING", "STOP"},
         tab[p] \in Living, tab'[p] # "none", kind = "STOP" => tab'[p] = "left",
         wire'[p] = Append(wire[p], Message(kind))
  PROVE  /\ Orderly(p)' /\ wire'[p] # <<>>
         /\ Fresh(p)' <=> Fresh(p)
         /\ Greets(p)' <=> Greets(p)
         /\ wire[p] # <<>> => wire'[p][1] = wire[p][1]
         /\ wire[p] = <<>> => wire'[p][1] = Message(kind)
<1> DEFINE n == Len(wire[p])
<1>1. wire[p] \in Seq(Messages) /\ Orderly(p)
  BY Known DEF PortOK
<1>2. n \in Nat /\ Len(wire'[p]) = n + 1 /\ wire'[p][n + 1] = Message(kind)
      /\ \A i \in 1..n : wire'[p][i] = wire[p][i]
  BY <1>1 DEF Message
<1>3. Message(kind).kind = kind
  BY DEF Message
<1>4. wire[p] = <<>> <=> n = 0
  BY <1>1
<1>5. wire'[p] # <<>>
  <2>1. Len(wire'[p]) # 0
    BY <1>2
  <2>2. Len(<<>>) = 0
    OBVIOUS
  <2> QED BY <2>1, <2>2, Zenon
<1>6. wire[p] # <<>> => wire'[p][1] = wire[p][1]
  BY <1>2, <1>4
<1>7. wire[p] = <<>> => wire'[p][1] = Message(kind)
  BY <1>2, <1>4
<1>8. Fresh(p)' <=> Fresh(p)
  BY <1>3, <1>5, <1>6, <1>7 DEF Fresh, Kind
<1>9. Greets(p)' <=> Greets(p)
  BY <1>3, <1>5, <1>6, <1>7 DEF Greets, Kind
<1>10. \A i \in 1..n : Kind(p, i) # "STOP"
  BY <1>1 DEF Orderly, Living
<1>11. n = 1 => Kind(p, 1) # "CONNECT"
  BY <1>1, <1>4 DEF Orderly, Fresh
<1>12. ASSUME NEW i \in 1..Len(wire'[p])
       PROVE /\ i > 2 => Kind(p, i)' \in {"PING", "STOP"}
             /\ i = 2 => IF Kind(p, 1)' = "CONNECT" THEN Kind(p, 2)' = "INIT"
                         ELSE Kind(p, 2)' \in {"PING", "STOP"}
             /\ Kind(p, i)' = "STOP" => tab'[p] = "left"
  <2>1. CASE i = n + 1
    <3>1. Kind(p, i)' = kind
      BY <1>2, <1>3, <2>1 DEF Kind
    <3>2. i = 2 => Kind(p, 1)' = Kind(p, 1) /\ Kind(p, 1) # "CONNECT"
      <4>1. i = 2 => n = 1
        <5>1. n \in Nat
          BY <1>2
        <5> HIDE DEF n
        <5> QED BY <2>1, <5>1
      <4>2. n = 1 => wire'[p][1] = wire[p][1]
        BY <1>2
      <4> QED BY <1>11, <4>1, <4>2 DEF Kind
    <3> QED BY <3>1, <3>2
  <2>2. CASE i \in 1..n
    <3>1. Kind(p, i)' = Kind(p, i) /\ Kind(p, 1)' = Kind(p, 1)
      BY <1>2, <2>2 DEF Kind
    <3> QED BY <1>1, <1>10, <2>2, <3>1 DEF Orderly, Kind
  <2> QED BY <1>2, <2>1, <2>2
<1>13. Fresh(p)' => Len(wire'[p]) > 1
  BY <1>1, <1>2, <1>8 DEF Orderly
<1>14. Orderly(p)'
  BY <1>12, <1>13 DEF Orderly, Kind
<1> QED BY <1>5, <1>6, <1>7, <1>8, <1>9, <1>14

\* A PING is due: the tab sends it and sets its timer again.
LEMMA PingInv ==
  ASSUME Inv, NEW p \in Ports, Ping(p) PROVE Inv'
<1>1. /\ UNCHANGED <<open, reaper>> /\ tab' = tab /\ hb' = hb /\ notice' = notice
      /\ session' = session /\ targets' = targets /\ silence' = silence /\ timeout' = timeout
  BY DEF Ping, reaper
<1>2. ping' = [ping EXCEPT ![p] = hb[p]] /\ ping[p] = 0
      /\ wire' = [wire EXCEPT ![p] = Append(wire[p], Message("PING"))]
  BY DEF Ping
<1>3. hb[p] \in Nat /\ PortOK(p)
  BY Known, TimeoutType
<1>4. ping'[p] = hb[p] /\ wire'[p] = Append(wire[p], Message("PING"))
  BY <1>2, Known
<1>5. /\ Orderly(p)' /\ wire'[p] # <<>>
      /\ Fresh(p)' <=> Fresh(p)
      /\ Greets(p)' <=> Greets(p)
      /\ wire[p] # <<>> => wire'[p][1] = wire[p][1]
      /\ wire[p] = <<>> => wire'[p][1] = Message("PING")
  BY <1>1, <1>4, Posted DEF Ping, Living
<1>6. Tracked(p)' /\ Answered(p)'
  BY <1>1, <1>3, <1>5 DEF PortOK, Tracked, Answered
<1>7. HeardOf(p)'
  <2>1. SUFFICES ASSUME tab[p] = "prompt", p \in targets
                 PROVE IF Greets(p) THEN silence[p] <= wire'[p][1].age
                       ELSE hb[p] # Infinity => silence[p] <= wire'[p][1].age + hb[p]
    BY <1>1, <1>5 DEF HeardOf
  <2>2. CASE wire[p] = <<>>
    <3>1. ~Greets(p) /\ wire'[p][1].age = 0
      BY <1>5, <2>2 DEF Greets, Message
    <3>2. silence[p] \in Nat
      BY Known, SilenceType
    <3> QED BY <1>2, <1>3, <2>1, <2>2, <3>1, <3>2 DEF PortOK, HeardOf
  <2>3. CASE wire[p] # <<>>
    BY <1>3, <1>5, <2>1, <2>3 DEF PortOK, HeardOf
  <2> QED BY <2>2, <2>3
<1>8. PortOK(p)'
  BY <1>5, <1>6, <1>7 DEF PortOK
<1>9. Message("PING") \in Messages
  BY DelayAssumption DEF Message, Messages
<1>10. /\ tab' \in [Ports -> {"none", "left", "dead"} \cup Living]
       /\ hb' \in [Ports -> Intervals] /\ ping' \in [Ports -> Nat] /\ ping'[p] <= hb'[p]
       /\ wire' \in [Ports -> Seq(Messages)] /\ notice' \subseteq Ports
       /\ session' \in [Ports -> {"none", "running", "ended"}]
  BY <1>1, <1>2, <1>3, <1>4, <1>9, Known
<1>11. \A q \in Ports \ {p} :
         /\ tab'[q] = tab[q] /\ hb'[q] = hb[q] /\ ping'[q] = ping[q]
         /\ wire'[q] = wire[q] /\ session'[q] = session[q]
         /\ q \in notice' <=> q \in notice
  BY <1>1, <1>2, Known
<1> QED BY <1>1, <1>8, <1>10, <1>11, TabStep

\* The tab leaves with a STOP.
LEMMA StopInv ==
  ASSUME Inv, NEW p \in Ports, Stop(p) PROVE Inv'
<1>1. /\ UNCHANGED <<open, reaper>> /\ hb' = hb /\ ping' = ping /\ notice' = notice \ {p}
      /\ session' = session /\ targets' = targets /\ silence' = silence /\ timeout' = timeout
  BY DEF Stop, reaper
<1>2. tab' = [tab EXCEPT ![p] = "left"] /\ tab[p] \in Living
      /\ wire' = [wire EXCEPT ![p] = Append(wire[p], Message("STOP"))]
  BY DEF Stop, Living
<1>3. tab'[p] = "left" /\ wire'[p] = Append(wire[p], Message("STOP"))
  BY <1>2, Known
<1>4. /\ Orderly(p)' /\ wire'[p] # <<>>
      /\ Fresh(p)' <=> Fresh(p)
      /\ Greets(p)' <=> Greets(p)
  BY <1>2, <1>3, Posted
<1>5. Tracked(p)' /\ Answered(p)' /\ HeardOf(p)'
  BY <1>1, <1>3, <1>4, Known DEF PortOK, Tracked, Answered, HeardOf
<1>6. PortOK(p)'
  BY <1>4, <1>5 DEF PortOK
<1>7. Message("STOP") \in Messages
  BY DelayAssumption DEF Message, Messages
<1>8. /\ tab' \in [Ports -> {"none", "left", "dead"} \cup Living]
      /\ hb' \in [Ports -> Intervals] /\ ping' \in [Ports -> Nat] /\ ping'[p] <= hb'[p]
      /\ wire' \in [Ports -> Seq(Messages)] /\ notice' \subseteq Ports
      /\ session' \in [Ports -> {"none", "running", "ended"}]
  BY <1>1, <1>2, <1>7, Known
<1>9. \A q \in Ports \ {p} :
         /\ tab'[q] = tab[q] /\ hb'[q] = hb[q] /\ ping'[q] = ping[q]
         /\ wire'[q] = wire[q] /\ session'[q] = session[q]
         /\ q \in notice' <=> q \in notice
  BY <1>1, <1>2, Known
<1> QED BY <1>1, <1>6, <1>8, <1>9, TabStep

\* A living tab becomes something else than prompt, in silence.
LEMMA Turned ==
  ASSUME Inv, NEW p \in Ports, NEW st \in {"stalled", "woken", "dead", "left"},
         tab[p] \in Living, tab' = [tab EXCEPT ![p] = st],
         notice' \subseteq notice, notice \ {p} \subseteq notice',
         UNCHANGED <<hb, ping, wire, session, open, reaper>>,
         st \in {"stalled", "woken"} => notice' = notice
  PROVE  Inv'
<1>1. /\ hb' = hb /\ ping' = ping /\ wire' = wire /\ session' = session
      /\ targets' = targets /\ silence' = silence /\ timeout' = timeout
  BY DEF reaper
<1>2. tab'[p] = st
  BY Known
<1>3. PortOK(p)
  BY Known
<1>4. Orderly(p)'
  BY <1>1, <1>2, <1>3 DEF PortOK, Orderly, Living, Fresh, Kind
<1>5. Tracked(p)' /\ HeardOf(p)'
  BY <1>1, <1>2, <1>3 DEF PortOK, Tracked, HeardOf, Fresh, Greets, Kind, Living
<1>6. Answered(p)'
  BY <1>1, <1>2, <1>3 DEF PortOK, Answered, Living
<1>7. PortOK(p)'
  BY <1>4, <1>5, <1>6 DEF PortOK
<1>8. /\ tab' \in [Ports -> {"none", "left", "dead"} \cup Living]
      /\ hb' \in [Ports -> Intervals] /\ ping' \in [Ports -> Nat] /\ ping'[p] <= hb'[p]
      /\ wire' \in [Ports -> Seq(Messages)] /\ notice' \subseteq Ports
      /\ session' \in [Ports -> {"none", "running", "ended"}]
  BY <1>1, Known DEF Living
<1>9. \A q \in Ports \ {p} :
         /\ tab'[q] = tab[q] /\ hb'[q] = hb[q] /\ ping'[q] = ping[q]
         /\ wire'[q] = wire[q] /\ session'[q] = session[q]
         /\ q \in notice' <=> q \in notice
  BY <1>1, Known
<1> QED BY <1>7, <1>8, <1>9, TabStep

\* Stalls, wakings and deaths, and the notice that reaches its tab.
LEMMA TurnInv ==
  ASSUME Inv, NEW p \in Ports, Stall(p) \/ Wake(p) \/ Die(p) \/ Learn(p)
  PROVE  Inv'
<1>1. CASE Stall(p)
  BY <1>1, Turned DEF Stall, Living
<1>2. CASE Wake(p)
  BY <1>2, Turned DEF Wake, Living
<1>3. CASE Die(p)
  BY <1>3, Turned DEF Die
<1>4. CASE Learn(p)
  BY <1>4, Turned DEF Learn, Living
<1> QED BY <1>1, <1>2, <1>3, <1>4

----------------------------------------------------------------------------
(* The worker's message handlers.                                          *)

\* The oldest message of a port is handled: what is left is in order, and
\* begins with the INIT if that was the connect event.
LEMMA Taken ==
  ASSUME Inv, NEW p \in Ports, wire[p] # <<>>, tab' = tab,
         wire' = [wire EXCEPT ![p] = Tail(wire[p])]
  PROVE  /\ wire' \in [Ports -> Seq(Messages)] /\ tab[p] # "none"
         /\ \A q \in Ports \ {p} : wire'[q] = wire[q]
         /\ Head(wire[p]).kind = Kind(p, 1)
         /\ Orderly(p)' /\ ~Fresh(p)'
         /\ Greets(p)' <=> Kind(p, 1) = "CONNECT"
         /\ wire'[p] # <<>> => wire'[p][1].age \in Nat
<1> DEFINE n == Len(wire[p])
<1>1. wire[p] \in Seq(Messages) /\ Orderly(p) /\ wire \in [Ports -> Seq(Messages)]
  BY Known DEF PortOK
<1>2. n \in Nat \ {0} /\ wire'[p] = Tail(wire[p]) /\ Len(wire'[p]) = n - 1
      /\ \A i \in 1..(n - 1) : wire'[p][i] = wire[p][i + 1]
  BY <1>1
<1>3. wire'[p] \in Seq(Messages) /\ wire' \in [Ports -> Seq(Messages)]
  BY <1>1, <1>2
<1>4. \A i \in 1..(n - 1) : Kind(p, i)' = Kind(p, i + 1)
  BY <1>2 DEF Kind
<1>5. wire'[p] # <<>> <=> n > 1
  <2>1. (wire'[p] = <<>>) <=> (Len(wire'[p]) = 0)
    BY <1>3, EmptySeq, Zenon
  <2>2. n \in Nat \ {0} /\ Len(wire'[p]) = n - 1
    BY <1>2
  <2>3. \A a \in Nat \ {0}, b \in Int : b = a - 1 => (a > 1 <=> ~(b = 0))
    OBVIOUS
  <2>4. n > 1 <=> ~(Len(wire'[p]) = 0)
    <3>1. n - 1 \in Int
      BY <2>2
    <3> QED BY <2>2, <2>3, <3>1, Zenon
  <2> QED BY <2>1, <2>4, Zenon
<1>6. ASSUME NEW i \in 1..(n - 1)
      PROVE /\ i > 1 => Kind(p, i)' \in {"PING", "STOP"}
            /\ i = 1 => IF Kind(p, 1) = "CONNECT" THEN Kind(p, 1)' = "INIT"
                        ELSE Kind(p, 1)' \in {"PING", "STOP"}
            /\ Kind(p, i)' = "STOP" => tab'[p] = "left"
  <2> DEFINE j == i + 1
  <2>1. j \in 1..n /\ (i > 1 => j > 2) /\ (i = 1 => j = 2) /\ Kind(p, i)' = Kind(p, j)
    BY <1>2, <1>4
  <2> HIDE DEF j, n
  <2>2. /\ j > 2 => Kind(p, j) \in {"PING", "STOP"}
        /\ j = 2 => IF Kind(p, 1) = "CONNECT" THEN Kind(p, 2) = "INIT"
                    ELSE Kind(p, 2) \in {"PING", "STOP"}
        /\ Kind(p, j) = "STOP" => tab[p] = "left"
    BY <1>1, <2>1 DEF Orderly, n
  <2> QED BY <2>1, <2>2
<1>7. n > 1 => 1 \in 1..(n - 1)
  BY <1>2
<1>8. ~Fresh(p)'
  BY <1>5, <1>6, <1>7 DEF Fresh
<1>9. Greets(p)' <=> Kind(p, 1) = "CONNECT"
  <2>1. Kind(p, 1) = "CONNECT" => n > 1
    BY <1>1 DEF Orderly, Fresh
  <2> QED BY <1>5, <1>6, <1>7, <2>1 DEF Greets
<1>10. tab[p] # "none"
  BY <1>1 DEF Orderly
<1>11. Orderly(p)'
  <2>1. ASSUME NEW i \in 1..Len(wire'[p])
        PROVE /\ i > 2 => Kind(p, i)' \in {"PING", "STOP"}
              /\ i = 2 => IF Kind(p, 1)' = "CONNECT" THEN Kind(p, 2)' = "INIT"
                          ELSE Kind(p, 2)' \in {"PING", "STOP"}
              /\ Kind(p, i)' = "STOP" => tab'[p] = "left"
    <3>1. i \in 1..(n - 1) /\ 1 \in 1..(n - 1)
      BY <1>2
    <3>2. Kind(p, 1)' # "CONNECT"
      BY <1>6, <3>1
    <3> QED BY <1>6, <3>1, <3>2
  <2> QED BY <1>8, <1>10, <2>1 DEF Orderly, Fresh, Kind
<1>12. Head(wire[p]).kind = Kind(p, 1)
  BY <1>1 DEF Kind
<1>13. wire'[p] # <<>> => wire'[p][1].age \in Nat
  <2>1. wire'[p] # <<>> => wire'[p][1] \in Messages
    BY <1>3
  <2> QED BY <2>1, DelayAssumption DEF Messages
<1> QED BY <1>1, <1>3, <1>8, <1>9, <1>10, <1>11, <1>12, <1>13

\* What a delivery leaves alone, and the steps common to all of its cases.
LEMMA DeliverStep ==
  ASSUME Inv, NEW p \in Ports, Deliver(p),
         targets' \in {targets, targets \cup {p}, targets \ {p}}, open' = targets',
         silence' \in [Ports -> 0..MaxSilence], timeout' \in [Ports -> Timeouts],
         session' \in [Ports -> {"none", "running", "ended"}],
         \A q \in Ports \ {p} : /\ silence'[q] = silence[q] /\ timeout'[q] = timeout[q]
                                /\ session'[q] = session[q],
         Watches(targets', timeout'), Tracked(p)', HeardOf(p)', Answered(p)'
  PROVE  Inv'
<1>1. tab' = tab /\ hb' = hb /\ ping' = ping /\ notice' = notice
  BY DEF Deliver, tabVars
<1>2. wire[p] # <<>> /\ wire' = [wire EXCEPT ![p] = Tail(wire[p])]
  BY DEF Deliver
<1>3. /\ wire' \in [Ports -> Seq(Messages)] /\ Orderly(p)'
      /\ \A q \in Ports \ {p} : wire'[q] = wire[q]
  BY <1>1, <1>2, Taken
<1>4. PortOK(p)'
  BY <1>3 DEF PortOK
<1>5. \A q \in Ports \ {p} : Same(q)
  BY <1>1, <1>3 DEF Same
<1>6. /\ tab' \in [Ports -> {"none", "left", "dead"} \cup Living]
      /\ hb' \in [Ports -> Intervals] /\ ping' \in [Ports -> Nat] /\ ping'[p] <= hb'[p]
      /\ notice' \subseteq Ports /\ targets' \subseteq Ports
  BY <1>1, Known
<1> QED BY <1>3, <1>4, <1>5, <1>6, StepInv

\* The oldest message of a port is handled.
LEMMA DeliverInv ==
  ASSUME Inv, NEW p \in Ports, Deliver(p) PROVE Inv'
<1> DEFINE kind == Kind(p, 1)
<1>1. /\ tab' = tab /\ hb' = hb /\ ping' = ping /\ notice' = notice
  BY DEF Deliver, tabVars
<1>2. wire[p] # <<>> /\ wire' = [wire EXCEPT ![p] = Tail(wire[p])]
  BY DEF Deliver
<1>3. /\ Head(wire[p]).kind = kind /\ ~Fresh(p)' /\ tab[p] # "none"
      /\ Greets(p)' <=> kind = "CONNECT"
      /\ wire'[p] # <<>> => wire'[p][1].age \in Nat
  BY <1>1, <1>2, Taken
<1>4. /\ targets \subseteq Ports /\ open = targets /\ PortOK(p)
      /\ silence \in [Ports -> 0..MaxSilence] /\ timeout \in [Ports -> Timeouts]
      /\ session \in [Ports -> {"none", "running", "ended"}]
      /\ ping[p] <= hb[p] /\ ping[p] \in Nat /\ hb[p] \in Nat /\ hb[p] \in Intervals
  BY Known, TimeoutType
<1>5. due \in 0..interval
  BY DEF Inv, Types, TypeOK
<1>6. 0 \in 0..MaxSilence
  BY SilenceType
<1>7. /\ kind = "CONNECT" <=> Fresh(p)
      /\ kind = "INIT" <=> Greets(p)
  BY <1>2 DEF Fresh, Greets
<1>8. silence'[p] = 0 => HeardOf(p)'
  <2>1. SUFFICES ASSUME silence'[p] = 0 PROVE HeardOf(p)'
    OBVIOUS
  <2>2. CASE wire'[p] = <<>>
    BY <1>1, <1>4, <2>1, <2>2 DEF HeardOf
  <2>3. CASE wire'[p] # <<>>
    BY <1>1, <1>3, <1>4, <2>1, <2>3 DEF HeardOf
  <2> QED BY <2>2, <2>3
<1>9. Touched(p) = IF p \in targets THEN [silence EXCEPT ![p] = 0] ELSE silence
  BY DEF Touched
<1>10. CASE kind = "CONNECT"
  <2>1. Register(p) /\ open' = open \cup {p} /\ session' = session
    BY <1>3, <1>10 DEF Deliver
  <2>2. /\ targets' = targets \cup {p} /\ silence' = [silence EXCEPT ![p] = 0]
        /\ timeout' = [timeout EXCEPT ![p] = DefaultTimeout]
        /\ Schedule(targets', timeout', due)
    BY <2>1 DEF Register
  <2>3. /\ timeout' \in [Ports -> Timeouts] /\ timeout'[p] = DefaultTimeout
        /\ silence' \in [Ports -> 0..MaxSilence] /\ silence'[p] = 0
        /\ targets' \subseteq Ports /\ open' = targets'
    BY <1>4, <1>6, <2>1, <2>2, DefaultIsOne
  <2>4. Watches(targets', timeout')
    BY <1>5, <2>2, <2>3, ScheduleWatches
  <2>5. Tracked(p)'
    BY <1>1, <1>3, <1>10, <2>3 DEF Tracked
  <2>6. Answered(p)'
    BY <1>1, <1>4, <2>1 DEF PortOK, Answered
  <2> QED BY <1>4, <1>8, <2>1, <2>2, <2>3, <2>4, <2>5, <2>6, DeliverStep
<1>11. CASE kind # "CONNECT" /\ p \notin open
  <2>1. UNCHANGED <<reaper, open, session>>
    BY <1>3, <1>11 DEF Deliver
  <2>2. UNCHANGED <<targets, silence, timeout, handle, interval, due>>
    BY <2>1 DEF reaper
  <2>3. Watches(targets', timeout')
    BY <2>2, SteadyWatches
  <2>4. Tracked(p)' /\ HeardOf(p)'
    BY <1>4, <1>11, <2>2 DEF Tracked, HeardOf
  <2>5. Answered(p)'
    BY <1>1, <1>4, <2>1 DEF PortOK, Answered
  <2> QED BY <1>4, <2>1, <2>2, <2>3, <2>4, <2>5, DeliverStep
<1>12. ASSUME kind \in {"PING", "INIT"}, p \in open, Touch(p),
              kind = "INIT" => hb[p] = DEFAULT_HEARTBEAT_INTERVAL_MS,
              open' = open, Answered(p)',
              session' \in [Ports -> {"none", "running", "ended"}],
              \A q \in Ports \ {p} : session'[q] = session[q]
       PROVE  Inv'
  <2>1. /\ UNCHANGED <<targets, timeout, handle, interval, due>>
        /\ silence' = [silence EXCEPT ![p] = 0]
    BY <1>4, <1>9, <1>12 DEF Touch
  <2>2. Watches(targets', timeout')
    BY <2>1, SteadyWatches
  <2>3. silence' \in [Ports -> 0..MaxSilence] /\ silence'[p] = 0
    BY <1>4, <1>6, <2>1
  <2>4. Tracked(p)'
    BY <1>1, <1>3, <1>4, <1>7, <1>12, <2>1, DefaultIsOne DEF PortOK, Tracked
  <2> QED BY <1>4, <1>8, <1>12, <2>1, <2>2, <2>3, <2>4, DeliverStep
<1>13. CASE kind = "PING" /\ p \in open
  <2>1. Touch(p) /\ UNCHANGED <<open, session>>
    BY <1>3, <1>13 DEF Deliver
  <2>2. Answered(p)'
    BY <1>1, <1>4, <2>1 DEF PortOK, Answered
  <2> QED BY <1>4, <1>12, <1>13, <2>1, <2>2
<1>14. CASE kind = "INIT" /\ p \in open
  <2>1. /\ IF hb[p] = DEFAULT_HEARTBEAT_INTERVAL_MS THEN Touch(p) ELSE SetTimeout(p, hb[p])
        /\ session' = [session EXCEPT ![p] = "running"] /\ open' = open
    BY <1>3, <1>14 DEF Deliver
  <2>2. session' \in [Ports -> {"none", "running", "ended"}] /\ session'[p] = "running"
    BY <1>4, <2>1
  <2>3. Answered(p)'
    BY <2>2 DEF Answered
  <2>4. CASE hb[p] = DEFAULT_HEARTBEAT_INTERVAL_MS
    BY <1>4, <1>12, <1>14, <2>1, <2>2, <2>3, <2>4
  <2>5. CASE hb[p] # DEFAULT_HEARTBEAT_INTERVAL_MS
    <3>1. /\ silence' = [silence EXCEPT ![p] = 0]
          /\ timeout' = [timeout EXCEPT ![p] = SessionTimeout(hb[p])]
          /\ Schedule(targets, timeout', due) /\ targets' = targets
      BY <1>4, <1>9, <1>14, <2>1, <2>5 DEF SetTimeout
    <3>2. /\ silence' \in [Ports -> 0..MaxSilence] /\ silence'[p] = 0
          /\ timeout' \in [Ports -> Timeouts] /\ timeout'[p] = SessionTimeout(hb[p])
      BY <1>4, <1>6, <3>1 DEF Timeouts
    <3>3. Watches(targets', timeout')
      BY <1>4, <1>5, <3>1, <3>2, ScheduleWatches
    <3>4. Tracked(p)'
      BY <1>1, <1>3, <1>14, <3>2 DEF Tracked
    <3> QED BY <1>4, <1>8, <2>1, <2>2, <2>3, <3>1, <3>2, <3>3, <3>4, DeliverStep
  <2> QED BY <2>4, <2>5
<1>15. CASE kind = "STOP" /\ p \in open
  <2>1. Remove(p) /\ open' = open \ {p} /\ session' = Ended({p})
    BY <1>3, <1>15 DEF Deliver
  <2>2. /\ targets' = targets \ {p} /\ Schedule(targets', timeout, due)
        /\ silence' = silence /\ timeout' = timeout
    BY <1>4, <1>15, <2>1 DEF Remove
  <2>3. /\ session' \in [Ports -> {"none", "running", "ended"}]
        /\ \A q \in Ports \ {p} : session'[q] = session[q]
    BY <1>4, <2>1 DEF Ended
  <2>4. Watches(targets', timeout')
    BY <1>4, <1>5, <2>2, ScheduleWatches
  <2>5. tab'[p] = "left"
    <3>1. 1 \in 1..Len(wire[p])
      <4>1. wire[p] \in Seq(Messages)
        BY Known
      <4>2. Len(wire[p]) \in Nat \ {0}
        BY <1>2, <4>1, EmptySeq
      <4> QED BY <4>2
    <3> QED BY <1>1, <1>4, <1>15, <3>1 DEF PortOK, Orderly
  <2>6. Tracked(p)' /\ HeardOf(p)' /\ Answered(p)'
    BY <2>2, <2>5 DEF Tracked, HeardOf, Answered
  <2> QED BY <1>4, <2>1, <2>2, <2>3, <2>4, <2>6, DeliverStep
<1>16. p \in open => kind \in {"CONNECT", "INIT", "PING", "STOP"}
  BY <1>3 DEF Deliver
<1> QED BY <1>10, <1>11, <1>13, <1>14, <1>15, <1>16

----------------------------------------------------------------------------
(* Time.                                                                   *)

\* A prompt tab is not among the silent ones.
LEMMA PromptIsHeard ==
  ASSUME Inv, NEW p \in Silent PROVE tab[p] # "prompt" /\ p \in Ports
<1>1. p \in targets /\ silence[p] > timeout[p] /\ p \in Ports
  BY Known DEF Silent, Inv, Types, TypeOK
<1>2. PortOK(p) /\ hb[p] \in Intervals /\ hb[p] \in Nat /\ silence[p] \in 0..MaxSilence
      /\ ping[p] \in Nat /\ wire[p] \in Seq(Messages)
  BY <1>1, Known, TimeoutType
<1>3. wire[p] # <<>> => wire[p][1].age \in 0..MaxDelay
  <2>1. wire[p] # <<>> => wire[p][1] \in Messages
    BY <1>2
  <2> QED BY <2>1 DEF Messages
<1>4. timeout[p] = IF Greets(p) THEN DefaultTimeout ELSE SessionTimeout(hb[p])
  BY <1>1, <1>2 DEF PortOK, Tracked
<1>5. MaxDelay \in Nat /\ DefaultTimeout \in Nat /\ DefaultTimeout >= MaxDelay
  BY DelayAssumption, DefaultIsOne, TimeoutType DEF Timeouts
<1>6. /\ SessionTimeout(hb[p]) \in Nat
      /\ hb[p] # Infinity => SessionTimeout(hb[p]) >= hb[p] + MaxDelay
      /\ hb[p] = Infinity => SessionTimeout(hb[p]) > MaxSilence
      /\ MaxSilence \in Nat
  <2>1. hb[p] = Infinity => SessionTimeout(hb[p]) = Infinity
    BY DEF SessionTimeout
  <2> QED BY <1>2, <2>1, TimeoutType, SilenceType, HeartbeatsAssumption
<1>7. ASSUME tab[p] = "prompt" PROVE FALSE
  <2>1. IF wire[p] = <<>> THEN hb[p] # Infinity => silence[p] + ping[p] <= hb[p]
        ELSE IF Greets(p) THEN silence[p] <= wire[p][1].age
        ELSE hb[p] # Infinity => silence[p] <= wire[p][1].age + hb[p]
    BY <1>1, <1>2, <1>7 DEF PortOK, HeardOf
  <2>2. CASE wire[p] = <<>>
    <3>1. ~Greets(p)
      BY <2>2 DEF Greets
    <3> QED BY <1>1, <1>2, <1>4, <1>5, <1>6, <2>1, <2>2, <3>1
  <2>3. CASE wire[p] # <<>> /\ Greets(p)
    BY <1>1, <1>2, <1>3, <1>4, <1>5, <2>1, <2>3
  <2>4. CASE wire[p] # <<>> /\ ~Greets(p)
    BY <1>1, <1>2, <1>3, <1>4, <1>5, <1>6, <2>1, <2>4
  <2> QED BY <2>2, <2>3, <2>4
<1> QED BY <1>1, <1>7

\* The silent ports are reaped: their tabs are told and are not prompt.
LEMMA ReapInv ==
  ASSUME Inv, Reap PROVE Inv'
<1>1. /\ tab' = tab /\ hb' = hb /\ ping' = ping /\ wire' = wire
      /\ silence' = silence /\ timeout' = timeout
      /\ targets' = targets \ Silent /\ notice' = notice \cup Silent
      /\ open' = open \ Silent /\ session' = Ended(Silent)
  BY DEF Reap, tabVars, Noticed
<1>2. Silent \subseteq targets
  BY DEF Silent
<1>3. /\ TypeOK /\ open = targets /\ targets \subseteq Ports
      /\ wire \in [Ports -> Seq(Messages)] /\ ping \in [Ports -> Nat]
      /\ timeout \in [Ports -> Timeouts]
  BY DEF Inv, Types, TypeOK
<1>4. Watches(targets', timeout')
  <2>1. interval \in 0..interval
    BY <1>3 DEF TypeOK
  <2>2. targets' \subseteq Ports /\ timeout' \in [Ports -> Timeouts]
    BY <1>1, <1>3
  <2>3. CASE Silent = {}
    <3>1. targets' = targets /\ due' = interval /\ UNCHANGED <<handle, interval>>
      BY <1>1, <2>3 DEF Reap
    <3>2. handle \in BOOLEAN /\ interval' \in Nat \ {0} /\ due' \in 0..interval'
      BY <1>3, <2>1, <3>1 DEF TypeOK
    <3> QED BY <1>1, <3>1, <3>2, Zenon DEF Inv, CadenceFollowsPorts, Watches
  <2>4. CASE Silent # {}
    <3>1. Schedule(targets', timeout', interval)
      BY <1>1, <2>4 DEF Reap
    <3> QED BY <2>1, <2>2, <3>1, ScheduleWatches
  <2> QED BY <2>3, <2>4
<1>5. session' \in [Ports -> {"none", "running", "ended"}]
  BY <1>1, <1>3 DEF Ended, TypeOK
<1>6. TypeOK'
  <2>1. /\ tab' \in [Ports -> {"none", "left", "dead"} \cup Living]
        /\ hb' \in [Ports -> Heartbeats \cup {DEFAULT_HEARTBEAT_INTERVAL_MS}]
        /\ \A p \in Ports : ping'[p] \in 0..hb'[p]
        /\ \A p \in Ports : wire'[p] \in Seq([kind : {"CONNECT", "INIT", "PING", "STOP"},
                                              age : 0..MaxDelay])
        /\ notice' \subseteq Ports /\ open' \subseteq Ports /\ targets' \subseteq open'
        /\ silence' \in [Ports -> 0..MaxSilence] /\ timeout' \in [Ports -> Nat]
    BY <1>1, <1>2, <1>3 DEF TypeOK
  <2> QED BY <1>4, <1>5, <2>1 DEF TypeOK, Watches
<1>7. CadenceFollowsPorts'
  BY <1>4 DEF Watches, CadenceFollowsPorts
<1>8. ASSUME NEW p \in Ports PROVE PortOK(p)'
  <2>1. PortOK(p)
    BY DEF Inv
  <2>2. Orderly(p)' /\ Tracked(p)' /\ HeardOf(p)'
    BY <1>1, <2>1 DEF PortOK, Orderly, Tracked, HeardOf, Fresh, Greets, Kind
  <2>3. Answered(p)'
    <3>1. session'[p] = IF p \in Silent THEN "ended" ELSE session[p]
      BY <1>1 DEF Ended
    <3>2. p \in Silent => tab[p] # "prompt" /\ p \in notice'
      BY <1>1, PromptIsHeard
    <3> QED BY <1>1, <2>1, <3>1, <3>2 DEF PortOK, Answered
  <2> QED BY <2>2, <2>3 DEF PortOK
<1> QED BY <1>1, <1>3, <1>6, <1>7, <1>8 DEF Inv, Types

\* A tick passes: no prompt tab has missed its PING.
LEMMA TickInv ==
  ASSUME Inv, Tick PROVE Inv'
<1>1. /\ tab' = tab /\ hb' = hb /\ notice' = notice /\ open' = open /\ session' = session
      /\ targets' = targets /\ timeout' = timeout /\ handle' = handle /\ interval' = interval
      /\ due' = IF handle THEN due - 1 ELSE due
      /\ ~(handle /\ due = 0)
  BY DEF Tick
<1>2. /\ TypeOK /\ open = targets /\ targets \subseteq Ports
      /\ wire \in [Ports -> Seq(Messages)] /\ ping \in [Ports -> Nat]
      /\ timeout \in [Ports -> Timeouts] /\ CadenceFollowsPorts
  BY DEF Inv, Types, TypeOK
<1>3. ASSUME NEW p \in Ports
      PROVE /\ ping'[p] \in 0..hb'[p]
            /\ hb[p] \in Nat
            /\ tab[p] = "prompt" /\ hb[p] # Infinity => ping'[p] = ping[p] - 1
  <2>1. ping[p] \in 0..hb[p] /\ hb[p] \in Nat
    BY Known, TimeoutType, <1>2 DEF TypeOK
  <2>2. ping'[p] = IF tab[p] \in Living /\ hb[p] # Infinity /\ ping[p] > 0
                   THEN ping[p] - 1 ELSE ping[p]
    BY DEF Tick
  <2>3. tab[p] = "prompt" => ping[p] > 0
    BY DEF Tick
  <2> QED BY <1>1, <2>1, <2>2, <2>3 DEF Living
<1>4. ping' \in [Ports -> Nat]
  <2>1. ping' = [p \in Ports |-> ping'[p]]
    BY DEF Tick
  <2>2. \A p \in Ports : ping'[p] \in Nat
    BY <1>1, <1>3
  <2> QED BY <2>1, <2>2
<1>5. ASSUME NEW p \in Ports
      PROVE /\ silence'[p] \in 0..MaxSilence /\ silence'[p] \in Nat /\ silence[p] \in Nat
            /\ silence'[p] <= silence[p] + 1
  <2>1. silence[p] \in 0..MaxSilence /\ MaxSilence \in Nat
    BY <1>2, SilenceType DEF TypeOK
  <2>2. silence'[p] = IF p \in targets /\ silence[p] < MaxSilence
                      THEN silence[p] + 1 ELSE silence[p]
    BY DEF Tick
  <2> QED BY <2>1, <2>2
<1>6. silence' \in [Ports -> 0..MaxSilence]
  <2>1. silence' = [p \in Ports |-> silence'[p]]
    BY DEF Tick
  <2> QED BY <1>5, <2>1
<1>7. ASSUME NEW p \in Ports
      PROVE /\ wire'[p] \in Seq(Messages) /\ Len(wire'[p]) = Len(wire[p])
            /\ wire'[p] = <<>> <=> wire[p] = <<>>
            /\ \A i \in 1..Len(wire[p]) : /\ wire'[p][i].kind = wire[p][i].kind
                                          /\ wire'[p][i].age = wire[p][i].age + 1
                                          /\ wire[p][i].age \in Nat
  <2> DEFINE n == Len(wire[p])
  <2>1. wire[p] \in Seq(Messages) /\ n \in Nat
    BY <1>2
  <2>2. ASSUME NEW i \in 1..n
        PROVE /\ wire[p][i].age \in 0..MaxDelay /\ wire[p][i].age < MaxDelay
              /\ wire[p][i].kind \in {"CONNECT", "INIT", "PING", "STOP"}
              /\ wire[p][i] = [kind |-> wire[p][i].kind, age |-> wire[p][i].age]
    <3>1. wire[p][i] \in Messages
      BY <2>1
    <3> QED BY <3>1 DEF Messages, Tick
  <2>3. wire'[p] = [i \in 1..n |-> [wire[p][i] EXCEPT !.age = @ + 1]]
    BY DEF Tick
  <2>4. ASSUME NEW i \in 1..n
        PROVE /\ wire'[p][i] = [kind |-> wire[p][i].kind, age |-> wire[p][i].age + 1]
              /\ wire'[p][i] \in Messages
    <3>1. wire'[p][i] = [wire[p][i] EXCEPT !.age = @ + 1]
      BY <2>3
    <3>2. wire'[p][i] = [kind |-> wire[p][i].kind, age |-> wire[p][i].age + 1]
      BY <2>2, <3>1
    <3>3. wire[p][i].age + 1 \in 0..MaxDelay
      <4>1. \A a \in 0..MaxDelay : a < MaxDelay => a + 1 \in 0..MaxDelay
        BY DelayAssumption
      <4> QED BY <2>2, <4>1
    <3>4. wire'[p][i] \in Messages
      <4>1. wire[p][i].kind \in {"CONNECT", "INIT", "PING", "STOP"}
        BY <2>2
      <4> QED BY <3>2, <3>3, <4>1 DEF Messages
    <3> QED BY <3>2, <3>4
  <2> HIDE DEF n
  <2>5. wire'[p] \in Seq(Messages) /\ Len(wire'[p]) = n
    <3>1. wire'[p] \in [1..n -> Messages]
      <4>1. DOMAIN wire'[p] = 1..n /\ wire'[p] = [i \in 1..n |-> wire'[p][i]]
        BY <2>3
      <4> QED BY <2>4, <4>1
    <3> QED BY <2>1, <3>1
  <2>6. wire'[p] = <<>> <=> wire[p] = <<>>
    BY <2>1, <2>5, EmptySeq DEF n
  <2>7. ASSUME NEW i \in 1..n
        PROVE /\ wire'[p][i].kind = wire[p][i].kind
              /\ wire'[p][i].age = wire[p][i].age + 1
              /\ wire[p][i].age \in Nat
    <3>1. wire[p][i].age \in Nat
      <4>1. \A a \in 0..MaxDelay : a \in Nat
        OBVIOUS
      <4> QED BY <2>2, <4>1
    <3>2. wire'[p][i] = [kind |-> wire[p][i].kind, age |-> wire[p][i].age + 1]
      BY <2>4
    <3>3. wire'[p][i].kind = wire[p][i].kind
      BY <3>2
    <3>4. wire'[p][i].age = wire[p][i].age + 1
      BY <3>2
    <3> QED BY <3>1, <3>3, <3>4
  <2> QED BY <2>5, <2>6, <2>7, Zenon DEF n
<1>8. wire' \in [Ports -> Seq(Messages)]
  <2>1. wire' = [p \in Ports |-> wire'[p]]
    BY DEF Tick
  <2> QED BY <1>7, <2>1
<1>9. due' \in 0..interval' /\ interval' \in Nat \ {0}
  <2>1. due \in 0..interval /\ interval \in Nat \ {0} /\ handle \in BOOLEAN
    BY <1>2 DEF TypeOK
  <2> QED BY <1>1, <2>1
<1>10. TypeOK'
  BY <1>1, <1>2, <1>3, <1>6, <1>7, <1>9 DEF TypeOK, Messages
<1>11. CadenceFollowsPorts'
  BY <1>1, <1>2 DEF CadenceFollowsPorts
<1>12. ASSUME NEW p \in Ports PROVE PortOK(p)'
  <2>1. PortOK(p) /\ wire[p] \in Seq(Messages)
    BY <1>2 DEF Inv
  <2>2. 1 \in 1..Len(wire[p]) <=> wire[p] # <<>>
    BY <2>1, EmptySeq
  <2>3. (Fresh(p)' <=> Fresh(p)) /\ (Greets(p)' <=> Greets(p))
    BY <1>7, <2>2 DEF Fresh, Greets, Kind
  <2>4. Orderly(p)'
    BY <1>1, <1>7, <2>1, <2>2, <2>3 DEF PortOK, Orderly, Kind
  <2>5. Tracked(p)' /\ Answered(p)'
    BY <1>1, <2>1, <2>3 DEF PortOK, Tracked, Answered
  <2>6. HeardOf(p)'
    <3>1. SUFFICES ASSUME tab[p] = "prompt", p \in targets
          PROVE IF wire[p] = <<>> THEN hb[p] # Infinity => silence'[p] + ping'[p] <= hb[p]
                ELSE IF Greets(p) THEN silence'[p] <= wire'[p][1].age
                ELSE hb[p] # Infinity => silence'[p] <= wire'[p][1].age + hb[p]
      BY <1>1, <1>7, <2>3 DEF HeardOf
    <3>2. ping[p] \in Nat
      BY <1>2
    <3>3. CASE wire[p] = <<>>
      BY <1>3, <1>5, <2>1, <3>1, <3>2, <3>3 DEF PortOK, HeardOf
    <3>4. CASE wire[p] # <<>>
      BY <1>3, <1>5, <1>7, <2>1, <2>2, <3>1, <3>4 DEF PortOK, HeardOf
    <3> QED BY <3>3, <3>4
  <2> QED BY <2>4, <2>5, <2>6 DEF PortOK
<1> QED BY <1>1, <1>2, <1>4, <1>8, <1>10, <1>11, <1>12 DEF Inv, Types

----------------------------------------------------------------------------
(* The theorems.                                                           *)

\* At first no port is tracked and nothing is under way.
LEMMA InitInv == Init => Inv
<1> SUFFICES ASSUME Init PROVE Inv
  OBVIOUS
<1>1. /\ tab = [p \in Ports |-> "none"] /\ ping = [p \in Ports |-> 0]
      /\ hb = [p \in Ports |-> DEFAULT_HEARTBEAT_INTERVAL_MS]
      /\ wire = [p \in Ports |-> <<>>]
      /\ notice = {} /\ open = {} /\ targets = {}
      /\ session = [p \in Ports |-> "none"] /\ silence = [p \in Ports |-> 0]
      /\ timeout = [p \in Ports |-> DefaultTimeout]
      /\ handle = FALSE /\ interval = DEFAULT_HEARTBEAT_INTERVAL_MS /\ due = 0
  BY DEF Init
<1>2. /\ DefaultTimeout \in Timeouts /\ DefaultTimeout \in Nat
      /\ DEFAULT_HEARTBEAT_INTERVAL_MS \in Nat \ {0} /\ MaxSilence \in Nat
  BY DefaultIsOne, TimeoutType, HeartbeatsAssumption, SilenceType DEF Timeouts
<1>3. handle \in BOOLEAN
  BY <1>1, Zenon
<1>4. interval \in Nat \ {0} /\ due \in 0..interval
  BY <1>1, <1>2
<1>5. TypeOK
  BY <1>1, <1>2, <1>3, <1>4 DEF TypeOK
<1>6. CadenceFollowsPorts
  BY <1>1, Zenon DEF CadenceFollowsPorts
<1>7. ASSUME NEW p \in Ports PROVE PortOK(p)
  <2>1. tab[p] = "none" /\ wire[p] = <<>> /\ p \notin targets /\ session[p] = "none"
    BY <1>1
  <2> QED BY <2>1 DEF PortOK, Orderly, Tracked, HeardOf, Answered, Fresh
<1> QED BY <1>1, <1>2, <1>5, <1>6, <1>7 DEF Inv, Types

\* Every step preserves the invariant.
LEMMA NextInv == Inv /\ [Next]_vars => Inv'
<1> SUFFICES ASSUME Inv, [Next]_vars PROVE Inv'
  OBVIOUS
<1>1. ASSUME NEW p \in Ports, NEW h \in Heartbeats, Connect(p, h) PROVE Inv'
  BY <1>1, ConnectInv
<1>2. ASSUME NEW p \in Ports, Ping(p) PROVE Inv'
  BY <1>2, PingInv
<1>3. ASSUME NEW p \in Ports, Stop(p) PROVE Inv'
  BY <1>3, StopInv
<1>4. ASSUME NEW p \in Ports, Stall(p) \/ Wake(p) \/ Die(p) \/ Learn(p) PROVE Inv'
  BY <1>4, TurnInv
<1>5. ASSUME NEW p \in Ports, Deliver(p) PROVE Inv'
  BY <1>5, DeliverInv
<1>6. CASE Reap
  BY <1>6, ReapInv
<1>7. CASE Tick
  BY <1>7, TickInv
<1>8. CASE UNCHANGED vars
  <2>1. UNCHANGED <<tab, hb, ping, wire, notice, open, session,
                    targets, silence, timeout, handle, interval, due>>
    BY <1>8 DEF vars, tabVars, reaper
  <2>2. Types' /\ CadenceFollowsPorts'
    BY <2>1 DEF Inv, Types, TypeOK, CadenceFollowsPorts
  <2>3. \A p \in Ports : PortOK(p)'
    BY <2>1, SamePort DEF Same, Inv
  <2> QED BY <2>2, <2>3 DEF Inv
<1> QED BY <1>1, <1>2, <1>3, <1>4, <1>5, <1>6, <1>7, <1>8 DEF Next

\* The state stays well formed: only open ports are tracked, and the timer
\* never waits longer than its interval (PortReaper's bookkeeping).
THEOREM TypeCorrect == Spec => []TypeOK
<1>1. Inv => TypeOK
  BY DEF Inv, Types
<1> QED BY <1>1, InitInv, NextInv, PTL DEF Spec

\* Sessions end for the tabs that fell silent and for those only: the timer
\* watches every tracked port at the smallest cadence, a tab that was never
\* stalled keeps its session, and one taken for dead is told (reap, schedule).
THEOREM SilentEnd == Spec => []OnlySilentEnd
<1>1. Inv => OnlySilentEnd
  BY DEF Inv, PortOK, Answered, OnlySilentEnd, PromptIsKept, ReapedIsTold
<1> QED BY <1>1, InitInv, NextInv, PTL DEF Spec
============================================================================
