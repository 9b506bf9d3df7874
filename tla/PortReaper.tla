----------------------------- MODULE PortReaper -----------------------------
(***************************************************************************)
(* The SharedWorker host (src/src/workers/centrifuge.shared.worker.ts) and *)
(* its PortReaper (src/src/workers/port-reaper.ts), with the tabs that     *)
(* connect to it, send PINGs and disappear (src/src/centrifuge.ts).        *)
(*                                                                         *)
(* Time advances in ticks, heartbeats and time-outs are numbers of ticks,  *)
(* and lastSeenAt is kept as the ticks since then.  The timers of the      *)
(* worker and of a tab that is not stalled fire on time, and a message     *)
(* waits at most MaxDelay ticks.  A tab may stall (a long task, a          *)
(* throttled page), wake up, or die without a word.  What a session does   *)
(* between INIT and STOP is not modelled here, nor is dispose, which the   *)
(* SharedWorker never calls.                                               *)
(***************************************************************************)
EXTENDS Naturals, Sequences, FiniteSets, FiniteSetsExt

CONSTANTS Ports,
          Heartbeats,   \* heartbeatIntervalMs of the tabs, in ticks
          DEFAULT_HEARTBEAT_INTERVAL_MS,
          DEFAULT_SESSION_TIMEOUT_MULTIPLIER,
          Infinity,     \* stands for Infinity: above every number of ticks
          MaxDelay,     \* bound on the delay of a message
          Reconnects    \* whether tabs keep connecting for ever

ASSUME HeartbeatsAssumption ==
  /\ DEFAULT_HEARTBEAT_INTERVAL_MS \in Nat \ {0}
  /\ DEFAULT_SESSION_TIMEOUT_MULTIPLIER \in Nat \ {0}
  /\ Heartbeats \subseteq Nat \ {0}
  /\ Infinity \in Nat /\ DEFAULT_HEARTBEAT_INTERVAL_MS # Infinity
  /\ \A h \in Heartbeats \cup {DEFAULT_HEARTBEAT_INTERVAL_MS} :
       h # Infinity => Infinity > DEFAULT_SESSION_TIMEOUT_MULTIPLIER * h + 1
\* A message is late by no more heartbeats of its tab than the multiplier leaves.
ASSUME DelayAssumption ==
  /\ MaxDelay \in Nat
  /\ \A h \in Heartbeats \cup {DEFAULT_HEARTBEAT_INTERVAL_MS} :
       h + MaxDelay <= DEFAULT_SESSION_TIMEOUT_MULTIPLIER * h
ASSUME ReconnectsAssumption == Reconnects \in BOOLEAN

Longest == Max({h \in Heartbeats \cup {DEFAULT_HEARTBEAT_INTERVAL_MS} : h # Infinity})

\* Ticks of silence are counted up to the first number above every time-out.
MaxSilence == DEFAULT_SESSION_TIMEOUT_MULTIPLIER * Longest + 1

VARIABLES
  tab,      \* none | prompt | stalled | woken | dead | left
  hb,       \* heartbeatIntervalMs of the tab
  ping,     \* ticks to the tab's next PING
  wire,     \* messages from the tab to the worker, with their ages
  notice,   \* ports with a SESSION_REAPED in flight
  open,     \* ports the worker has not closed
  session,  \* none | running | ended
  targets,
  silence,  \* ticks since lastSeenAt
  timeout,  \* sessionTimeoutMs
  handle,   \* whether the interval timer is set
  interval, \* intervalMs
  due       \* ticks to the timer's next run

tabVars == <<tab, hb, ping>>
reaper == <<targets, silence, timeout, handle, interval, due>>
vars == <<tabVars, wire, notice, open, session, reaper>>

DefaultTimeout == DEFAULT_HEARTBEAT_INTERVAL_MS * DEFAULT_SESSION_TIMEOUT_MULTIPLIER

----------------------------------------------------------------------------
(* The reaper.                                                             *)

\* computeMinHeartbeat over the tracked ports.
MinHeartbeat(ports, timeouts) ==
  Min({DEFAULT_HEARTBEAT_INTERVAL_MS}
        \cup {timeouts[p] \div DEFAULT_SESSION_TIMEOUT_MULTIPLIER : p \in ports})

\* schedule(), given the ticks the current timer would still wait: a change
\* of cadence starts the timer afresh.
Schedule(ports, timeouts, left) ==
  LET min == MinHeartbeat(ports, timeouts)
  IN IF ports = {} THEN /\ handle' = FALSE /\ due' = 0
                        /\ UNCHANGED interval
     ELSE IF handle /\ interval = min THEN due' = left /\ UNCHANGED <<handle, interval>>
     ELSE handle' = TRUE /\ interval' = min /\ due' = min

\* register.
Register(p) ==
  /\ targets' = targets \cup {p}
  /\ silence' = [silence EXCEPT ![p] = 0]
  /\ timeout' = [timeout EXCEPT ![p] = DefaultTimeout]
  /\ Schedule(targets', timeout', due)

\* Mutant: PINGs are not recorded.
Untouched(p) == silence

\* touch.
Touched(p) == IF p \in targets THEN [silence EXCEPT ![p] = 0] ELSE silence

Touch(p) == silence' = Touched(p) /\ UNCHANGED <<targets, timeout, handle, interval, due>>

SessionTimeout(heartbeat) ==
  IF heartbeat = Infinity THEN Infinity ELSE heartbeat * DEFAULT_SESSION_TIMEOUT_MULTIPLIER

\* setTimeout, right after touch.  Its fallback for an interval that is not a
\* positive number is left out: the transport's constructor rejects those.
SetTimeout(p, heartbeat) ==
  IF p \in targets
  THEN /\ silence' = Touched(p)
       /\ timeout' = [timeout EXCEPT ![p] = SessionTimeout(heartbeat)]
       /\ Schedule(targets, timeout', due)
       /\ UNCHANGED targets
  ELSE Touch(p)

\* Mutant: the cadence is not recomputed when a port leaves.
KeepsCadence(p) ==
  /\ targets' = targets \ {p}
  /\ UNCHANGED <<silence, timeout, handle, interval, due>>

\* Mutant: STOP does not reach the reaper.
LeavesTracked(p) == UNCHANGED reaper

\* Mutant: any departure stops the timer.
StopsTimer(p) ==
  /\ targets' = targets \ {p}
  /\ handle' = FALSE /\ due' = 0
  /\ UNCHANGED <<silence, timeout, interval>>

\* remove; rows of ports that are not tracked are left as they are.
Remove(p) ==
  IF p \in targets
  THEN /\ targets' = targets \ {p}
       /\ Schedule(targets', timeout, due)
       /\ UNCHANGED <<silence, timeout>>
  ELSE UNCHANGED reaper

Silent == {p \in targets : silence[p] > timeout[p]}

\* Mutant: the port is closed before the notice is posted, and drops it.
NoNotice(ports) == notice

\* notify(), while the port is still open.
Noticed(ports) == notice \cup ports

\* stop(): the session of the port is ended.
Ended(ports) == [p \in Ports |-> IF p \in ports THEN "ended" ELSE session[p]]

\* reap: announce, close, stop; reschedule when a port was reaped.  The port
\* and the session of this host do not throw, so the catch is left out.
Reap ==
  /\ handle /\ due = 0
  /\ targets' = targets \ Silent
  /\ notice' = Noticed(Silent)
  /\ open' = open \ Silent
  /\ session' = Ended(Silent)
  /\ IF Silent = {} THEN due' = interval /\ UNCHANGED <<handle, interval>>
     ELSE Schedule(targets', timeout, interval)
  /\ UNCHANGED <<tabVars, wire, silence, timeout>>

----------------------------------------------------------------------------
(* The worker's message handlers.                                          *)

Message(kind) == [kind |-> kind, age |-> 0]

\* The connect event and the messages of port p, in the order they were sent;
\* a closed port drops them.
Deliver(p) ==
  LET kind == Head(wire[p]).kind
  IN /\ wire[p] # <<>>
     /\ wire' = [wire EXCEPT ![p] = Tail(@)]
     /\ \/ /\ kind = "CONNECT"
           /\ Register(p) /\ open' = open \cup {p}
           /\ UNCHANGED session
        \/ /\ kind # "CONNECT" /\ p \notin open
           /\ UNCHANGED <<reaper, open, session>>
        \/ /\ kind = "PING" /\ p \in open
           /\ Touch(p) /\ UNCHANGED <<open, session>>
        \/ /\ kind = "INIT" /\ p \in open
           /\ IF hb[p] = DEFAULT_HEARTBEAT_INTERVAL_MS THEN Touch(p)
              ELSE SetTimeout(p, hb[p])
           /\ session' = [session EXCEPT ![p] = "running"]
           /\ UNCHANGED open
        \/ /\ kind = "STOP" /\ p \in open
           /\ Remove(p)
           /\ open' = open \ {p}
           /\ session' = Ended({p})
     /\ UNCHANGED <<tabVars, notice>>

----------------------------------------------------------------------------
(* The tabs.                                                               *)

Living == {"prompt", "stalled", "woken"}

\* startSharedWorker, on a port that was never used or that is free again.
Connect(p, heartbeat) ==
  /\ \/ tab[p] = "none"
     \/ Reconnects /\ tab[p] \in {"left", "dead"} /\ p \notin targets
  /\ wire[p] = <<>> /\ p \notin notice
  /\ tab' = [tab EXCEPT ![p] = "prompt"]
  /\ hb' = [hb EXCEPT ![p] = heartbeat]
  /\ ping' = [ping EXCEPT ![p] = heartbeat]
  /\ wire' = [wire EXCEPT ![p] = <<Message("CONNECT"), Message("INIT")>>]
  /\ session' = [session EXCEPT ![p] = "none"]
  /\ UNCHANGED <<notice, open, reaper>>

\* startHeartbeat's interval timer; with Infinity there is none.
Ping(p) ==
  /\ tab[p] \in {"prompt", "woken"} /\ ping[p] = 0
  /\ ping' = [ping EXCEPT ![p] = hb[p]]
  /\ wire' = [wire EXCEPT ![p] = Append(@, Message("PING"))]
  /\ UNCHANGED <<tab, hb, notice, open, session, reaper>>

\* stop.
Stop(p) ==
  /\ tab[p] \in {"prompt", "woken"}
  /\ tab' = [tab EXCEPT ![p] = "left"]
  /\ wire' = [wire EXCEPT ![p] = Append(@, Message("STOP"))]
  /\ notice' = notice \ {p}
  /\ UNCHANGED <<hb, ping, open, session, reaper>>

Stall(p) ==
  /\ tab[p] \in {"prompt", "woken"}
  /\ tab' = [tab EXCEPT ![p] = "stalled"]
  /\ UNCHANGED <<hb, ping, wire, notice, open, session, reaper>>

Wake(p) ==
  /\ tab[p] = "stalled"
  /\ tab' = [tab EXCEPT ![p] = "woken"]
  /\ UNCHANGED <<hb, ping, wire, notice, open, session, reaper>>

Die(p) ==
  /\ tab[p] \in Living
  /\ tab' = [tab EXCEPT ![p] = "dead"]
  /\ notice' = notice \ {p}
  /\ UNCHANGED <<hb, ping, wire, open, session, reaper>>

\* SESSION_REAPED reaches the tab: onWorkerFailed drops the backend.
Learn(p) ==
  /\ p \in notice /\ tab[p] \in {"prompt", "woken"}
  /\ notice' = notice \ {p}
  /\ tab' = [tab EXCEPT ![p] = "left"]
  /\ UNCHANGED <<hb, ping, wire, open, session, reaper>>

\* One tick: nothing that is due is left undone.
Tick ==
  /\ ~(handle /\ due = 0)
  /\ \A p \in Ports : /\ tab[p] \in {"prompt", "woken"} => ping[p] > 0
                      /\ \A i \in 1..Len(wire[p]) : wire[p][i].age < MaxDelay
  /\ due' = IF handle THEN due - 1 ELSE due
  /\ silence' = [p \in Ports |-> IF p \in targets /\ silence[p] < MaxSilence
                                 THEN silence[p] + 1 ELSE silence[p]]
  /\ ping' = [p \in Ports |-> IF tab[p] \in Living /\ hb[p] # Infinity /\ ping[p] > 0
                              THEN ping[p] - 1 ELSE ping[p]]
  /\ wire' = [p \in Ports |-> [i \in 1..Len(wire[p]) |-> [wire[p][i] EXCEPT !.age = @ + 1]]]
  /\ UNCHANGED <<tab, hb, notice, open, session, targets, timeout, handle, interval>>

Init ==
  /\ tab = [p \in Ports |-> "none"]
  /\ hb = [p \in Ports |-> DEFAULT_HEARTBEAT_INTERVAL_MS]
  /\ ping = [p \in Ports |-> 0]
  /\ wire = [p \in Ports |-> <<>>]
  /\ notice = {} /\ open = {} /\ targets = {}
  /\ session = [p \in Ports |-> "none"]
  /\ silence = [p \in Ports |-> 0]
  /\ timeout = [p \in Ports |-> DefaultTimeout]
  /\ handle = FALSE
  /\ interval = DEFAULT_HEARTBEAT_INTERVAL_MS
  /\ due = 0

Next ==
  \/ \E p \in Ports :
       \/ \E heartbeat \in Heartbeats : Connect(p, heartbeat)
       \/ Ping(p) \/ Stop(p) \/ Stall(p) \/ Wake(p) \/ Die(p) \/ Learn(p)
       \/ Deliver(p)
  \/ Reap \/ Tick

Spec == Init /\ [][Next]_vars

\* Time passes whatever the tabs do (hence the strong fairness: stalls and
\* wakings cannot stop the clock), messages arrive and timers run.  No tab is
\* obliged to do anything else.
FairSpec ==
  /\ Spec
  /\ SF_vars(Tick) /\ WF_vars(Reap)
  /\ \A p \in Ports : WF_vars(Deliver(p)) /\ WF_vars(Ping(p))

----------------------------------------------------------------------------
(* The type invariant: only ports the worker has open are tracked, and     *)
(* the timer never waits longer than its interval.                         *)
TypeOK ==
  /\ tab \in [Ports -> {"none", "left", "dead"} \cup Living]
  /\ hb \in [Ports -> Heartbeats \cup {DEFAULT_HEARTBEAT_INTERVAL_MS}]
  /\ \A p \in Ports : ping[p] \in 0..hb[p]
  /\ \A p \in Ports : wire[p] \in Seq([kind : {"CONNECT", "INIT", "PING", "STOP"},
                                       age : 0..MaxDelay])
  /\ notice \subseteq Ports
  /\ open \subseteq Ports
  /\ session \in [Ports -> {"none", "running", "ended"}]
  /\ targets \subseteq open
  /\ silence \in [Ports -> 0..MaxSilence]
  /\ timeout \in [Ports -> Nat]
  /\ handle \in BOOLEAN
  /\ interval \in Nat \ {0}
  /\ due \in 0..interval

(* The timer runs exactly while ports are tracked, and then at the         *)
(* smallest heartbeat among them, through every order of connections,      *)
(* INITs, STOPs and reaps (schedule).                                      *)
CadenceFollowsPorts ==
  /\ handle <=> targets # {}
  /\ handle => interval = MinHeartbeat(targets, timeout)

(* The session of a tab that has never stalled is never ended from under   *)
(* it, although a PING may be late by two heartbeats.                      *)
PromptIsKept ==
  \A p \in Ports : tab[p] = "prompt" => session[p] # "ended"

(* A tab whose session was reaped while it was stalled finds out when it   *)
(* wakes up: the notice is on its way (notify comes before close), so it   *)
(* does not go on posting into a closed port.                              *)
ReapedIsTold ==
  \A p \in Ports : tab[p] \in {"stalled", "woken"} /\ session[p] = "ended" => p \in notice

(* Sessions end for the tabs that fell silent, and for those only: the     *)
(* timer watches every port, a prompt tab is kept, and a tab that was      *)
(* taken for dead is told.                                                 *)
OnlySilentEnd == CadenceFollowsPorts /\ PromptIsKept /\ ReapedIsTold

(* docs/architecture.md:44: the SharedWorker reaps any port that stays     *)
(* silent, so the session of a tab that died is ended.                     *)
DeadIsReaped ==
  \A p \in Ports : tab[p] = "dead" /\ hb[p] # Infinity ~> session[p] # "running"
============================================================================
