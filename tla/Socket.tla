------------------------------- MODULE Socket -------------------------------
(***************************************************************************)
(* WebSocketTransport (src/src/websocket.ts): the sockets it opens, their  *)
(* handshake time-out, and the events of sockets it already gave up.       *)
(*                                                                         *)
(* Attempts are numbered by the start() calls that did not find an active  *)
(* socket; attempt k stands for its socket, its handlers, its promise and  *)
(* the closure variables of its callbacks.  The sockets and their server   *)
(* are the environment: an event of a socket is one task, and comes also   *)
(* from sockets the transport closed or replaced.  Frames of an open       *)
(* socket arrive in order, so the server knows a topic once it is sent.    *)
(*                                                                         *)
(* Handlers do not call the transport back while they are told something   *)
(* (the bus calls it from promise handlers), and publishing is module      *)
(* Delivery's.                                                             *)
(***************************************************************************)
EXTENDS Naturals, FiniteSets

CONSTANTS Topics,
          Reopens,      \* may a socket object open again after it closed?
          MaxAttempts,  \* bound on sockets
          MaxMoves,     \* bound on calls of the bus
          MaxEvents     \* bound on events of sockets, the handshakes apart

ASSUME SocketAssumption == /\ Reopens \in BOOLEAN
                           /\ MaxAttempts \in Nat /\ MaxMoves \in Nat /\ MaxEvents \in Nat

VARIABLES ws,       \* the fields of the transport
          attempts, \* what each attempt left behind
          blobs,    \* Blob frames being converted
          told,     \* the last status reported, and to whose handlers
          heard,    \* the last message or conversion error handed on
          timed,    \* is a connect time-out configured?
          moves, events

vars == <<ws, attempts, blobs, told, heard, timed, moves, events>>

None == 0
Attempts == 1..MaxAttempts
Made == Cardinality({k \in Attempts : attempts[k].promise # "none"})

Untried == [ready |-> "none", completed |-> FALSE, failed |-> FALSE, promise |-> "none",
            armed |-> FALSE, served |-> {}]

----------------------------------------------------------------------------
(* The handshake gate.  A state s records ws and the attempts.             *)

Here == [ws |-> ws, attempts |-> attempts]

ClearConnectTimer(s) ==
  [ws |-> [s.ws EXCEPT !.timer = None],
   attempts |-> [k \in Attempts |-> [s.attempts[k] EXCEPT !.armed = @ /\ k # s.ws.timer]]]

\* The promise whose functions are held is settled, if there is one.
Settled(s, result) ==
  [k \in Attempts |-> [s.attempts[k] EXCEPT !.promise = IF k = s.ws.gate THEN result ELSE @]]

\* Mutants: the timer stays armed; the functions are kept.
AnswerOnly(s, result) ==
  [ws |-> [s.ws EXCEPT !.gate = None], attempts |-> Settled(s, result)]
AnswerAgain(s, result) ==
  LET c == ClearConnectTimer(s) IN [ws |-> c.ws, attempts |-> Settled(c, result)]

\* settleConnect and failConnect.
Answer(s, result) ==
  LET c == ClearConnectTimer(s)
  IN [ws |-> [c.ws EXCEPT !.gate = None], attempts |-> Settled(c, result)]

\* abortSocket, and close() of a socket that is still in use.
Shut(s, k) ==
  LET state == IF s.attempts[k].ready = "closed" THEN "closed" ELSE "closing"
  IN [s EXCEPT !.attempts[k] = [@ EXCEPT !.ready = state, !.served = {}]]

\* The handshake of k failed, unless it had completed: the start() rejects.
Fail(s, k) ==
  IF s.attempts[k].completed THEN s
  ELSE LET marked == [s.attempts EXCEPT ![k] = [@ EXCEPT !.failed = TRUE]]
       IN Answer([ws |-> s.ws, attempts |-> marked], "failed")

\* The callbacks of k are those of the socket in use.
Mine(k) == ws.socket = k /\ ws.handlers = k

Become(s) == ws' = s.ws /\ attempts' = s.attempts

Quietly == UNCHANGED <<told, heard, blobs, timed>>
Tell(k, status) == told' = [by |-> k, status |-> status]
Call == moves < MaxMoves /\ moves' = moves + 1 /\ UNCHANGED events
Event == events < MaxEvents /\ events' = events + 1 /\ UNCHANGED moves

----------------------------------------------------------------------------
Init ==
  /\ ws = [socket |-> None, active |-> FALSE, handlers |-> None, topics |-> {},
           gate |-> None, timer |-> None]
  /\ attempts = [k \in Attempts |-> Untried]
  /\ blobs = {}
  /\ told = [by |-> 0, status |-> "none"]
  /\ heard = [of |-> None, to |-> None, active |-> FALSE]
  /\ timed \in BOOLEAN
  /\ moves = 0 /\ events = 0

----------------------------------------------------------------------------
(* Calls of the bus.                                                       *)

\* start() while a socket is in use returns the promise of its attempt.
StartShared == ws.active /\ Call /\ Quietly /\ UNCHANGED <<ws, attempts>>

\* start(): a new socket replaces one that failed or closed.
Start ==
  LET k == Made + 1
      dialing == [Untried EXCEPT !.ready = "connecting", !.promise = "pending", !.armed = timed]
  IN /\ ~ws.active /\ k \in Attempts
     /\ attempts' = [attempts EXCEPT ![k] = dialing]
     /\ ws' = [ws EXCEPT !.socket = k, !.active = TRUE, !.handlers = k, !.gate = k,
                         !.timer = IF timed THEN k ELSE @]
     /\ Tell(k, "none")
     /\ UNCHANGED <<blobs, heard, timed, moves, events>>

\* The socket factory throws: start() returns, and the error is reported.
StartThrows ==
  LET k == Made + 1
  IN /\ ~ws.active /\ k \in Attempts
     /\ attempts' = [attempts EXCEPT ![k].promise = "ok"]
     /\ ws' = [ws EXCEPT !.socket = None, !.handlers = k]
     /\ Tell(k, "error")
     /\ UNCHANGED <<blobs, heard, timed, moves, events>>

\* What is asked for, or served, after a frame of type op.
After(op, topics, t) == IF op = "subscribe" THEN topics \cup {t} ELSE topics \ {t}

\* The topics that are remembered for the next socket.
Asking(topics) == [ws |-> [ws EXCEPT !.topics = topics], attempts |-> attempts]

\* sendFrame for subscribe and unsubscribe: dropped unless the socket is open.
SendFrame(s, op, t) ==
  LET k == s.ws.socket
      served == After(op, s.attempts[k].served, t)
  IN IF k # None /\ s.attempts[k].ready = "open"
     THEN [ws |-> s.ws, attempts |-> [s.attempts EXCEPT ![k] = [@ EXCEPT !.served = served]]]
     ELSE s

Ask(op, t) ==
  /\ Become(SendFrame(Asking(After(op, ws.topics, t)), op, t))
  /\ Call /\ Quietly

Subscribe(t) == Ask("subscribe", t)
Unsubscribe(t) == Ask("unsubscribe", t)

\* stop(): a pending start() resolves, an active socket is closed.
Stop ==
  LET idle == [ws EXCEPT !.socket = None, !.active = FALSE, !.handlers = None, !.topics = {}]
      s == Answer([Here EXCEPT !.ws = idle], "ok")
  IN /\ Become(IF ws.active THEN Shut(s, ws.socket) ELSE s)
     /\ Tell(told.by, "none")
     /\ Call /\ UNCHANGED <<heard, blobs, timed>>

----------------------------------------------------------------------------
(* Events of the sockets and the timer.                                    *)

Ready(k, state) == [Here EXCEPT !.attempts[k] = [@ EXCEPT !.ready = state, !.served = {}]]

\* A handshake completes; under Reopens also on an object that closed, or on
\* one that was told to close meanwhile.
CanBecomeOpen(k) ==
  attempts[k].ready \in {"connecting"} \cup (IF Reopens THEN {"closing", "closed"} ELSE {})

\* Mutant: an open socket does not subscribe what is remembered.
Forgetful(k, s) == [s EXCEPT !.ws.active = TRUE]

\* onopen past its guard: every topic is subscribed again.
Reassert(k, s) ==
  [ws |-> [s.ws EXCEPT !.active = TRUE],
   attempts |-> [s.attempts EXCEPT ![k] = [@ EXCEPT !.served = s.ws.topics]]]

\* onopen of a handshake that was pending.
Complete(k, s) ==
  [ws |-> s.ws, attempts |-> [s.attempts EXCEPT ![k] = [@ EXCEPT !.completed = TRUE]]]

OnOpen(k) ==
  LET opened == Ready(k, "open")
      served == Reassert(k, ClearConnectTimer(opened))
  IN /\ CanBecomeOpen(k)
     /\ IF attempts[k].ready = "connecting" THEN UNCHANGED <<moves, events>> ELSE Event
     /\ IF Mine(k) /\ ~attempts[k].failed
        THEN /\ Become(IF attempts[k].completed THEN served
                       ELSE Answer(Complete(k, served), "ok"))
             /\ Tell(k, "connected")
        ELSE Become(opened) /\ UNCHANGED told
     /\ UNCHANGED <<heard, blobs, timed>>

OnClose(k) ==
  LET closed == Ready(k, "closed")
  IN /\ attempts[k].ready \in {"connecting", "open", "closing"}
     /\ Event
     /\ IF Mine(k) /\ ws.active
        THEN /\ Become(Fail([closed EXCEPT !.ws.active = FALSE], k))
             /\ Tell(k, "disconnected")
        ELSE Become(closed) /\ UNCHANGED told
     /\ UNCHANGED <<heard, blobs, timed>>

\* onerror: the socket is aborted, whether or not a close event follows.
OnError(k) ==
  /\ attempts[k].ready # "none"
  /\ Event
  /\ IF Mine(k) /\ ws.active
     THEN /\ Become(Shut(Fail([Here EXCEPT !.ws.active = FALSE], k), k))
          /\ Tell(k, "error")
     ELSE UNCHANGED <<ws, attempts, told>>
  /\ UNCHANGED <<heard, blobs, timed>>

\* What the time-out marks: the closure and the transport give the attempt up.
GivenUp(k) ==
  [ws |-> [ws EXCEPT !.timer = None, !.active = FALSE],
   attempts |-> [attempts EXCEPT ![k] = [@ EXCEPT !.armed = FALSE, !.failed = TRUE]]]

\* Mutants: an attempt that timed out may still open; whoever waits for it is
\* not answered.
StillMayOpen(k) ==
  Shut(Answer([GivenUp(k) EXCEPT !.attempts[k].failed = FALSE], "failed"), k)
Unanswered(k) == Shut(GivenUp(k), k)

\* The connect time-out past its guard.
Expire(k) == Shut(Answer(GivenUp(k), "failed"), k)

TimeOut(k) ==
  /\ attempts[k].armed
  /\ IF Mine(k) /\ ~attempts[k].completed
     THEN Become(Expire(k)) /\ Tell(k, "error")
     ELSE Become([Here EXCEPT !.attempts[k].armed = FALSE]) /\ UNCHANGED told
  /\ UNCHANGED <<heard, blobs, timed, moves, events>>

\* The handlers in use are given a frame, or an error, of socket k.
HandOn(k) == heard' = [of |-> k, to |-> ws.handlers, active |-> ws.active]

\* onmessage: a text or binary frame is handed on in the same task, a Blob is
\* converted first.
OnMessage(k) ==
  /\ attempts[k].ready = "open" /\ Event
  /\ IF Mine(k) /\ ws.active
     THEN \/ HandOn(k) /\ UNCHANGED blobs
          \/ blobs' = blobs \cup {k} /\ UNCHANGED heard
     ELSE UNCHANGED <<heard, blobs>>
  /\ UNCHANGED <<ws, attempts, told, timed>>

\* Mutant: what happened during the await is not looked at.
AnyTime(k) == TRUE

\* The conversion is over, with the frame or an error: the same check.
StillMine(k) == Mine(k) /\ ws.active

BlobConverted(k) ==
  /\ k \in blobs
  /\ blobs' = blobs \ {k}
  /\ IF StillMine(k) THEN HandOn(k) ELSE UNCHANGED heard
  /\ UNCHANGED <<ws, attempts, told, timed, moves, events>>

----------------------------------------------------------------------------
Next ==
  \/ StartShared \/ Start \/ StartThrows \/ Stop
  \/ \E t \in Topics : Subscribe(t) \/ Unsubscribe(t)
  \/ \E k \in Attempts : \/ OnOpen(k) \/ OnClose(k) \/ OnError(k) \/ TimeOut(k)
                         \/ OnMessage(k) \/ BlobConverted(k)

Spec == Init /\ [][Next]_vars

\* An armed timer fires; nothing is assumed of the network.
FairSpec == Spec /\ \A k \in Attempts : WF_vars(TimeOut(k))

----------------------------------------------------------------------------
States == {"none", "connecting", "open", "closing", "closed"}

\* The type of every variable; the functions of a promise are held just while
\* it is pending, and there is one such promise.
TypeOK ==
  /\ \A k \in Attempts : attempts[k].promise = "pending" <=> ws.gate = k
  /\ ws \in [socket : 0..MaxAttempts, active : BOOLEAN, handlers : 0..MaxAttempts,
             topics : SUBSET Topics, gate : 0..MaxAttempts, timer : 0..MaxAttempts]
  /\ attempts \in [Attempts -> [ready : States, completed : BOOLEAN, failed : BOOLEAN,
                                promise : {"none", "pending", "ok", "failed"},
                                armed : BOOLEAN, served : SUBSET Topics]]
  /\ blobs \subseteq Attempts
  /\ told \in [by : 0..MaxAttempts,
               status : {"none", "connected", "disconnected", "error"}]
  /\ heard \in [of : 0..MaxAttempts, to : 0..MaxAttempts, active : BOOLEAN]
  /\ timed \in BOOLEAN /\ moves \in 0..MaxMoves /\ events \in 0..MaxEvents

\* What the server serves on the socket in use is what the bus asked for and
\* did not take back, whatever was asked while the socket was dialing or
\* before it opened again.
ServedExactly ==
  ws.active /\ attempts[ws.socket].ready = "open" => attempts[ws.socket].served = ws.topics

\* No attempt leaves a timer armed behind it: the one it is armed for is in
\* use and has not completed its handshake.
TimersAreLive ==
  \A k \in Attempts : attempts[k].armed => /\ Mine(k) /\ ws.active /\ ws.timer = k
                                           /\ ~attempts[k].completed

\* A frame is handed to the handlers of the start() that opened its socket,
\* and only while that socket is in use.
HeardByOwn == heard.of = heard.to /\ (heard.of # None => heard.active)

\* A socket whose end was reported, or that stop() or another start() left
\* behind, is silent: no time-out tears a connection down or reports a second
\* end in its name, and no frame of it comes out of a conversion.
GivenUpIsSilent == TimersAreLive /\ HeardByOwn

----------------------------------------------------------------------------
(* The transport is the link of the bus.                                   *)

Phase == IF ~ws.active THEN "closed"
         ELSE IF attempts[ws.socket].ready = "open" THEN "open" ELSE "dialing"

Linked == [kind |-> "websocket", live |-> ws.active, phase |-> Phase,
           dial |-> IF Made = 0 THEN "ok" ELSE attempts[Made].promise,
           subs |-> ws.topics]

Plug == INSTANCE Link WITH Kind <- "websocket", link <- Linked

\* What module DataBus assumes of a websocket: each step of the transport is a
\* step of the link or none, with the same status reported to the same start.
ImplementsLink == Plug!Spec

\* While a time-out is configured every start() is answered, whatever events
\* of the socket come late or not at all.
StartIsAnswered == timed => Plug!Answers
=============================================================================
