----------------------------- MODULE Transport -----------------------------
(***************************************************************************)
(* The two transports a data bus drives, seen from the bus.                *)
(*                                                                         *)
(* Kind "websocket" is WebSocketTransport (src/src/websocket.ts): one      *)
(* socket of the tab, whose start() settles with the handshake.            *)
(* Kind "worker" is CentrifugeWorkerTransport (src/src/centrifuge.ts) with *)
(* the CentrifugeSession behind it: start() returns as soon as INIT is     *)
(* posted, and the connection is reported later.                           *)
(*                                                                         *)
(* A link records its kind and                                             *)
(*   live   socketActive, or a non-null backend: start() then keeps what   *)
(*          is there, with the handlers it was given before                *)
(*   phase  the far end: "dialing", "open" or "closed"                     *)
(*   dial   the promise of the last start(): "pending", "ok" or "failed"   *)
(*   subs   subscribedTopics, or the subscriptions of the session          *)
(*                                                                         *)
(* Publications and credentials are left out, and so is a custom socket    *)
(* object that opens again after it closed.  Modules Socket and Bridge     *)
(* have the transports themselves.                                         *)
(***************************************************************************)

Kinds == {"websocket", "worker"}

Links(T) == [kind : Kinds, live : BOOLEAN,
             phase : {"dialing", "open", "closed"},
             dial : {"pending", "ok", "failed"}, subs : SUBSET T]

Unplugged(kind) ==
  [kind |-> kind, live |-> FALSE, phase |-> "closed", dial |-> "ok", subs |-> {}]

\* start(): a live link is kept; otherwise a socket or worker is created, or
\* creating it throws.  A socket keeps the topics of the one before it.
Started(l) ==
  IF l.live THEN {l}
  ELSE IF l.kind = "websocket"
       THEN {[l EXCEPT !.live = TRUE, !.phase = "dialing", !.dial = "pending"],
             [l EXCEPT !.dial = "ok"]}
       ELSE {[Unplugged(l.kind) EXCEPT !.live = TRUE, !.phase = "dialing"],
             [Unplugged(l.kind) EXCEPT !.dial = "failed"]}

\* stop(): everything is forgotten and a pending handshake is resolved.
Stopped(l) ==
  [Unplugged(l.kind) EXCEPT !.dial = IF l.dial = "pending" THEN "ok" ELSE l.dial]

\* subscribe() and unsubscribe().  A socket remembers topics whatever its
\* state; a message posted without a backend goes nowhere.
Subscribed(l, topics) ==
  IF l.kind = "websocket" \/ l.live THEN [l EXCEPT !.subs = @ \cup topics] ELSE l
Unsubscribed(l, topics) == [l EXCEPT !.subs = @ \ topics]

Answer(l, result) == IF l.dial = "pending" THEN result ELSE l.dial

\* onopen, or the session reports connected.
CanOpen(l) == l.live /\ l.phase = "dialing"
Opened(l) == [l EXCEPT !.phase = "open", !.dial = Answer(l, "ok")]

\* onclose, or the client disconnects for good: the worker stays.
CanClose(l) == l.live /\ l.phase # "closed"
Closed(l) == [l EXCEPT !.live = @ /\ l.kind = "worker", !.phase = "closed",
                       !.dial = Answer(l, "failed")]

\* onerror and the connect time-out, or onWorkerFailed.
CanBreak(l) == l.live /\ (l.kind = "websocket" => l.phase # "closed")
Broken(l) == [l EXCEPT !.live = FALSE, !.phase = "closed", !.dial = Answer(l, "failed"),
                       !.subs = IF l.kind = "worker" THEN {} ELSE @]

\* The Centrifuge client lost its connection and dials again by itself.
CanRedial(l) == l.kind = "worker" /\ l.live /\ l.phase = "open"
Redialed(l) == [l EXCEPT !.phase = "dialing"]

\* Topics the server sends on this link: a socket that opens subscribes all
\* it remembers, and an open one at once.
Served(l) == IF l.phase = "open" THEN l.subs ELSE {}
=============================================================================
