-------------------------------- MODULE Link --------------------------------
(***************************************************************************)
(* What a transport promises the data bus: the abstract specification that *)
(* module DataBus is built on, stated apart from it.  Module Socket        *)
(* implements a link of kind "websocket", module Bridge a "worker".        *)
(*                                                                         *)
(* link is the record of module Transport, and told the last status the    *)
(* transport reported, with the number of the start() whose handlers heard *)
(* it: a start() that finds a live link changes nothing, not even these.   *)
(***************************************************************************)
EXTENDS Naturals, Transport

CONSTANTS Topics,
          Kind,     \* "websocket" or "worker"
          Reopens   \* may a socket object open again after it closed?

VARIABLES link, told

linkVars == <<link, told>>

Tell(status) == told' = [told EXCEPT !.status = status]

Init == link = Unplugged(Kind) /\ told = [by |-> 0, status |-> "none"]

\* A status of the new link may already be out when start() returns: the
\* "connecting" of an in-process client, the "error" of a failed socket.
Start == /\ ~link.live
         /\ link' \in Started(link)
         /\ \E status \in IF link'.live THEN {"none", "connecting"} ELSE {"none", "error"} :
              told' = [by |-> told.by + 1, status |-> status]

\* An in-process client reports "disconnected" while it is stopped.
Stop == /\ link' = Stopped(link)
        /\ Tell("none") \/ Tell("disconnected")

Subscribe(t) == link' = Subscribed(link, {t}) /\ UNCHANGED told
Unsubscribe(t) == link' = Unsubscribed(link, {t}) /\ UNCHANGED told

Open == CanOpen(link) /\ link' = Opened(link) /\ Tell("connected")
Close == CanClose(link) /\ link' = Closed(link) /\ Tell("disconnected")
Break == CanBreak(link) /\ link' = Broken(link) /\ Tell("error")
Redial == CanRedial(link) /\ link' = Redialed(link) /\ Tell("connecting")

\* The first report of a client that dials.
Dials == /\ Kind = "worker" /\ link.live /\ link.phase = "dialing"
         /\ Tell("connecting") /\ UNCHANGED link

\* A custom socket object opens again after its end was reported.
Reopen == /\ Reopens /\ ~link.live /\ link.dial = "ok"
          /\ told.status \in {"disconnected", "error"}
          /\ link' = [link EXCEPT !.live = TRUE, !.phase = "open"]
          /\ Tell("connected")

Next == \/ Start \/ Stop
        \/ \E t \in Topics : Subscribe(t) \/ Unsubscribe(t)
        \/ Open \/ Close \/ Break \/ Redial \/ Dials \/ Reopen

Spec == Init /\ [][Next]_linkVars

\* A start() the bus waits for is answered, by the connection or by its failure.
Answers == link.dial = "pending" ~> link.dial # "pending"
=============================================================================
