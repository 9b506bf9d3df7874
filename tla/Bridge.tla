------------------------------- MODULE Bridge -------------------------------
(***************************************************************************)
(* CentrifugeWorkerTransport (src/src/centrifuge.ts) in the tab, the       *)
(* CentrifugeSession (src/src/centrifuge-session.ts) it talks to, and the  *)
(* worker around the session: the requests for credentials that cross the  *)
(* bridge, and what reaches whom after a stop, a failure or a restart.     *)
(*                                                                         *)
(* Session k is the one the k-th effective start() makes: behind the port  *)
(* of a SharedWorker, in a dedicated Worker, or in the tab itself          *)
(* ("local"), where every message is a call.  It gets one INIT, so its     *)
(* lifecycle is 1 while it runs and 2 after STOP; a restart is a session   *)
(* with request numbers that begin again.                                  *)
(*                                                                         *)
(* The Centrifuge client is the environment, as the session uses it: it    *)
(* asks for a token when it dials without one, and the listeners and       *)
(* promises it was given may fire after it was told to disconnect.  The    *)
(* token of request r of session k is <<k, r>>.  The heartbeat that keeps  *)
(* a port from being reaped is module PortReaper's; payloads and metadata  *)
(* are left out.                                                           *)
(***************************************************************************)
EXTENDS Naturals, Sequences, FiniteSets

CONSTANTS Topics,
          Backends,      \* subset of {"shared", "dedicated", "local"}
          Providers,     \* subset of {"none", "promise", "throws"}
          MaxSessions,   \* bound on starts
          MaxRequests,   \* bound on credential requests of one session
          MaxMoves,      \* bound on calls of the bus
          MaxEvents      \* bound on events of the server, the worker and old clients

ASSUME BridgeAssumption ==
  /\ Backends \subseteq {"shared", "dedicated", "local"}
  /\ Providers \subseteq {"none", "promise", "throws"}
  /\ {MaxSessions, MaxMoves, MaxEvents} \subseteq Nat /\ MaxRequests \in Nat \ {0}

VARIABLES setup,    \* the backend and the credential provider, fixed
          tab,      \* the fields of the transport
          near,     \* sessions whose messages the transport listens to
          inbox, outbox,   \* messages to and from a session in a worker
          session,  \* the fields of each session
          sdk,      \* its Centrifuge client
          calls,    \* credentials the provider has not settled
          told,     \* the last status reported, and to whose handlers
          heard,    \* the last thing handed to handlers, and whose it was
          counts,   \* how often each publication was handed on
          moves, events

vars == <<setup, tab, near, inbox, outbox, session, sdk, calls, told, heard, counts,
          moves, events>>

None == 0
Sessions == 1..MaxSessions
Publications == 1..MaxEvents
NoToken == <<None, None>>
Local == setup.backend = "local"

NoSession == [up |-> FALSE, client |-> FALSE, lifecycle |-> 0, subs |-> {}, pending |-> {},
              next |-> 1]
NoClient == [state |-> "off", need |-> "none", asked |-> None, token |-> NoToken,
             on |-> {}, ears |-> [t \in Topics |-> 0], ended |-> {}, flying |-> 0]

----------------------------------------------------------------------------
(* Functions of the transport and the session, from call to return.  A     *)
(* state s records every variable but setup and the bounds.                *)

Here == [tab |-> tab, near |-> near, inbox |-> inbox, outbox |-> outbox, session |-> session,
         sdk |-> sdk, calls |-> calls, told |-> told, heard |-> heard, counts |-> counts]

Become(s) ==
  /\ tab' = s.tab /\ near' = s.near /\ inbox' = s.inbox /\ outbox' = s.outbox
  /\ session' = s.session /\ sdk' = s.sdk /\ calls' = s.calls /\ told' = s.told
  /\ heard' = s.heard /\ counts' = s.counts
  /\ UNCHANGED setup

\* A worker that is gone, or behind a closed port: nobody hears of it again,
\* so what it still does, and how a port is reaped, is left out.
Gone(s, k) == [s EXCEPT !.session[k] = NoSession, !.sdk[k] = NoClient,
                        !.inbox[k] = <<>>, !.outbox[k] = <<>>]

\* resolveToken and rejectToken: nothing for a request that is not pending.
\* The client hears of it in a microtask of its own.
SettleToken(s, k, r, token) ==
  IF r \notin s.session[k].pending THEN s
  ELSE [s EXCEPT !.session[k].pending = @ \ {r},
                 !.sdk[k].need = IF token = NoToken THEN "refused" ELSE "got",
                 !.sdk[k].token = token]

\* A message to a worker; a closed end discards it.
Send(s, k, m) == IF s.session[k].up THEN [s EXCEPT !.inbox[k] = Append(@, m)] ELSE s

\* The transport's TOKEN_RESPONSE or TOKEN_ERROR.
PostToken(s, r, token) ==
  LET k == s.tab.current
  IN CASE k = None -> s
       [] k # None /\ Local -> SettleToken(s, k, r, token)
       [] k # None /\ ~Local ->
            Send(s, k, [type |-> "token", request |-> r, token |-> token])

\* resolveTokenRequest: the backend is captured with the provider's promise.
\* A provider that throws has not called stop() or start() first, so the
\* backend it was asked for is the current one.
ResolveTokenRequest(s, k, r) ==
  CASE setup.provider = "throws" -> PostToken(s, r, NoToken)
    [] setup.provider = "promise" ->
         [s EXCEPT !.calls = @ \cup {[of |-> k, request |-> r, generation |-> s.tab.generation,
                                      current |-> s.tab.current]}]

HandOn(s, k) ==
  IF s.tab.handlers = None THEN s
  ELSE [s EXCEPT !.heard = [of |-> k, to |-> s.tab.handlers]]

Report(s, k, status) ==
  IF s.tab.handlers = None THEN s
  ELSE [HandOn(s, k) EXCEPT !.told = [by |-> s.tab.handlers, status |-> status]]

\* The listeners of the current worker or port are removed, the port is closed
\* or the worker terminated: resetBackend with what precedes it.
Detach(s) ==
  LET k == s.tab.current
      left == [s EXCEPT !.near = @ \ {k}, !.tab.current = None, !.tab.backend = FALSE,
                        !.tab.asked = {}]
  IN IF Local THEN left ELSE Gone(left, k)

\* onWorkerFailed.
WorkerFailed(s) == Report(Detach(s), s.tab.current, "error")

\* handleOutput.
Output(s, k, m) ==
  CASE m.type = "status" -> Report(s, k, m.status)
    [] m.type = "message" ->
         IF s.tab.handlers = None THEN s ELSE [HandOn(s, k) EXCEPT !.counts[m.id] = @ + 1]
    [] m.type = "error" -> HandOn(s, k)
    [] m.type = "request" -> ResolveTokenRequest(s, k, m.request)
    [] m.type = "reaped" -> WorkerFailed(s)

\* post of the session: a call in the tab, a message from a worker, which goes
\* nowhere once the tab closed its port.
Emit(s, k, m) ==
  CASE Local -> Output(s, k, m)
    [] ~Local /\ k \in s.near /\ s.session[k].up -> [s EXCEPT !.outbox[k] = Append(@, m)]
    [] OTHER -> s

Status(status) == [type |-> "status", status |-> status]
Error == [type |-> "error"]

\* Mutant: the request is posted before it is known.
RequestTokenLate(s, k) ==
  LET r == s.session[k].next
      asked == [s EXCEPT !.session[k].next = r + 1,
                         !.sdk[k].need = "asked", !.sdk[k].asked = r]
      posted == Emit(asked, k, [type |-> "request", request |-> r])
  IN IF s.session[k].lifecycle # 1 THEN [s EXCEPT !.sdk[k].need = "refused"]
     ELSE [posted EXCEPT !.session[k].pending = @ \cup {r}]

\* requestToken, called by the client: the lifecycle it was made for is 1.
RequestToken(s, k) ==
  LET r == s.session[k].next
      asked == [s EXCEPT !.session[k].pending = @ \cup {r}, !.session[k].next = r + 1,
                         !.sdk[k].need = "asked", !.sdk[k].asked = r]
  IN IF s.session[k].lifecycle # 1 THEN [s EXCEPT !.sdk[k].need = "refused"]
     ELSE Emit(asked, k, [type |-> "request", request |-> r])

\* Mutant: events of a client are passed on whenever they come.
EmitAlways(s, k, m) == Emit(s, k, m)

\* A listener or promise of the client: void once its lifecycle is over.
FromClient(s, k, m) == IF s.session[k].lifecycle = 1 THEN Emit(s, k, m) ELSE s

\* The client dials: it says so, and asks for a token unless it has one.
Dial(s, k) ==
  LET dialing == FromClient([s EXCEPT !.sdk[k].state = "connecting"], k, Status("connecting"))
  IN IF setup.provider = "none" \/ dialing.sdk[k].token # NoToken THEN dialing
     ELSE RequestToken(dialing, k)

\* initialize.
Initialize(s, k) ==
  IF s.session[k].client THEN s
  ELSE Dial([s EXCEPT !.session[k].client = TRUE, !.session[k].lifecycle = @ + 1], k)

\* Mutant: listeners left on a Subscription stay when it is used again.
ListenAgain(s, k, t) ==
  [s EXCEPT !.session[k].subs = @ \cup {t}, !.sdk[k].ears[t] = @ + 1, !.sdk[k].on = @ \cup {t}]

\* The client's Subscription to t, new or used before: one set of listeners.
Listen(s, k, t) ==
  [s EXCEPT !.session[k].subs = @ \cup {t}, !.sdk[k].ears[t] = 1, !.sdk[k].on = @ \cup {t}]

\* subscribe.
SessionSubscribe(s, k, t) ==
  LET again == [s EXCEPT !.sdk[k].ended = @ \ {t}]
  IN CASE ~s.session[k].client -> Emit(s, k, Error)
       [] s.session[k].client /\ t \in s.session[k].subs -> [again EXCEPT !.sdk[k].on = @ \cup {t}]
       [] s.session[k].client /\ t \notin s.session[k].subs -> Listen(again, k, t)

\* Mutant: the session still tracks a Subscription it silenced.
SilenceOnly(s, k, t) == [s EXCEPT !.sdk[k].ears[t] = 0, !.sdk[k].on = @ \ {t}]

\* unsubscribe.
SessionUnsubscribe(s, k, t) ==
  [s EXCEPT !.session[k].subs = @ \ {t}, !.sdk[k].ears[t] = 0, !.sdk[k].on = @ \ {t}]

\* publish: the promise of the client settles later.
SessionPublish(s, k) ==
  IF ~s.session[k].client THEN Emit(s, k, Error) ELSE [s EXCEPT !.sdk[k].flying = @ + 1]

\* Mutant: requests for credentials are left to whoever answers them.
StopUnsettled(s, k) ==
  Emit([s EXCEPT !.session[k].lifecycle = @ + 1, !.session[k].subs = {},
                 !.session[k].client = FALSE, !.sdk[k].state = "off", !.sdk[k].on = {}],
       k, Status("disconnected"))

\* stop of the session: what the client says while it disconnects is void.
SessionStop(s, k) ==
  LET waited == s.session[k].pending # {}
  IN Emit([s EXCEPT !.session[k].lifecycle = @ + 1, !.session[k].pending = {},
                    !.session[k].subs = {}, !.session[k].client = FALSE,
                    !.sdk[k].state = "off", !.sdk[k].on = {},
                    !.sdk[k].need = IF waited THEN "refused" ELSE @],
          k, Status("disconnected"))

\* The message listener of the workers, and handle.
Handle(s, k, m) ==
  CASE m.type = "init" -> Initialize(s, k)
    [] m.type = "subscribe" -> SessionSubscribe(s, k, m.topic)
    [] m.type = "unsubscribe" -> SessionUnsubscribe(s, k, m.topic)
    [] m.type = "publish" -> SessionPublish(s, k)
    [] m.type = "token" -> SettleToken(s, k, m.request, m.token)
    [] m.type = "stop" -> SessionStop(s, k)

\* post of the transport; without a backend it throws.
Post(s, m) ==
  LET k == s.tab.current
  IN IF Local THEN Handle(s, k, m) ELSE Send(s, k, m)

----------------------------------------------------------------------------
Init ==
  /\ setup \in [backend : Backends, provider : Providers]
  /\ tab = [backend |-> FALSE, current |-> None, generation |-> 0, handlers |-> None,
            made |-> 0, asked |-> {}, dial |-> "ok"]
  /\ near = {}
  /\ inbox = [k \in Sessions |-> <<>>] /\ outbox = [k \in Sessions |-> <<>>]
  /\ session = [k \in Sessions |-> NoSession]
  /\ sdk = [k \in Sessions |-> NoClient]
  /\ calls = {}
  /\ told = [by |-> 0, status |-> "none"]
  /\ heard = [of |-> None, to |-> None]
  /\ counts = [p \in Publications |-> 0]
  /\ moves = 0 /\ events = 0

Move(s) == /\ moves < MaxMoves /\ moves' = moves + 1 /\ UNCHANGED events
           /\ Become(s)
Step(s) == Become(s) /\ UNCHANGED <<moves, events>>
Event(s) == /\ events < MaxEvents /\ events' = events + 1 /\ UNCHANGED moves
            /\ Become(s)

----------------------------------------------------------------------------
(* Calls of the bus.                                                       *)

\* What start() does before it makes a backend; only a worker counts as a
\* generation.
Prepared(k) ==
  [Here EXCEPT !.tab.handlers = k, !.tab.made = k, !.tab.dial = "ok",
               !.tab.generation = IF Local THEN @ ELSE @ + 1,
               !.told = [by |-> k, status |-> "none"]]

\* start(): nothing while there is a backend.
Start ==
  LET k == tab.made + 1
      made == [Prepared(k) EXCEPT !.tab.current = k, !.near = @ \cup {k},
                                  !.session[k].up = TRUE]
      begun == Post(made, [type |-> "init"])
  IN /\ ~tab.backend /\ k \in Sessions
     /\ Step([begun EXCEPT !.tab.backend = TRUE])

StartShared == tab.backend /\ Move(Here)

\* The worker factory throws, or the constructor of the client does, which
\* leaves a session without a client.
StartThrows ==
  LET k == tab.made + 1
      failed == [Prepared(k) EXCEPT !.tab.dial = "failed"]
  IN /\ ~tab.backend /\ k \in Sessions
     /\ Step(IF Local THEN [failed EXCEPT !.tab.current = k, !.session[k].up = TRUE,
                                          !.session[k].lifecycle = 1]
             ELSE failed)

Subscribe(t) ==
  /\ tab.backend
  /\ Move(Post([Here EXCEPT !.tab.asked = @ \cup {t}], [type |-> "subscribe", topic |-> t]))

Unsubscribe(t) ==
  /\ tab.backend
  /\ Move(Post([Here EXCEPT !.tab.asked = @ \ {t}], [type |-> "unsubscribe", topic |-> t]))

Publish == tab.backend /\ Move(Post(Here, [type |-> "publish"]))

\* Mutant: the transport still listens to what it left.
StopListening ==
  LET posted == Post([Here EXCEPT !.tab.generation = @ + 1], [type |-> "stop"])
  IN /\ tab.backend
     /\ Move([posted EXCEPT !.tab.current = None, !.tab.backend = FALSE, !.tab.asked = {},
                            !.tab.handlers = None])

\* stop(): STOP is posted, then the listeners go and the port is closed.
Stop ==
  LET posted == Post([Here EXCEPT !.tab.generation = @ + 1], [type |-> "stop"])
      silent == IF Local THEN posted ELSE [posted EXCEPT !.told.status = "none"]
  IN /\ tab.backend
     /\ Move([Detach(silent) EXCEPT !.tab.handlers = None])

----------------------------------------------------------------------------
(* Messages, and the provider.                                             *)

Receive(k) ==
  /\ session[k].up /\ inbox[k] # <<>>
  /\ Step(Handle([Here EXCEPT !.inbox[k] = Tail(@)], k, Head(inbox[k])))

Deliver(k) ==
  /\ k \in near /\ outbox[k] # <<>>
  /\ Step(Output([Here EXCEPT !.outbox[k] = Tail(@)], k, Head(outbox[k])))

\* Mutant: whoever is there gets the token.
AnyBackend(c) == TRUE

IsCurrentBackend(c) == c.generation = tab.generation /\ c.current = tab.current

\* The provider's promise settles; an empty token is an error.
ProviderSettles(c) ==
  LET s == [Here EXCEPT !.calls = @ \ {c}]
  IN /\ c \in calls
     /\ \E token \in {NoToken, <<c.of, c.request>>} :
          Step(IF IsCurrentBackend(c) THEN PostToken(s, c.request, token) ELSE s)

----------------------------------------------------------------------------
(* The Centrifuge client and its server.                                   *)

Running(k) == session[k].up /\ session[k].client

\* The handshake is over: the state and the event are both reported.
Connects(k) ==
  LET s == [Here EXCEPT !.sdk[k].state = "connected", !.sdk[k].need = "none"]
  IN /\ Running(k) /\ sdk[k].state = "connecting"
     /\ setup.provider = "none" \/ sdk[k].token # NoToken
     /\ Step(FromClient(FromClient(s, k, Status("connected")), k, Status("connected")))

\* A client that got no token says so and asks again.
AsksAgain(k) ==
  /\ Running(k) /\ sdk[k].need = "refused" /\ session[k].next <= MaxRequests
  /\ Step(RequestToken(FromClient(Here, k, Error), k))

\* The connection is lost; the token may have expired.
Loses(k) ==
  /\ Running(k) /\ sdk[k].state = "connected"
  /\ \E token \in {sdk[k].token} \cup (IF session[k].next <= MaxRequests THEN {NoToken} ELSE {}) :
       Event(Dial([Here EXCEPT !.sdk[k].token = token], k))

\* The server disconnects the client for good.
Disconnects(k) ==
  LET s == [Here EXCEPT !.sdk[k].state = "off", !.sdk[k].need = "none"]
  IN /\ Running(k) /\ sdk[k].state # "off" /\ sdk[k].need # "asked"
     /\ Event(FromClient(FromClient(s, k, Status("disconnected")), k, Status("disconnected")))

Repeat(s, k, m, n) ==
  CASE n = 0 -> s [] n = 1 -> FromClient(s, k, m)
    [] n = 2 -> FromClient(FromClient(s, k, m), k, m)

\* Mutant: a topic with a Subscription is also served by the client's listener.
PublishesTwice(k, t) ==
  LET m == [type |-> "message", id |-> events + 1]
  IN FromClient(Repeat(Here, k, m, sdk[k].ears[t]), k, m)

\* A publication reaches the listeners of a Subscription, and the client's
\* own listener, which leaves it to the Subscription if there is one.
Published(k, t) ==
  LET m == [type |-> "message", id |-> events + 1]
  IN IF t \in session[k].subs
     THEN Repeat(Here, k, m, IF t \in sdk[k].on THEN sdk[k].ears[t] ELSE 0)
     ELSE FromClient(Here, k, m)

Publication(k, t) ==
  /\ Running(k) /\ sdk[k].state = "connected"
  /\ Event(Published(k, t))

\* The server ends a subscription for good: the session forgets it, and does
\* not tell the tab.
ServerUnsubscribes(k, t) ==
  /\ Running(k) /\ sdk[k].state = "connected" /\ t \in sdk[k].on
  /\ Event([Here EXCEPT !.sdk[k].on = @ \ {t}, !.session[k].subs = @ \ {t},
                        !.sdk[k].ended = @ \cup {t}])

\* A publish of the application fails or succeeds, also after a stop.
PublishSettles(k) ==
  LET s == [Here EXCEPT !.sdk[k].flying = @ - 1]
  IN /\ session[k].up /\ sdk[k].flying > 0
     /\ Step(s) \/ Step(FromClient(s, k, Error))

\* A client that was stopped asks for a token once more.
OldClientAsks(k) ==
  /\ session[k].up /\ session[k].lifecycle = 2 /\ session[k].next <= MaxRequests
  /\ Event(RequestToken(Here, k))

\* What a listener of the session may have to say.
Reports == {Status("connecting"), Status("connected"), Status("disconnected"), Error,
            [type |-> "message", id |-> events + 1]}

\* Mutant: the listeners do not look whether the session has been stopped.
OldClientTellsAnyway(k) ==
  /\ session[k].up /\ session[k].lifecycle = 2
  /\ \E m \in Reports : Event(Emit(Here, k, m))

\* A client that was stopped fires the listeners of its connection or of a
\* Subscription once more.
OldClientTells(k) ==
  /\ session[k].up /\ session[k].lifecycle = 2
  /\ \E m \in Reports : Event(FromClient(Here, k, m))

\* The worker reports an error, or its port a message it cannot decode.
Breaks == /\ ~Local /\ tab.backend
          /\ Event(WorkerFailed(Here))

\* The SharedWorker reaps a silent port: it tells the tab, closes the port and
\* stops the session.
Reaps(k) ==
  LET s == Emit(Here, k, [type |-> "reaped"])
  IN /\ setup.backend = "shared" /\ session[k].up /\ session[k].lifecycle > 0
     /\ Event([Gone(s, k) EXCEPT !.outbox[k] = s.outbox[k]])

----------------------------------------------------------------------------
System == \/ \E k \in Sessions : Receive(k) \/ Deliver(k)
          \/ \E c \in calls : ProviderSettles(c)

Next ==
  \/ Start \/ StartShared \/ StartThrows \/ Publish \/ Stop
  \/ \E t \in Topics : Subscribe(t) \/ Unsubscribe(t)
  \/ System \/ Breaks
  \/ \E k \in Sessions :
       \/ Connects(k) \/ AsksAgain(k) \/ Loses(k) \/ Disconnects(k)
       \/ PublishSettles(k) \/ OldClientAsks(k) \/ OldClientTells(k) \/ Reaps(k)
       \/ \E t \in Topics : Publication(k, t) \/ ServerUnsubscribes(k, t)

Spec == Init /\ [][Next]_vars

----------------------------------------------------------------------------
Messages(k) == {inbox[k][i] : i \in DOMAIN inbox[k]} \cup {outbox[k][i] : i \in DOMAIN outbox[k]}
Tokens == Sessions \X (1..MaxRequests) \cup {NoToken}

\* The type of every variable; a Subscription has one set of listeners at most,
\* and a session that is down leaves nothing behind.
TypeOK ==
  /\ setup \in [backend : Backends, provider : Providers]
  /\ tab \in [backend : BOOLEAN, current : 0..MaxSessions, generation : Nat,
              handlers : 0..MaxSessions, made : 0..MaxSessions, asked : SUBSET Topics,
              dial : {"ok", "failed"}]
  /\ near \subseteq Sessions
  /\ session \in [Sessions -> [up : BOOLEAN, client : BOOLEAN, lifecycle : 0..2,
                               subs : SUBSET Topics, pending : SUBSET (1..MaxRequests),
                               next : 1..(MaxRequests + 1)]]
  /\ sdk \in [Sessions -> [state : {"off", "connecting", "connected"},
                           need : {"none", "asked", "got", "refused"}, asked : 0..MaxRequests,
                           token : Tokens, on : SUBSET Topics, ears : [Topics -> 0..1],
                           ended : SUBSET Topics, flying : Nat]]
  /\ \A c \in calls : c.of \in Sessions /\ c.current \in 0..MaxSessions
  /\ told.by \in 0..MaxSessions /\ counts \in [Publications -> 0..2]
  /\ \A k \in Sessions : session[k].up \/ (session[k] = NoSession /\ inbox[k] = <<>>)
  /\ \A k \in Sessions \ near : outbox[k] = <<>>

\* Every token a client dials with was fetched for that very request, though
\* requests of another session have the same numbers and the provider answers
\* when it likes.
TokensAreOwn ==
  \A k \in Sessions : sdk[k].token # NoToken => sdk[k].token = <<k, sdk[k].asked>>

\* Nothing about session k is on its way.
Quiet(k) == Messages(k) = {} /\ calls = {}

\* A client that waits for a token is never forgotten, not by a stop either:
\* its request is on the way, with the provider, or has been refused.
NoneStranded ==
  \A k \in Sessions : session[k].up /\ Quiet(k) => sdk[k].need # "asked"

\* Every request for a credential gets an answer, and its own.
CredentialsArrive == TokensAreOwn /\ NoneStranded

\* Handlers hear of the session their own start() made, and of every
\* publication at most once.
HandedOnOnce == /\ heard.of = heard.to
                /\ \A p \in Publications : counts[p] <= 1

\* When nothing is under way, the session tracks the topics the bus asked for,
\* but for those the server ended, and has exactly one set of listeners on
\* each; the client has the same ones subscribed.
SubscriptionsAgree ==
  \A k \in Sessions :
    k = tab.current /\ Running(k) /\ Quiet(k) =>
      /\ session[k].subs = tab.asked \ sdk[k].ended
      /\ session[k].subs = sdk[k].on
      /\ \A t \in session[k].subs : sdk[k].ears[t] = 1

----------------------------------------------------------------------------
(* The transport is the link of the bus.                                   *)

Phase == CASE ~tab.backend \/ told.status = "disconnected" -> "closed"
           [] tab.backend /\ told.status = "connected" -> "open"
           [] OTHER -> "dialing"

Linked == [kind |-> "worker", live |-> tab.backend, phase |-> Phase, dial |-> tab.dial,
           subs |-> tab.asked]

Plug == INSTANCE Link WITH Kind <- "worker", Reopens <- FALSE, link <- Linked

\* What module DataBus assumes of the worker transport: what the tab can see
\* of a session, however late, are the steps of a link.
ImplementsLink == Plug!Spec
=============================================================================
