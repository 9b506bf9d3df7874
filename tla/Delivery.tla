------------------------------ MODULE Delivery ------------------------------
(***************************************************************************)
(* The way of a publication: publish() in one tab, the tab that owns the   *)
(* topic, its transport and the server, the tabs whose transport hears it, *)
(* and the handlers of every tab (src/src/core/data-bus.ts, cluster.ts,    *)
(* dedup-manager.ts).                                                      *)
(*                                                                         *)
(* Who owns what is left free: any route may be rewritten for any tab, and *)
(* any tab may take up or let go any subscription, at any time.  Module    *)
(* Cluster says when this happens; nothing here depends on it.  What       *)
(* transports do with a publication before it is sent (waiting for a       *)
(* recovery, dropping it) is a choice: modules DataBus and Socket.         *)
(*                                                                         *)
(* Star is a pattern that matches every topic; the server understands it.  *)
(* Publications are numbered, and the number is the messageId when the     *)
(* publishers supply one.  A tab has one handler for each name.            *)
(*                                                                         *)
(* Tabs talk over a BroadcastChannel or, where there is none and the       *)
(* application allows it, over the storage-event channel of environment.ts:*)
(* one key of localStorage, whose changes raise an event in other tabs.    *)
(***************************************************************************)
EXTENDS Dedup, FiniteSets, Functions

CONSTANTS Tabs,           \* worker ids
          Topics,         \* topics
          RouteCacheMax,  \* option routeOwnerCacheMax
          MaxBatch,       \* bound on the items of a publishBatch()
          MaxMessages,    \* bound on publications
          Setups          \* the channel, how duplicates are told, and bounds that
                          \* belong to it: on publications, on changes of owners,
                          \* subscribers, tabs and the quota together with
                          \* redeliveries by the server, and on time

ASSUME DeliveryAssumption ==
  /\ IsFiniteSet(Tabs) /\ IsFiniteSet(Topics) /\ Tabs \subseteq Nat \ {0} /\ "*" \notin Topics
  /\ RouteCacheMax \in Nat \ {0} /\ MaxBatch \in Nat \ {0}
  /\ MaxMessages \in Nat
  /\ Setups \subseteq [channel : {"none", "broadcast", "storage"},
                      dedup : {"off", "fixed", "adaptive"}, messages : 0..MaxMessages,
                      events : Nat, time : Nat]

VARIABLES setup,    \* the channel, how duplicates are told, and the bounds; fixed
          phase,    \* up | suspended | stopping | stopped | crashed
          wants,    \* the names each tab has a handler for
          assigned, \* the names its transport is subscribed to
          cache,    \* its routeOwnerCache, least recently used first
          window,   \* what its DedupManager remembers
          listed,   \* tabs whose worker record counts as live
          route,    \* the route of each topic
          link,     \* frames on the channel, per sender and receiver
          key,      \* of the storage-event channel: its value, how many messages
                    \* each tab wrote to it, tabs that have yet to close a
                    \* channel, and is the storage full?
          wire,     \* messages from the server to each tab
          made,     \* publications so far, with their topic
          fate,     \* per publication: copies handed to the server and given up
          fanned,   \* how often a tab accepted and broadcast it
          ran,      \* how often each handler was called with it
          log,      \* what each tab accepted since its window was emptied
          due,      \* handlers that are to get it, if nothing changes
          now, churn, repeats

vars == <<setup, phase, wants, assigned, cache, window, listed, route, link, key, wire,
          made, fate, fanned, ran, log, due, now, churn, repeats>>

Star == "*"
Names == Topics \cup {Star}
None == 0
NoRoute == [owner |-> None, generation |-> 0]
Messages == 1..MaxMessages
Matches(name, topic) == name = Star \/ name = topic
Up(w) == phase[w] = "up"

\* Is there storage and a channel, and does it take a frame?
coordinated == setup.channel # "none"
Carries == coordinated /\ ~key.full
Empty == [from |-> None]

----------------------------------------------------------------------------
(* Functions from call to return.  A state s records the variables they    *)
(* change.                                                                 *)

Here == [cache |-> cache, window |-> window, link |-> link, key |-> key, wire |-> wire,
         fate |-> fate, fanned |-> fanned, ran |-> ran, log |-> log, due |-> due]

Become(s) ==
  /\ cache' = s.cache /\ window' = s.window /\ link' = s.link /\ key' = s.key
  /\ wire' = s.wire /\ fate' = s.fate /\ fanned' = s.fanned /\ ran' = s.ran /\ log' = s.log /\ due' = s.due

\* What a publication comes to, when it is not handed to a server.
GiveUp(s, lost) ==
  [s EXCEPT !.fate = [m \in Messages |->
     IF m \in lost THEN [s.fate[m] EXCEPT !.lost = @ + 1] ELSE s.fate[m]]]

Content(frame) == IF frame.kind = "publish" THEN <<frame.topic, Len(frame.items)>>
                  ELSE <<made[frame.item], 1>>

\* Mutant: messages are not numbered.
Unnumbered(s, x, T, frame) ==
  [from |-> x, seq |-> 1, to |-> T, kind |-> frame.kind, content |-> Content(frame)]

\* What the storage-event channel of x writes; every payload is taken to be the
\* same.  A channel has a senderId of its own: here its number goes on counting.
Envelope(s, x, T, frame) ==
  [from |-> x, seq |-> s.key.sent[x] + 1, to |-> T, kind |-> frame.kind,
   content |-> Content(frame)]

\* setItem, after which a value that was there before raises no event.
Written(s, x, T, frame) ==
  IF setup.channel # "storage" THEN s
  ELSE [s EXCEPT !.key.value = Envelope(s, x, T, frame), !.key.sent[x] = @ + 1]

Noticed(s, x, T, frame) ==
  setup.channel = "storage" => s.key.value # Envelope(s, x, T, frame)

\* postMessage: the tabs of T that listen get the frame.
Post(s, x, T, frame) ==
  [Written(s, x, T, frame) EXCEPT !.link = [l \in DOMAIN @ |->
     IF l[1] = x /\ l[2] \in T /\ Up(l[2]) /\ Noticed(s, x, T, frame)
     THEN Append(@[l], frame) ELSE @[l]]]

\* broadcastEvent: without a channel, or when it cannot write, nobody hears it.
Broadcast(s, x, frame) == IF Carries THEN Post(s, x, Tabs \ {x}, frame) ELSE s

\* The names under which the transport of v hears a topic.
Heard(v, topic) == IF Up(v) THEN {n \in assigned[v] : Matches(n, topic)} ELSE {}

\* Each item as many times as there are matching subscriptions.
Copies(items, times) == [i \in 1..(times * Len(items)) |-> items[(i - 1) \div times + 1]]

\* The server sends one copy of each item for each matching subscription.
FanOut(s, topic, items) ==
  [s EXCEPT !.wire = [v \in Tabs |->
     s.wire[v] \o Copies(items, Cardinality(Heard(v, topic)))]]

\* The handlers some tab's subscription serves as things are.
Due(topic) ==
  IF Carries
  THEN {h \in Tabs \X Names : /\ Up(h[1]) /\ h[2] \in wants[h[1]] /\ Matches(h[2], topic)
                              /\ \E v \in Tabs : Heard(v, topic) # {}}
  ELSE {h \in Tabs \X Names : /\ h[2] \in wants[h[1]] /\ Matches(h[2], topic)
                              /\ Heard(h[1], topic) # {}}

\* onControl for PUBLISH, and onPublishBatch: the transport sends the items in
\* one frame, or drops them.
TransportPublish(s, w, topic, items, sent) ==
  IF ~(sent /\ Up(w)) THEN GiveUp(s, Range(items))
  ELSE [FanOut(s, topic, items) EXCEPT
          !.fate = [m \in Messages |-> IF m \in Range(items)
                                       THEN [s.fate[m] EXCEPT !.handed = @ + 1] ELSE s.fate[m]],
          !.due = [m \in Messages |-> IF m \in Range(items)
                                      THEN [who |-> Due(topic), churn |-> churn] ELSE s.due[m]]]

\* readWorkers: a running tab is always among the live ones.
Live(w) == IF coordinated THEN listed \cup (IF Up(w) THEN {w} ELSE {}) ELSE {w}

\* readRoute; without a channel the route of every topic a tab uses is its own.
ReadRoute(w, topic) ==
  CASE coordinated -> route[topic]
    [] ~coordinated /\ topic \in wants[w] \cup assigned[w] ->
         [owner |-> w, generation |-> 1]
    [] OTHER -> NoRoute

Entry(topic, r) == [topic |-> topic, owner |-> r.owner, generation |-> r.generation]

\* routeOwnerIsLive.
IsLive(w, r) == r # NoRoute /\ r.owner \in Live(w)

\* Mutant: a cached owner is believed while the route names it.
CachedRoute(s, w, topic) ==
  LET r == ReadRoute(w, topic)
  IN r # NoRoute /\ \E i \in 1..Len(s.cache[w]) : s.cache[w][i] = Entry(topic, r)

\* The cached owner is live, and the route in storage is the one it was read from.
CachedLive(s, w, topic) ==
  LET r == ReadRoute(w, topic)
  IN /\ IsLive(w, r)
     /\ \E i \in 1..Len(s.cache[w]) : s.cache[w][i] = Entry(topic, r)

\* Who publishes: the live owner of the topic, or w itself.
PublishTarget(s, w, topic) ==
  LET r == ReadRoute(w, topic)
  IN IF CachedLive(s, w, topic) \/ IsLive(w, r) THEN r.owner ELSE w

\* routeOwnerCache.delete().
Without(entries, topic) == Kept(entries, {e \in Range(entries) : e.topic # topic})

\* touchRouteOwnerCache: the entry becomes the most recent one, the oldest go.
Touched(entries, entry) ==
  LET moved == Append(Without(entries, entry.topic), entry)
      size == Len(moved)
  IN IF size <= RouteCacheMax THEN moved ELSE SubSeq(moved, size - RouteCacheMax + 1, size)

\* resolvePublishTarget leaves the route it used in the cache.
Resolved(s, w, topic) ==
  LET r == ReadRoute(w, topic)
  IN [s EXCEPT !.cache[w] = IF r # NoRoute /\ PublishTarget(s, w, topic) = r.owner
                            THEN Touched(@, Entry(topic, r))
                            ELSE Without(@, topic)]

\* Mutant: what is sent to the owner is published here as well.
SendAndPublish(s, w, target, topic, items) ==
  TransportPublish(Post(s, w, {target}, [kind |-> "publish", topic |-> topic, items |-> items]),
                   w, topic, items, TRUE)

\* sendControl to another tab; one without a channel, or that cannot write to
\* it, reports an error.
SendPublish(s, w, target, topic, items) ==
  LET posted == Post(s, w, {target}, [kind |-> "publish", topic |-> topic, items |-> items])
  IN CASE ~(Up(w) /\ Carries) -> GiveUp(s, Range(items))
       [] Up(w) /\ Carries /\ ~Up(target) -> GiveUp(posted, Range(items))
       [] OTHER -> posted

\* publish and publishBatch of the cluster.
ClusterPublish(s, w, topic, items, sent) ==
  IF topic \in assigned[w] THEN TransportPublish(s, w, topic, items, sent)
  ELSE LET target == PublishTarget(s, w, topic)
           resolved == Resolved(s, w, topic)
       IN IF target = w THEN TransportPublish(resolved, w, topic, items, sent)
          ELSE SendPublish(resolved, w, target, topic, items)

\* Mutant: a handler for the topic itself counts as a wildcard too.
WildcardsAndExact(v, topic) == {n \in wants[v] : Matches(n, topic)}

\* The handlers of patterns that match the topic.
Wildcards(v, topic) == {n \in wants[v] : n # topic /\ Matches(n, topic)}

HasLocalSubscriber(v, topic) == \E n \in wants[v] : Matches(n, topic)

\* dispatch: exact handlers, then wildcards.
Dispatch(s, v, m) ==
  LET topic == made[m]
      calls(n) == (IF n = topic /\ n \in wants[v] THEN 1 ELSE 0)
                    + (IF n \in Wildcards(v, topic) THEN 1 ELSE 0)
  IN [s EXCEPT !.ran[v] = [n \in Names |-> [s.ran[v][n] EXCEPT ![m] = @ + calls(n)]]]

\* Mutant: a pattern does not count as an assignment of what it matches.
ExactlyAssigned(w, topic) == topic \in assigned[w] \/ ReadRoute(w, topic).owner = w

IsAssigned(w, topic) ==
  \/ \E n \in assigned[w] : Matches(n, topic)
  \/ ReadRoute(w, topic).owner = w

\* handleTransportMessage past the duplicate gate.
Accept(s, w, m) ==
  IF ~IsAssigned(w, made[m]) THEN s
  ELSE Dispatch(Broadcast([s EXCEPT !.fanned[m] = @ + 1], w, [kind |-> "event", item |-> m]),
                w, m)

Adaptive == setup.dedup = "adaptive"

\* handleTransportMessage.
HandleTransportMessage(s, w, m) ==
  LET d == PruneExpired(s.window[w], Adaptive, now)
      kept == [s EXCEPT !.window[w] = d]
      known == [s EXCEPT !.window[w] = Remember(d, m, now),
                         !.log[w] = Append(@, [id |-> m, at |-> now])]
  IN CASE setup.dedup = "off" -> Accept(s, w, m)
       [] setup.dedup # "off" /\ Has(d, m) -> kept
       [] OTHER -> Accept(known, w, m)

----------------------------------------------------------------------------
Init ==
  /\ setup \in Setups
  /\ phase = [w \in Tabs |-> "up"]
  /\ wants = [w \in Tabs |-> Names]
  /\ \E owner \in [Names -> Tabs \cup {None}] :
       /\ \A t \in Topics, w \in Tabs : owner[t] # None => owner[t] <= w
       /\ assigned = [w \in Tabs |-> {n \in Names : owner[n] = w}]
       /\ route = [t \in Topics |-> IF owner[t] = None THEN NoRoute
                                   ELSE [owner |-> owner[t], generation |-> 1]]
  /\ cache = [w \in Tabs |-> <<>>]
  /\ window = [w \in Tabs |-> EmptyWindow(0)]
  /\ listed = Tabs
  /\ link = [l \in Tabs \X Tabs |-> <<>>]
  /\ key = [value |-> Empty, sent |-> [w \in Tabs |-> 0], closing |-> {}, full |-> FALSE]
  /\ wire = [w \in Tabs |-> <<>>]
  /\ made = <<>>
  /\ fate = [m \in Messages |-> [handed |-> 0, lost |-> 0]]
  /\ fanned = [m \in Messages |-> 0]
  /\ ran = [w \in Tabs |-> [n \in Names |-> [m \in Messages |-> 0]]]
  /\ log = [w \in Tabs |-> <<>>]
  /\ due = [m \in Messages |-> [who |-> {}, churn |-> 0]]
  /\ now = 0 /\ churn = 0 /\ repeats = 0

Setup == UNCHANGED setup
Fixed == Setup /\ UNCHANGED <<now, churn, repeats>>
More == churn + repeats < setup.events
Churns == More /\ churn' = churn + 1 /\ Setup /\ UNCHANGED <<now, repeats>>
Owners == UNCHANGED <<phase, wants, assigned, listed, route>>

\* Frames and messages a tab stops listening to are dropped, and with them the
\* publications other tabs sent it.
Deaf(s, w) ==
  LET frames == UNION {Range(s.link[<<x, w>>]) : x \in Tabs}
      asked == UNION {Range(f.items) : f \in {g \in frames : g.kind = "publish"}}
  IN [GiveUp(s, asked) EXCEPT
        !.link = [l \in DOMAIN @ |-> IF l[2] = w THEN <<>> ELSE @[l]],
        !.key.closing = IF setup.channel = "storage" /\ Up(w) THEN @ \cup {w} ELSE @,
        !.wire[w] = <<>>, !.cache[w] = <<>>]

----------------------------------------------------------------------------
(* publish() and publishBatch().                                           *)

\* Of a bus that is not stopping or stopped, started or suspended.
Publish(w, topic, n) ==
  LET items == [i \in 1..n |-> Len(made) + i]
  IN /\ phase[w] \in {"up", "suspended"} /\ Len(made) + n <= setup.messages
     /\ made' = made \o [i \in 1..n |-> topic]
     /\ \E sent \in BOOLEAN : Become(ClusterPublish(Here, w, topic, items, sent))
     /\ Fixed /\ Owners

\* rejectPublishDuringStop.
PublishRejected(w, topic, n) ==
  LET items == [i \in 1..n |-> Len(made) + i]
  IN /\ phase[w] = "stopping" /\ Len(made) + n <= setup.messages
     /\ made' = made \o [i \in 1..n |-> topic]
     /\ Become(GiveUp(Here, Range(items)))
     /\ Fixed /\ Owners

----------------------------------------------------------------------------
(* Events.                                                                 *)

\* A message of the transport.
Arrive(w) ==
  /\ Up(w) /\ wire[w] # <<>>
  /\ Become(HandleTransportMessage([Here EXCEPT !.wire[w] = Tail(@)], w, Head(wire[w])))
  /\ UNCHANGED made /\ Fixed /\ Owners

\* handleMessage: whoever is asked to publish does, owner or not.
Receive(x, w) ==
  LET frame == Head(link[<<x, w>>])
      s == [Here EXCEPT !.link[<<x, w>>] = Tail(@)]
  IN /\ Up(w) /\ link[<<x, w>>] # <<>>
     /\ \/ /\ frame.kind = "publish"
           /\ \E sent \in BOOLEAN :
                Become(TransportPublish(s, w, frame.topic, frame.items, sent))
        \/ /\ frame.kind = "event"
           /\ Become(IF HasLocalSubscriber(w, made[frame.item]) THEN Dispatch(s, w, frame.item)
                     ELSE s)
     /\ UNCHANGED made /\ Fixed /\ Owners

\* The server repeats a message it may have sent.
Redeliver(w, m) ==
  /\ Heard(w, made[m]) # {} /\ fate[m].handed > 0
  /\ More /\ repeats' = repeats + 1
  /\ Become([Here EXCEPT !.wire[w] = Append(@, m)])
  /\ Setup /\ UNCHANGED <<now, churn, made>> /\ Owners

Tick == /\ now < setup.time /\ now' = now + 1
        /\ Become(Here) /\ Setup /\ UNCHANGED <<churn, repeats, made>> /\ Owners

\* The sweep of a bus with dedup.sweepMs; getDedupStats prunes nothing but
\* begins a new adaptive window.
Sweep(w) ==
  /\ Up(w) /\ setup.dedup # "off"
  /\ Become([Here EXCEPT !.window[w] = PruneExpired(@, Adaptive, now)])
  /\ UNCHANGED made /\ Fixed /\ Owners

GetDedupStats(w) ==
  /\ Become([Here EXCEPT !.window[w] = Rolled(@, Adaptive, now)])
  /\ UNCHANGED made /\ Fixed /\ Owners

----------------------------------------------------------------------------
(* Tabs, subscriptions and ownership.                                      *)

Subscribe(w, n) ==
  /\ phase[w] \in {"up", "suspended"}
  /\ wants' = [wants EXCEPT ![w] = @ \cup {n}]
  /\ Become(Here) /\ Churns /\ UNCHANGED <<phase, assigned, listed, route, made>>

Unsubscribe(w, n) ==
  /\ n \in wants[w]
  /\ wants' = [wants EXCEPT ![w] = @ \ {n}]
  /\ Become(Here) /\ Churns /\ UNCHANGED <<phase, assigned, listed, route, made>>

\* assignedTopics and, with it, the subscription of the transport.
Take(w, n) ==
  /\ Up(w) /\ assigned' = [assigned EXCEPT ![w] = @ \cup {n}]
  /\ Become(Here) /\ Churns /\ UNCHANGED <<phase, wants, listed, route, made>>

LetGo(w, n) ==
  /\ n \in assigned[w] /\ assigned' = [assigned EXCEPT ![w] = @ \ {n}]
  /\ Become(Here) /\ Churns /\ UNCHANGED <<phase, wants, listed, route, made>>

\* A route written by any tab, or removed.
WriteRoute(topic, owner) ==
  /\ route' = [route EXCEPT ![topic] =
                 IF owner = None THEN NoRoute
                 ELSE [owner |-> owner, generation |-> route[topic].generation + 1]]
  /\ Become(Here) /\ Churns /\ UNCHANGED <<phase, wants, assigned, listed, made>>

\* The worker record of w is written by its heartbeat, or has expired.
WriteRecord(w) ==
  /\ IF Up(w) THEN listed' \in {listed \ {w}, listed \cup {w}} ELSE listed' = listed \ {w}
  /\ listed' # listed
  /\ Become(Here) /\ Churns /\ UNCHANGED <<phase, wants, assigned, route, made>>

\* pagehide; a crash differs in what it leaves in storage.
Suspend(w) ==
  /\ Up(w) /\ phase' = [phase EXCEPT ![w] = "suspended"]
  /\ assigned' = [assigned EXCEPT ![w] = {}]
  /\ listed' = listed \ {w}
  /\ Become(Deaf(Here, w)) /\ Churns /\ UNCHANGED <<wants, route, made>>

Crash(w) ==
  /\ phase[w] # "crashed" /\ phase' = [phase EXCEPT ![w] = "crashed"]
  /\ assigned' = [assigned EXCEPT ![w] = {}]
  /\ wants' = [wants EXCEPT ![w] = {}]
  /\ Become([Deaf(Here, w) EXCEPT !.key.closing = @ \ {w}])
  /\ Churns /\ UNCHANGED <<listed, route, made>>

\* The task pause() leaves to the physical close(), which removes the key.
CloseChannel(w) ==
  /\ w \in key.closing
  /\ Become([Here EXCEPT !.key.value = Empty, !.key.closing = @ \ {w}])
  /\ UNCHANGED made /\ Fixed /\ Owners

\* setItem of the storage-event channel throws from now on, or no longer.
Quota ==
  /\ setup.channel = "storage"
  /\ Become([Here EXCEPT !.key.full = ~@])
  /\ Churns /\ UNCHANGED made /\ Owners

\* beginStop.
Stop(w) ==
  /\ phase[w] \in {"up", "suspended"} /\ phase' = [phase EXCEPT ![w] = "stopping"]
  /\ assigned' = [assigned EXCEPT ![w] = {}]
  /\ wants' = [wants EXCEPT ![w] = {}]
  /\ listed' = listed \ {w}
  /\ Become(Deaf(Here, w)) /\ Churns /\ UNCHANGED <<route, made>>

Emptied(w) == [Here EXCEPT !.window[w] = EmptyWindow(now), !.log[w] = <<>>]

\* The end of performStop; resetDedup at any time.
Stopped(w) ==
  /\ phase[w] = "stopping" /\ phase' = [phase EXCEPT ![w] = "stopped"]
  /\ Become(Emptied(w)) /\ Fixed /\ UNCHANGED <<wants, assigned, listed, route, made>>

ResetDedup(w) ==
  /\ phase[w] # "crashed" /\ Become(Emptied(w))
  /\ Churns /\ UNCHANGED made /\ Owners

\* pageshow, or start() of a bus that stopped.
Start(w) ==
  /\ phase[w] \in {"suspended", "stopped"} /\ phase' = [phase EXCEPT ![w] = "up"]
  /\ listed' = listed \cup {w}
  /\ Become(Here) /\ Churns /\ UNCHANGED <<wants, assigned, route, made>>

----------------------------------------------------------------------------
Next ==
  \/ \E w \in Tabs :
       \/ \E topic \in Topics, n \in 1..MaxBatch :
            Publish(w, topic, n) \/ PublishRejected(w, topic, n)
       \/ Arrive(w) \/ Sweep(w) \/ GetDedupStats(w)
       \/ \E x \in Tabs : Receive(x, w)
       \/ \E m \in 1..Len(made) : Redeliver(w, m)
       \/ \E n \in Names : Subscribe(w, n) \/ Unsubscribe(w, n) \/ Take(w, n) \/ LetGo(w, n)
       \/ WriteRecord(w) \/ Suspend(w) \/ Crash(w) \/ Stop(w) \/ Stopped(w)
       \/ ResetDedup(w) \/ Start(w) \/ CloseChannel(w)
  \/ \E topic \in Topics, owner \in Tabs \cup {None} : WriteRoute(topic, owner)
  \/ Tick \/ Quota

Spec == Init /\ [][Next]_vars

\* Queued messages are delivered.
FairSpec == /\ Spec
            /\ \A w \in Tabs : WF_vars(Arrive(w)) /\ \A x \in Tabs : WF_vars(Receive(x, w))

----------------------------------------------------------------------------
Entries == [topic : Topics, owner : Tabs, generation : Nat]
Frames == [kind : {"publish"}, topic : Topics, items : Seq(Messages)]
            \cup [kind : {"event"}, item : Messages]

\* The type of every variable, and the caps of the two caches.
TypeOK ==
  /\ setup \in Setups
  /\ phase \in [Tabs -> {"up", "suspended", "stopping", "stopped", "crashed"}]
  /\ wants \in [Tabs -> SUBSET Names] /\ assigned \in [Tabs -> SUBSET Names]
  /\ listed \subseteq Tabs
  /\ route \in [Topics -> {NoRoute} \cup [owner : Tabs, generation : Nat]]
  /\ \A w \in Tabs : /\ cache[w] \in Seq(Entries) /\ Len(cache[w]) <= RouteCacheMax
                     /\ wire[w] \in Seq(Messages)
                     /\ window[w].seen \in Seq([id : Messages, at : 0..now])
                     /\ Len(window[w].seen) <= MaxEntries
                     /\ window[w].startedAt \in 0..now /\ window[w].accepted \in Nat
                     /\ \A x \in Tabs : link[<<x, w>>] \in Seq(Frames)
  /\ made \in Seq(Topics) /\ Len(made) <= MaxMessages
  /\ fate \in [Messages -> [handed : Nat, lost : Nat]]
  /\ fanned \in [Messages -> Nat]
  /\ key.value = Empty \/ (key.value.from \in Tabs /\ key.value.seq \in 1..key.sent[key.value.from])
  /\ key.closing \subseteq Tabs /\ key.full \in BOOLEAN
  /\ now \in 0..setup.time /\ churn + repeats \in 0..setup.events

\* The places of frames that ask for the publication of m, and of those that
\* tell v of it.
Asks(frame, m) == frame.kind = "publish" /\ m \in Range(frame.items)
Tells(frame, m) == frame.kind = "event" /\ frame.item = m

Asked(m) == UNION {{l} \X {i \in 1..Len(link[l]) : Asks(link[l][i], m)} : l \in Tabs \X Tabs}
Told(v, m) ==
  UNION {{x} \X {i \in 1..Len(link[<<x, v>>]) : Tells(link[<<x, v>>][i], m)} : x \in Tabs}

\* Every publication is in one place: asked of one tab, given to one server
\* once, or given up; an item of a batch included, whoever owns the topic by
\* the time the request is read.
SentOnce ==
  \A m \in 1..Len(made) : fate[m].handed + fate[m].lost + Cardinality(Asked(m)) = 1

\* The owner a tab remembers is believed only while it is the live owner.
CacheIsHonest ==
  \A w \in Tabs, topic \in Topics :
    LET r == ReadRoute(w, topic)
    IN PublishTarget(Here, w, topic) = IF r.owner \in Live(w) THEN r.owner ELSE w

\* A publication goes to the transport of the live owner of its topic, once.
GoesToOwnerOnce == SentOnce /\ CacheIsHonest

\* No handler is called more often than a tab accepted the message: the tab that
\* broadcasts does not hear its own event, and a pattern is not counted twice.
OncePerAcceptance ==
  \A v \in Tabs, n \in Names, m \in Messages :
    ran[v][n][m] + Cardinality(Told(v, m)) <= fanned[m]

Age(entry) == now - entry.at
Shortest == IF Adaptive THEN MinMs ELSE TtlMs
Longest == IF Adaptive THEN MaxMs ELSE TtlMs

\* A duplicate is suppressed while it is among the last MaxEntries ids accepted
\* and younger than the shortest TTL, whatever burst or sweep came in between;
\* and nothing is suppressed that was not accepted within the longest.
WindowIsKept ==
  [][\A w \in Tabs :
       /\ setup.dedup # "off" /\ phase'[w] = "up"
       /\ wire[w] # <<>> /\ wire'[w] = Tail(wire[w])
       => LET earlier == {i \in 1..Len(log[w]) : log[w][i].id = Head(wire[w])}
          IN /\ (\E i \in earlier : Age(log[w][i]) <= Shortest /\ Len(log[w]) - i < MaxEntries)
                => log'[w] = log[w]
             /\ log'[w] = log[w] => \E i \in earlier : Age(log[w][i]) <= Longest]_vars

\* Some handler has not had m, and nothing changed since the server got it.
Missing(m) == churn = due[m].churn /\ \E h \in due[m].who : ran[h[1]][h[2]][m] = 0

\* What the server got while some transport was subscribed to the topic, or to a
\* pattern of it, reaches every handler there was, in every tab, unless owners,
\* subscribers or tabs change first.
Reaches == \A m \in Messages : Missing(m) ~> ~Missing(m)
=============================================================================
