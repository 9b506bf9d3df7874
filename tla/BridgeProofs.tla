---------------------------- MODULE BridgeProofs ----------------------------
(***************************************************************************)
(* Proofs about Bridge, for any topics, backends, providers and bounds.    *)
(*                                                                         *)
(* Functions of the transport and the session map a state record s to      *)
(* another.  Sound says of such a record that the fields of the transport, *)
(* of each session and of its client belong together, and of every message *)
(* and call that it is for the session it is sent to.  Three more parts    *)
(* are about what is on its way: the answer a client waits for (Answered), *)
(* the topics a session has not heard of yet (Informed), and publications  *)
(* (Single).  There is a lemma for each function; the theorems follow      *)
(* action by action.                                                       *)
(*                                                                         *)
(* That the transport is a link rests on the order in which the statuses   *)
(* of a session arrive: none follows its "disconnected" (Ordered).  A      *)
(* second lemma for each function says what it may report; the last        *)
(* theorem follows from them action by action.                             *)
(***************************************************************************)
EXTENDS Bridge, SequenceTheorems, TLAPS

Fields == {"tab", "near", "inbox", "outbox", "session", "sdk", "calls", "told", "heard",
           "counts"}
Requests == 1..MaxRequests
Statuses == {"connecting", "connected", "disconnected"}

TabType == [backend : BOOLEAN, current : 0..MaxSessions, generation : Nat,
            handlers : 0..MaxSessions, made : 0..MaxSessions, asked : SUBSET Topics,
            dial : {"ok", "failed"}]
SessionType == [up : BOOLEAN, client : BOOLEAN, lifecycle : 0..2, subs : SUBSET Topics,
                pending : SUBSET Requests, next : 1..(MaxRequests + 1)]
ClientType == [state : {"off", "connecting", "connected"},
               need : {"none", "asked", "got", "refused"}, asked : 0..MaxRequests,
               token : Tokens, on : SUBSET Topics, ears : [Topics -> 0..1],
               ended : SUBSET Topics, flying : Nat]
ToldType == [by : 0..MaxSessions, status : Statuses \cup {"none", "error"}]
CallType == [of : Sessions, request : Requests, generation : Nat, current : Sessions]

\* A token message carries the token of its own request, or none.
OwnToken(k, m) == m.token \in {NoToken, <<k, m.request>>}
Inbound(k) == [type : {"init", "publish"}]
              \cup [type : {"subscribe", "unsubscribe"}, topic : Topics]
              \cup {m \in [type : {"token"}, request : Requests, token : Tokens] :
                      OwnToken(k, m)}
Plain == [type : {"error"}] \cup [type : {"status"}, status : Statuses]
         \cup [type : {"message"}, id : Publications]
Outbound == Plain \cup [type : {"reaped"}]
            \cup {m \in [type : {"request"}, request : Requests] : setup.provider # "none"}

\* The transport: sessions are made in order, and whoever is current is
\* the last one and has the handlers of its start().
TabOK(s) ==
  /\ s.tab \in TabType
  /\ s.near \subseteq Sessions /\ s.near \subseteq {s.tab.current}
  /\ s.tab.current # None => s.tab.current = s.tab.made /\ s.tab.handlers = s.tab.made
  /\ s.told \in ToldType /\ s.told.by = s.tab.made
  /\ s.heard.of = s.heard.to

\* A session S numbered k and its client D; here says whether it is current.
\* A client runs only in the current session and while its lifecycle is 1; the
\* request it waits for is the one that is pending; a token is its own, and a
\* client that holds one asks for none.
SessionOK(k, S, D, here) ==
  /\ ~S.up => S = NoSession /\ D = NoClient
  /\ ~S.client => D.state = "off" /\ S.subs = {} /\ D.need # "asked"
  /\ ~S.client /\ S.lifecycle <= 1 => D = NoClient /\ S.next = 1
  /\ S.client => S.up /\ S.lifecycle = 1 /\ here
  /\ S.up /\ ~Local => S.lifecycle = IF S.client THEN 1 ELSE 0
  /\ S.pending = IF D.need = "asked" THEN {D.asked} ELSE {}
  /\ D.token # NoToken => D.token = <<k, D.asked>>
  /\ D.token # NoToken /\ S.client => D.need \notin {"asked", "refused"}
  /\ D.state = "connected" => D.need = "none" /\ (setup.provider = "none" \/ D.token # NoToken)
  /\ setup.provider = "none" /\ S.client => D.need = "none"
  /\ S.subs = D.on
  /\ \A t \in S.subs : D.ears[t] = 1

\* Only a session in a worker has messages, and only while it is up or heard;
\* a session that no start() made yet is down.
MailOK(s, k) ==
  /\ s.session[k].up => k <= s.tab.made
  /\ s.inbox[k] \in Seq(Inbound(k))
  /\ s.session[k].up \/ s.inbox[k] = <<>>
  /\ k \in s.near \/ s.outbox[k] = <<>>
  /\ Local => s.inbox[k] = <<>> /\ s.outbox[k] = <<>>
  /\ s.session[k].up /\ ~Local => k \in s.near

\* The provider works for the session that asked it.
CallOK(c) == c \in CallType /\ c.of = c.current /\ setup.provider = "promise"

Sound(s) ==
  /\ DOMAIN s = Fields
  /\ TabOK(s)
  /\ s.session \in [Sessions -> SessionType] /\ s.sdk \in [Sessions -> ClientType]
  /\ s.inbox = [k \in Sessions |-> s.inbox[k]] /\ s.outbox \in [Sessions -> Seq(Outbound)]
  /\ s.counts \in [Publications -> Nat]
  /\ \A k \in Sessions :
       SessionOK(k, s.session[k], s.sdk[k], k = s.tab.current) /\ MailOK(s, k)
  /\ \A c \in s.calls : CallOK(c) /\ c.current <= s.tab.made

SetupOK == /\ setup \in [backend : Backends, provider : Providers]
           /\ setup.backend \in {"shared", "dedicated", "local"}
           /\ setup.provider \in {"none", "promise", "throws"}

----------------------------------------------------------------------------
\* r is s after session k said m.
Said(s, r, k, m) ==
  /\ DOMAIN r = Fields
  /\ r.tab = s.tab /\ r.near = s.near /\ r.inbox = s.inbox /\ r.session = s.session
  /\ r.sdk = s.sdk /\ r.calls = s.calls
  /\ r.outbox = IF ~Local /\ k \in s.near /\ s.session[k].up
                 THEN [s.outbox EXCEPT ![k] = Append(@, m)] ELSE s.outbox
  /\ r.counts = IF Local /\ m.type = "message" THEN [s.counts EXCEPT ![m.id] = @ + 1]
                ELSE s.counts
  /\ r.told = IF Local /\ m.type = "status" THEN [s.told EXCEPT !.status = m.status] ELSE s.told
  /\ r.heard.of = r.heard.to

\* What a session says changes nothing but its outbox and what the tab heard.
LEMMA SaidSound ==
  ASSUME NEW s, Sound(s), NEW k \in Sessions, NEW m \in Outbound, NEW r, Said(s, r, k, m),
         m.type = "message" => m.id \in Publications,
         m.type = "status" => m.status \in Statuses
  PROVE  Sound(r)
<1>1. r.outbox[k] \in Seq(Outbound)
  BY AppendProperties DEF Said, Sound
<1>2. ASSUME NEW j \in Sessions PROVE MailOK(r, j)
  <2>1. CASE j = k
    BY <1>1, <2>1 DEF Said, Sound, MailOK
  <2>2. CASE j # k
    BY <2>2 DEF Said, Sound, MailOK
  <2> QED BY <2>1, <2>2
<1>3. TabOK(r)
  <2>1. s.told \in ToldType /\ r.told \in ToldType /\ r.told.by = s.told.by
    BY DEF Said, Sound, TabOK, ToldType
  <2> QED BY <2>1 DEF Said, Sound, TabOK
<1>4. r.counts \in [Publications -> Nat]
  BY DEF Said, Sound
<1> QED BY <1>2, <1>3, <1>4 DEF Said, Sound

\* Emit of a status, an error or a publication, for the current session.
LEMMA EmitSaid ==
  ASSUME SetupOK, NEW s, Sound(s), NEW k \in Sessions, k = s.tab.current, NEW m \in Plain
  PROVE  Said(s, Emit(s, k, m), k, m) /\ Sound(Emit(s, k, m))
<1>1. /\ s.tab.handlers = k /\ k # None /\ s.told.by = k /\ DOMAIN s = Fields
      /\ s.told \in ToldType /\ s.heard.of = s.heard.to
      /\ s.outbox \in [Sessions -> Seq(Outbound)]
  BY DEF Sound, TabOK, Sessions, None
<1>2. m.type \in {"error", "status", "message"} /\ (m.type = "status" => m.status \in Statuses)
  BY DEF Plain
<1>3. [by |-> k, status |-> m.status] = [s.told EXCEPT !.status = m.status]
  BY <1>1 DEF ToldType
<1> DEFINE handed == [s EXCEPT !.heard = [of |-> k, to |-> k]]
<1>8. HandOn(s, k) = handed
  BY <1>1 DEF HandOn, Fields
<1>7. Said(s, Emit(s, k, m), k, m)
  <2>4. CASE Local
    <3>0. Emit(s, k, m) = Output(s, k, m)
      BY <2>4 DEF Emit
    <3>1. CASE m.type = "error"
      <4>1. Output(s, k, m) = handed
        BY <1>8, <3>1 DEF Output
      <4> QED BY <1>1, <2>4, <1>8, <3>0, <3>1, <4>1 DEF Said, Fields
    <3>2. CASE m.type = "status"
      <4>1. Output(s, k, m) = [handed EXCEPT !.told = [by |-> k, status |-> m.status]]
        BY <1>1, <1>8, <3>2 DEF Output, Report
      <4> QED BY <1>1, <1>3, <2>4, <1>8, <3>0, <3>2, <4>1 DEF Said, Fields
    <3>3. CASE m.type = "message"
      <4>1. Output(s, k, m) = [handed EXCEPT !.counts[m.id] = @ + 1]
        BY <1>1, <1>8, <3>3 DEF Output
      <4> QED BY <1>1, <2>4, <1>8, <3>0, <3>3, <4>1 DEF Said, Fields
    <3> QED BY <1>2, <3>1, <3>2, <3>3
  <2>5. CASE ~Local
    BY <1>1, <1>2, <2>5 DEF Said, Emit, Fields
  <2> QED BY <2>4, <2>5
<1>6. /\ m \in Outbound /\ (m.type = "message" => m.id \in Publications)
      /\ m.type = "status" => m.status \in Statuses
  BY DEF Outbound, Plain
<1> HIDE DEF Emit
<1> QED BY <1>6, <1>7, SaidSound

----------------------------------------------------------------------------
(* What is on its way.                                                     *)

Asks(m, r) == m.type = "request" /\ m.request = r
Answers(m, r) == m.type = "token" /\ m.request = r

\* Request r of session k is with the tab, with the provider, or answered.
Underway(s, k, r) ==
  \/ \E c \in s.calls : c.of = k /\ c.request = r
  \/ \E i \in 1..Len(s.inbox[k]) : Answers(s.inbox[k][i], r)
  \/ \E i \in 1..Len(s.outbox[k]) : Asks(s.outbox[k][i], r)

\* Every request a client waits for is underway, but for request r of session k,
\* which a function has in its hands.
AnsweredBut(s, k, r) ==
  \A j \in Sessions : s.sdk[j].need = "asked" /\ ~(j = k /\ s.sdk[j].asked = r)
                        => Underway(s, j, s.sdk[j].asked)
Answered(s) == \A j \in Sessions : s.sdk[j].need = "asked" => Underway(s, j, s.sdk[j].asked)

\* The last message about t tells the session what the bus asked for; without
\* one the session does that already, unless the server ended it.
About(m, t) == m.type \in {"subscribe", "unsubscribe"} /\ m.topic = t
Follows(q, t, asked, subs, ended) ==
  \/ \E i \in 1..Len(q) :
       /\ About(q[i], t) /\ (q[i].type = "subscribe" <=> t \in asked)
       /\ \A j \in 1..Len(q) : j > i => ~About(q[j], t)
  \/ /\ \A i \in 1..Len(q) : ~About(q[i], t)
     /\ t \in subs <=> t \in asked \ ended
Informed(s) ==
  \A k \in Sessions : k = s.tab.current /\ s.session[k].up =>
    \A t \in Topics : Follows(s.inbox[k], t, s.tab.asked, s.session[k].subs, s.sdk[k].ended)

\* INIT comes first and once.
Begun(s) ==
  \A k \in Sessions :
    /\ \A i \in 1..Len(s.inbox[k]) :
         s.inbox[k][i].type = "init" => i = 1 /\ s.session[k].lifecycle = 0
    /\ s.session[k].up /\ s.session[k].lifecycle = 0 =>
         s.inbox[k] # <<>> /\ s.inbox[k][1].type = "init"

\* A credential asked for by the current backend is for this generation.
Timely(s) == \A c \in s.calls : c.current = s.tab.current => c.generation = s.tab.generation

\* Publications are numbered up to n, and each was handed on once or is in one
\* message, or is gone.
Holds(s, k, i, p) == s.outbox[k][i].type = "message" /\ s.outbox[k][i].id = p
Single(s, n) ==
  \A p \in Publications :
    /\ s.counts[p] <= 1 /\ (p > n => s.counts[p] = 0)
    /\ \A k \in Sessions : \A i \in 1..Len(s.outbox[k]) : Holds(s, k, i, p) =>
         /\ s.counts[p] = 0 /\ p <= n
         /\ \A l \in Sessions : \A j \in 1..Len(s.outbox[l]) :
              Holds(s, l, j, p) => l = k /\ j = i

Rest(s, n) == Informed(s) /\ Begun(s) /\ Timely(s) /\ Single(s, n)

\* Messages of these kinds are added to q.
Grown(q, o, kinds) ==
  /\ Len(q) <= Len(o)
  /\ \A i \in 1..Len(q) : o[i] = q[i]
  /\ \A i \in 1..Len(o) : i > Len(q) => o[i].type \in kinds

\* From s to r session k only says things, asks for credentials and is answered.
Calm(s, r, k) ==
  /\ r.tab = s.tab /\ r.near = s.near /\ r.counts = s.counts
  /\ \A j \in Sessions \ {k} :
       /\ r.session[j] = s.session[j] /\ r.sdk[j] = s.sdk[j]
       /\ r.inbox[j] = s.inbox[j] /\ r.outbox[j] = s.outbox[j]
  /\ \A f \in {"up", "client", "lifecycle", "subs"} : r.session[k][f] = s.session[k][f]
  /\ r.sdk[k].ended = s.sdk[k].ended
  /\ Grown(s.inbox[k], r.inbox[k], {"token"})
  /\ Grown(s.outbox[k], r.outbox[k], {"status", "error", "request", "reaped"})
  /\ s.calls \subseteq r.calls
  /\ \A c \in r.calls \ s.calls :
       c.current = s.tab.current /\ c.generation = s.tab.generation

\* Nothing added is growth.
LEMMA GrownSame ==
  ASSUME NEW T, NEW q \in Seq(T), NEW kinds PROVE Grown(q, q, kinds)
<1>1. Len(q) \in Nat
  BY LenProperties
<1> QED BY <1>1 DEF Grown

\* A message of one of the kinds is growth.
LEMMA GrownBy ==
  ASSUME NEW T, NEW q \in Seq(T), NEW m \in T, NEW kinds, m.type \in kinds
  PROVE  Grown(q, Append(q, m), kinds)
<1>1. Len(q) \in Nat
  BY LenProperties
<1> QED BY <1>1, AppendProperties DEF Grown

\* Growth upon growth is growth.
LEMMA GrownTwice ==
  ASSUME NEW T, NEW q \in Seq(T), NEW o \in Seq(T), NEW p \in Seq(T), NEW kinds,
         Grown(q, o, kinds), Grown(o, p, kinds)
  PROVE  Grown(q, p, kinds)
<1>1. Len(q) \in Nat /\ Len(o) \in Nat /\ Len(p) \in Nat
  BY LenProperties
<1> QED BY SMTT(40), <1>1 DEF Grown

\* Two calm changes are one.
LEMMA CalmTwice ==
  ASSUME NEW s, NEW r, NEW x, NEW k \in Sessions, Sound(s), Sound(r), Sound(x),
         Calm(s, r, k), Calm(r, x, k)
  PROVE  Calm(s, x, k)
<1>1. Grown(s.inbox[k], x.inbox[k], {"token"})
  BY GrownTwice DEF Calm, Sound, MailOK
<1>2. Grown(s.outbox[k], x.outbox[k], {"status", "error", "request", "reaped"})
  BY GrownTwice DEF Calm, Sound
<1> QED BY <1>1, <1>2 DEF Calm

\* To say something that is no publication is calm.
LEMMA SaidCalm ==
  ASSUME NEW s, Sound(s), NEW k \in Sessions, NEW m \in Outbound, NEW r, Said(s, r, k, m),
         m.type # "message"
  PROVE  Calm(s, r, k)
<1>1. s.inbox[k] \in Seq(Inbound(k)) /\ s.outbox[k] \in Seq(Outbound)
      /\ s.outbox \in [Sessions -> Seq(Outbound)]
  BY DEF Sound, MailOK
<1>2. m.type \in {"status", "error", "request", "reaped"}
  BY DEF Outbound, Plain
<1>3. Grown(s.inbox[k], r.inbox[k], {"token"})
  BY <1>1, GrownSame DEF Said
<1>4. r.outbox[k] = s.outbox[k] \/ r.outbox[k] = Append(s.outbox[k], m)
  BY <1>1 DEF Said
<1>5. Grown(s.outbox[k], r.outbox[k], {"status", "error", "request", "reaped"})
  BY <1>1, <1>2, <1>4, GrownSame, GrownBy
<1> QED BY <1>1, <1>3, <1>5 DEF Said, Calm

\* Nothing calm makes a session forget a topic.
LEMMA CalmInformed ==
  ASSUME NEW s, NEW r, NEW k \in Sessions, Sound(s), Sound(r), Calm(s, r, k), Informed(s)
  PROVE  Informed(r)
<1> SUFFICES ASSUME NEW j \in Sessions, j = r.tab.current, r.session[j].up, NEW t \in Topics
             PROVE  Follows(r.inbox[j], t, r.tab.asked, r.session[j].subs, r.sdk[j].ended)
  BY DEF Informed
<1>1. Follows(s.inbox[j], t, s.tab.asked, s.session[j].subs, s.sdk[j].ended)
  BY DEF Informed, Calm
<1>2. /\ r.tab.asked = s.tab.asked /\ r.session[j].subs = s.session[j].subs
      /\ r.sdk[j].ended = s.sdk[j].ended
  BY DEF Calm
<1>3. r.inbox[j] = s.inbox[j] \/ Grown(s.inbox[j], r.inbox[j], {"token"})
  BY DEF Calm
<1>4. CASE Grown(s.inbox[j], r.inbox[j], {"token"})
  <2> DEFINE q == s.inbox[j]
             o == r.inbox[j]
  <2>1. Len(q) \in Nat /\ Len(o) \in Nat
    BY LenProperties DEF Sound, MailOK
  <2>2. \A i \in 1..Len(o) : i > Len(q) => ~About(o[i], t)
    BY <1>4 DEF Grown, About
  <2>3. Len(q) <= Len(o) /\ \A i \in 1..Len(q) : o[i] = q[i]
    BY <1>4 DEF Grown
  <2>4. \A i \in 1..Len(o) : About(o[i], t) => i \in 1..Len(q)
    BY <2>1, <2>2
  <2> HIDE DEF q, o
  <2>5. Follows(q, t, s.tab.asked, s.session[j].subs, s.sdk[j].ended)
    BY <1>1 DEF q
  <2>6. Follows(o, t, s.tab.asked, s.session[j].subs, s.sdk[j].ended)
    BY <2>1, <2>3, <2>4, <2>5 DEF Follows
  <2> QED BY <1>2, <2>6 DEF o
<1> QED BY <1>1, <1>2, <1>3, <1>4

\* Nothing calm sends or forgets an INIT.
LEMMA CalmBegun ==
  ASSUME NEW s, NEW r, NEW k \in Sessions, Sound(s), Sound(r), Calm(s, r, k), Begun(s)
  PROVE  Begun(r)
<1>1. Len(s.inbox[k]) \in Nat /\ Len(r.inbox[k]) \in Nat /\ r.inbox[k] \in Seq(Inbound(k))
      /\ s.inbox[k] \in Seq(Inbound(k))
  BY LenProperties DEF Sound, MailOK
<1>2. /\ r.session[k].lifecycle = s.session[k].lifecycle /\ r.session[k].up = s.session[k].up
      /\ Grown(s.inbox[k], r.inbox[k], {"token"})
  BY DEF Calm
<1>3. /\ \A i \in 1..Len(s.inbox[k]) :
           s.inbox[k][i].type = "init" => i = 1 /\ s.session[k].lifecycle = 0
      /\ s.session[k].up /\ s.session[k].lifecycle = 0 =>
           s.inbox[k] # <<>> /\ s.inbox[k][1].type = "init"
  BY DEF Begun
<1>4. ASSUME NEW i \in 1..Len(r.inbox[k]), r.inbox[k][i].type = "init"
      PROVE  i = 1 /\ r.session[k].lifecycle = 0
  <2>1. ~(i > Len(s.inbox[k]))
    BY <1>2, <1>4 DEF Grown
  <2>2. i \in 1..Len(s.inbox[k])
    BY <1>1, <2>1
  <2> QED BY <1>2, <1>3, <1>4, <2>2 DEF Grown
<1>5. ASSUME r.session[k].up, r.session[k].lifecycle = 0
      PROVE  r.inbox[k] # <<>> /\ r.inbox[k][1].type = "init"
  <2>1. s.inbox[k] # <<>> /\ s.inbox[k][1].type = "init"
    BY <1>2, <1>3, <1>5
  <2>2. Len(s.inbox[k]) >= 1
    BY <1>1, <2>1, EmptySeq
  <2>3. Len(r.inbox[k]) >= 1 /\ r.inbox[k][1] = s.inbox[k][1]
    BY <1>1, <1>2, <2>2 DEF Grown
  <2> QED BY <1>1, <2>1, <2>3, EmptySeq
<1>6. ASSUME NEW j \in Sessions \ {k}
      PROVE /\ \A i \in 1..Len(r.inbox[j]) :
                 r.inbox[j][i].type = "init" => i = 1 /\ r.session[j].lifecycle = 0
            /\ r.session[j].up /\ r.session[j].lifecycle = 0 =>
                 r.inbox[j] # <<>> /\ r.inbox[j][1].type = "init"
  BY DEF Begun, Calm
<1> QED BY <1>4, <1>5, <1>6 DEF Begun

\* Nothing calm sends or hands on a publication.
LEMMA CalmSingle ==
  ASSUME NEW s, NEW r, NEW k \in Sessions, Sound(s), Sound(r), Calm(s, r, k), NEW n, Single(s, n)
  PROVE  Single(r, n)
<1>1. Len(s.outbox[k]) \in Nat /\ Len(r.outbox[k]) \in Nat
  BY LenProperties DEF Sound
<1>2. ASSUME NEW j \in Sessions, NEW p \in Publications, NEW i \in 1..Len(r.outbox[j]),
             Holds(r, j, i, p)
      PROVE  i \in 1..Len(s.outbox[j]) /\ Holds(s, j, i, p)
  <2>1. CASE j = k
    <3>0. Grown(s.outbox[k], r.outbox[k], {"status", "error", "request", "reaped"})
      BY DEF Calm
    <3>1. ~(i > Len(s.outbox[k]))
      BY <1>2, <2>1, <3>0 DEF Grown, Holds
    <3>2. i \in 1..Len(s.outbox[k])
      BY <1>1, <2>1, <3>1
    <3> QED BY <1>2, <2>1, <3>0, <3>2 DEF Grown, Holds
  <2>2. CASE j # k
    <3>1. r.outbox[j] = s.outbox[j]
      BY <2>2 DEF Calm
    <3> QED BY <1>2, <3>1 DEF Holds
  <2> QED BY <2>1, <2>2
<1>3. r.counts = s.counts
  BY DEF Calm
<1> QED BY <1>2, <1>3 DEF Single

\* So all of Rest is kept.
LEMMA CalmRest ==
  ASSUME NEW s, NEW r, NEW k \in Sessions, Sound(s), Sound(r), Calm(s, r, k), NEW n, Rest(s, n)
  PROVE  Rest(r, n)
<1>1. Timely(r)
  BY DEF Rest, Timely, Calm
<1> QED BY <1>1, CalmInformed, CalmBegun, CalmSingle DEF Rest

----------------------------------------------------------------------------
(* Credentials.                                                            *)

\* What is underway stays underway.
LEMMA CalmUnderway ==
  ASSUME NEW s, NEW r, NEW k \in Sessions, Sound(s), Sound(r), Calm(s, r, k),
         NEW j \in Sessions, NEW q, Underway(s, j, q)
  PROVE  Underway(r, j, q)
<1>1. s.calls \subseteq r.calls
  BY DEF Calm
<1>2. CASE j = k
  <2>1. /\ Len(s.inbox[k]) \in Nat /\ Len(r.inbox[k]) \in Nat
        /\ Len(s.outbox[k]) \in Nat /\ Len(r.outbox[k]) \in Nat
    BY LenProperties DEF Sound, MailOK
  <2>2. /\ Grown(s.inbox[k], r.inbox[k], {"token"})
        /\ Grown(s.outbox[k], r.outbox[k], {"status", "error", "request", "reaped"})
    BY DEF Calm
  <2>3. \A i \in 1..Len(s.inbox[k]) :
          i \in 1..Len(r.inbox[k]) /\ r.inbox[k][i] = s.inbox[k][i]
    BY <2>1, <2>2 DEF Grown
  <2>4. \A i \in 1..Len(s.outbox[k]) :
          i \in 1..Len(r.outbox[k]) /\ r.outbox[k][i] = s.outbox[k][i]
    BY <2>1, <2>2 DEF Grown
  <2> QED BY <1>1, <1>2, <2>3, <2>4 DEF Underway
<1>3. CASE j # k
  <2>1. r.inbox[j] = s.inbox[j] /\ r.outbox[j] = s.outbox[j]
    BY <1>3 DEF Calm
  <2> QED BY <1>1, <2>1 DEF Underway
<1> QED BY <1>2, <1>3

\* A client that keeps waiting, calmly, keeps being answered.
LEMMA CalmAnswered ==
  ASSUME NEW s, NEW r, NEW k \in Sessions, Sound(s), Sound(r), Calm(s, r, k), NEW q,
         AnsweredBut(s, k, q),
         r.sdk[k].need = "asked" =>
           \/ s.sdk[k].need = "asked" /\ s.sdk[k].asked = r.sdk[k].asked /\ s.sdk[k].asked # q
           \/ Underway(r, k, r.sdk[k].asked)
  PROVE  Answered(r)
<1> SUFFICES ASSUME NEW j \in Sessions, r.sdk[j].need = "asked"
             PROVE  Underway(r, j, r.sdk[j].asked)
  BY DEF Answered
<1>1. CASE j = k
  BY <1>1, CalmUnderway DEF AnsweredBut
<1>2. CASE j # k
  <2>1. r.sdk[j] = s.sdk[j]
    BY <1>2 DEF Calm
  <2>2. Underway(s, j, s.sdk[j].asked)
    BY <1>2, <2>1 DEF AnsweredBut
  <2> QED BY <2>1, <2>2, CalmUnderway
<1> QED BY <1>1, <1>2

\* The same, for a function that has no request in its hands.
LEMMA CalmStill ==
  ASSUME NEW s, NEW r, NEW k \in Sessions, Sound(s), Sound(r), Calm(s, r, k), Answered(s),
         r.sdk[k].need = "asked" =>
           \/ s.sdk[k].need = "asked" /\ s.sdk[k].asked = r.sdk[k].asked
           \/ Underway(r, k, r.sdk[k].asked)
  PROVE  Answered(r)
<1>1. AnsweredBut(s, k, 0)
  BY DEF Answered, AnsweredBut
<1>2. s.sdk[k].need = "asked" => s.sdk[k].asked # 0
  <2>1. s.session[k].pending \subseteq Requests
    BY DEF Sound, SessionType
  <2>2. s.session[k].pending = IF s.sdk[k].need = "asked" THEN {s.sdk[k].asked} ELSE {}
    BY DEF Sound, SessionOK
  <2> QED BY <2>1, <2>2 DEF Requests
<1> QED BY <1>1, <1>2, CalmAnswered

\* A session that says something is as it was.
LEMMA SaidAnswered ==
  ASSUME NEW s, Sound(s), NEW k \in Sessions, NEW m \in Outbound, NEW r, Said(s, r, k, m),
         Sound(r), m.type # "message", Answered(s)
  PROVE  Answered(r)
<1>1. Calm(s, r, k)
  BY SaidCalm
<1>2. r.sdk = s.sdk
  BY DEF Said
<1> QED BY <1>1, <1>2, CalmStill

\* A change of one session and its client that leaves messages alone.
LEMMA FieldsSound ==
  ASSUME NEW s, Sound(s), NEW k \in Sessions, NEW S \in SessionType, NEW D \in ClientType,
         SessionOK(k, S, D, k = s.tab.current), S.up = s.session[k].up
  PROVE  Sound([s EXCEPT !.session[k] = S, !.sdk[k] = D])
<1> DEFINE r == [s EXCEPT !.session[k] = S, !.sdk[k] = D]
<1>1. /\ DOMAIN r = Fields /\ r.tab = s.tab /\ r.near = s.near /\ r.inbox = s.inbox
      /\ r.outbox = s.outbox /\ r.calls = s.calls /\ r.told = s.told /\ r.heard = s.heard
      /\ r.counts = s.counts /\ r.session = [s.session EXCEPT ![k] = S]
      /\ r.sdk = [s.sdk EXCEPT ![k] = D]
  BY DEF Sound, Fields
<1> HIDE DEF r
<1>2. TabOK(r)
  BY <1>1 DEF Sound, TabOK
<1>3. /\ r.session \in [Sessions -> SessionType] /\ r.sdk \in [Sessions -> ClientType]
      /\ \A j \in Sessions : r.session[j] = IF j = k THEN S ELSE s.session[j]
      /\ \A j \in Sessions : r.sdk[j] = IF j = k THEN D ELSE s.sdk[j]
  BY <1>1 DEF Sound
<1>4. ASSUME NEW j \in Sessions
      PROVE SessionOK(j, r.session[j], r.sdk[j], j = r.tab.current) /\ MailOK(r, j)
  <2>1. SessionOK(j, s.session[j], s.sdk[j], j = s.tab.current) /\ MailOK(s, j)
    BY DEF Sound
  <2>2. SessionOK(j, r.session[j], r.sdk[j], j = r.tab.current)
    BY <1>1, <1>3, <2>1
  <2>3. r.session[j].up = s.session[j].up
    BY <1>3
  <2>4. MailOK(r, j)
    BY <1>1, <2>1, <2>3 DEF MailOK
  <2> QED BY <2>2, <2>4
<1> QED BY <1>1, <1>2, <1>3, <1>4 DEF Sound, r

\* If it also keeps the topics and the lifecycle, it is calm.
LEMMA FieldsCalm ==
  ASSUME NEW s, Sound(s), NEW k \in Sessions, NEW S \in SessionType, NEW D \in ClientType,
         S.up = s.session[k].up, S.client = s.session[k].client,
         S.lifecycle = s.session[k].lifecycle, S.subs = s.session[k].subs,
         D.ended = s.sdk[k].ended
  PROVE  Calm(s, [s EXCEPT !.session[k] = S, !.sdk[k] = D], k)
<1> DEFINE r == [s EXCEPT !.session[k] = S, !.sdk[k] = D]
<1>1. /\ r.tab = s.tab /\ r.near = s.near /\ r.inbox = s.inbox
      /\ r.outbox = s.outbox /\ r.calls = s.calls
      /\ r.counts = s.counts /\ r.session = [s.session EXCEPT ![k] = S]
      /\ r.sdk = [s.sdk EXCEPT ![k] = D]
  BY DEF Sound, Fields
<1> HIDE DEF r
<1>3. /\ \A j \in Sessions : r.session[j] = IF j = k THEN S ELSE s.session[j]
      /\ \A j \in Sessions : r.sdk[j] = IF j = k THEN D ELSE s.sdk[j]
  BY <1>1 DEF Sound
<1>4. s.inbox[k] \in Seq(Inbound(k)) /\ s.outbox[k] \in Seq(Outbound)
  BY DEF Sound, MailOK
<1>5. /\ Grown(s.inbox[k], r.inbox[k], {"token"})
      /\ Grown(s.outbox[k], r.outbox[k], {"status", "error", "request", "reaped"})
  BY <1>1, <1>4, GrownSame
<1>6. Calm(s, r, k)
  BY <1>1, <1>3, <1>5 DEF Calm
<1> QED BY <1>6 DEF r

\* An answer settles the request that is pending, and no other.
LEMMA SettleTokenSound ==
  ASSUME NEW s, Sound(s), NEW k \in Sessions, NEW r \in Requests, NEW token,
         token \in {NoToken, <<k, r>>}
  PROVE  /\ Sound(SettleToken(s, k, r, token)) /\ Calm(s, SettleToken(s, k, r, token), k)
         /\ AnsweredBut(s, k, r) => Answered(SettleToken(s, k, r, token))
<1> DEFINE S == [s.session[k] EXCEPT !.pending = @ \ {r}]
           D == [s.sdk[k] EXCEPT !.need = IF token = NoToken THEN "refused" ELSE "got",
                                 !.token = token]
           x == [s EXCEPT !.session[k] = S, !.sdk[k] = D]
<1>1. /\ SessionOK(k, s.session[k], s.sdk[k], k = s.tab.current)
      /\ s.session[k] \in SessionType /\ s.sdk[k] \in ClientType
  BY DEF Sound
<1>2. CASE r \in s.session[k].pending
  <2>1. SettleToken(s, k, r, token) = x
    <3>1. /\ DOMAIN s = Fields /\ s.session \in [Sessions -> SessionType]
          /\ s.sdk \in [Sessions -> ClientType]
      BY DEF Sound
    <3> QED BY ZenonT(40), <1>1, <1>2, <3>1 DEF SettleToken, Fields
  <2>2. s.sdk[k].need = "asked" /\ s.sdk[k].asked = r /\ s.session[k].client
    BY <1>1, <1>2 DEF SessionOK
  <2>3. S \in SessionType /\ D \in ClientType
    <3>1. token \in Tokens
      BY DEF Tokens, Requests
    <3> QED BY <1>1, <3>1 DEF SessionType, ClientType
  <2>4. /\ S.up = s.session[k].up /\ S.client = s.session[k].client
        /\ S.lifecycle = s.session[k].lifecycle /\ S.subs = s.session[k].subs
        /\ D.ended = s.sdk[k].ended
    BY <1>1 DEF SessionType, ClientType
  <2>5. SessionOK(k, S, D, k = s.tab.current)
    BY <1>1, <2>2 DEF SessionOK, SessionType, ClientType, NoSession, NoClient
  <2>6. Sound(x)
    BY ZenonT(40), <2>3, <2>4, <2>5, FieldsSound
  <2>7. Calm(s, x, k)
    BY ZenonT(40), <2>3, <2>4, FieldsCalm
  <2>8. x.sdk[k].need # "asked"
    BY <1>1 DEF Sound, Fields, ClientType
  <2> HIDE DEF x
  <2>9. AnsweredBut(s, k, r) => Answered(x)
    BY <2>6, <2>7, <2>8, CalmAnswered
  <2> QED BY <2>1, <2>6, <2>7, <2>9
<1>3. CASE r \notin s.session[k].pending
  <2>1. SettleToken(s, k, r, token) = s
    BY <1>3 DEF SettleToken
  <2>2. Calm(s, s, k)
    BY GrownSame DEF Calm, Sound, MailOK
  <2>3. s.sdk[k].need = "asked" => s.sdk[k].asked # r
    BY <1>1, <1>3 DEF SessionOK
  <2>4. AnsweredBut(s, k, r) => Answered(s)
    BY <2>2, <2>3, CalmAnswered
  <2> QED BY <2>1, <2>2, <2>4
<1> QED BY <1>2, <1>3

\* Send of an answer: it is in the inbox of a session in a worker that is up.
LEMMA SendTokenSound ==
  ASSUME NEW s, Sound(s), NEW k \in Sessions, NEW r \in Requests, NEW token, ~Local,
         token \in {NoToken, <<k, r>>}
  PROVE  LET m == [type |-> "token", request |-> r, token |-> token]
         IN /\ Sound(Send(s, k, m)) /\ Calm(s, Send(s, k, m), k)
            /\ AnsweredBut(s, k, r) => Answered(Send(s, k, m))
<1> DEFINE m == [type |-> "token", request |-> r, token |-> token]
           x == Send(s, k, m)
<1>1. /\ SessionOK(k, s.session[k], s.sdk[k], k = s.tab.current) /\ MailOK(s, k)
      /\ s.inbox[k] \in Seq(Inbound(k)) /\ DOMAIN s = Fields
      /\ s.inbox = [j \in Sessions |-> s.inbox[j]] /\ s.outbox[k] \in Seq(Outbound)
  BY DEF Sound, MailOK
<1>2. m \in Inbound(k) /\ m.type = "token" /\ m.request = r
  BY DEF Inbound, OwnToken, Tokens, Requests
<1>3. CASE s.session[k].up
  <2>1. /\ DOMAIN x = Fields /\ x.tab = s.tab /\ x.near = s.near /\ x.outbox = s.outbox
        /\ x.session = s.session /\ x.sdk = s.sdk /\ x.calls = s.calls
        /\ x.told = s.told /\ x.heard = s.heard /\ x.counts = s.counts
        /\ x.inbox = [s.inbox EXCEPT ![k] = Append(@, m)]
    BY <1>1, <1>3 DEF Send, Fields
  <2> HIDE DEF x, m
  <2>2. /\ x.inbox[k] = Append(s.inbox[k], m)
        /\ \A j \in Sessions \ {k} : x.inbox[j] = s.inbox[j]
        /\ x.inbox = [j \in Sessions |-> x.inbox[j]]
    BY <1>1, <2>1
  <2>3. /\ x.inbox[k] \in Seq(Inbound(k)) /\ Len(s.inbox[k]) \in Nat
        /\ Len(x.inbox[k]) = Len(s.inbox[k]) + 1 /\ x.inbox[k][Len(s.inbox[k]) + 1] = m
    BY <1>1, <1>2, <2>2, AppendProperties, LenProperties
  <2>4. ASSUME NEW j \in Sessions PROVE MailOK(x, j)
    <3>1. MailOK(s, j)
      BY DEF Sound
    <3>2. CASE j = k
      BY <1>3, <2>1, <2>3, <3>1, <3>2 DEF MailOK
    <3>3. CASE j # k
      BY <2>1, <2>2, <3>1, <3>3 DEF MailOK
    <3> QED BY <3>2, <3>3
  <2>5. TabOK(x)
    BY <2>1 DEF Sound, TabOK
  <2>6. Sound(x)
    BY <2>1, <2>2, <2>4, <2>5 DEF Sound
  <2>7. Grown(s.inbox[k], x.inbox[k], {"token"})
    BY <1>1, <1>2, <2>2, GrownBy
  <2>8. Grown(s.outbox[k], x.outbox[k], {"status", "error", "request", "reaped"})
    BY <1>1, <2>1, GrownSame
  <2>9. Calm(s, x, k)
    BY <2>1, <2>2, <2>7, <2>8 DEF Calm
  <2>10. ASSUME AnsweredBut(s, k, r), x.sdk[k].need = "asked", x.sdk[k].asked = r
         PROVE  Underway(x, k, x.sdk[k].asked)
    <3>1. Len(s.inbox[k]) + 1 \in 1..Len(x.inbox[k])
      BY <2>3
    <3> QED BY <1>2, <2>3, <2>10, <3>1 DEF Underway, Answers
  <2>11. AnsweredBut(s, k, r) => Answered(x)
    BY <2>1, <2>6, <2>9, <2>10, CalmAnswered
  <2> QED BY <2>6, <2>9, <2>11 DEF x, m
<1>4. CASE ~s.session[k].up
  <2>1. Send(s, k, m) = s
    BY <1>4 DEF Send
  <2>2. Calm(s, s, k)
    BY GrownSame DEF Calm, Sound, MailOK
  <2>3. s.sdk[k].need # "asked"
    BY <1>1, <1>4 DEF SessionOK, NoClient
  <2>4. AnsweredBut(s, k, r) => Answered(s)
    BY <2>2, <2>3, CalmAnswered
  <2> QED BY <2>1, <2>2, <2>4
<1> QED BY <1>3, <1>4

\* PostToken answers the current session, whose request it is.
LEMMA PostTokenSound ==
  ASSUME NEW s, Sound(s), NEW k \in Sessions, k = s.tab.current, NEW r \in Requests,
         NEW token, token \in {NoToken, <<k, r>>}
  PROVE  /\ Sound(PostToken(s, r, token)) /\ Calm(s, PostToken(s, r, token), k)
         /\ AnsweredBut(s, k, r) => Answered(PostToken(s, r, token))
<1>1. k # None
  BY DEF Sessions, None
<1>2. CASE Local
  <2>1. PostToken(s, r, token) = SettleToken(s, k, r, token)
    BY <1>1, <1>2 DEF PostToken
  <2> QED BY <2>1, SettleTokenSound
<1>3. CASE ~Local
  <2>1. PostToken(s, r, token)
          = Send(s, k, [type |-> "token", request |-> r, token |-> token])
    BY <1>1, <1>3 DEF PostToken
  <2> QED BY <1>3, <2>1, SendTokenSound
<1> QED BY <1>2, <1>3

\* resolveTokenRequest: the provider has the request, or it is refused at once.
LEMMA ResolveTokenRequestSound ==
  ASSUME SetupOK, NEW s, Sound(s), NEW k \in Sessions, k = s.tab.current, NEW r \in Requests,
         setup.provider # "none"
  PROVE  /\ Sound(ResolveTokenRequest(s, k, r)) /\ Calm(s, ResolveTokenRequest(s, k, r), k)
         /\ AnsweredBut(s, k, r) => Answered(ResolveTokenRequest(s, k, r))
<1>1. CASE setup.provider = "throws"
  <2>1. ResolveTokenRequest(s, k, r) = PostToken(s, r, NoToken)
    BY <1>1 DEF ResolveTokenRequest
  <2> QED BY <2>1, PostTokenSound
<1>2. CASE setup.provider = "promise"
  <2> DEFINE c == [of |-> k, request |-> r, generation |-> s.tab.generation,
                   current |-> s.tab.current]
             x == [s EXCEPT !.calls = @ \cup {c}]
  <2>1. ResolveTokenRequest(s, k, r) = x
    BY <1>2 DEF ResolveTokenRequest
  <2>2. CallOK(c) /\ c.of = k /\ c.request = r /\ c.current = s.tab.current
        /\ c.generation = s.tab.generation
    BY <1>2 DEF CallOK, CallType, Sound, TabOK, TabType
  <2>3. /\ DOMAIN x = Fields /\ x.tab = s.tab /\ x.near = s.near /\ x.outbox = s.outbox
        /\ x.session = s.session /\ x.sdk = s.sdk /\ x.inbox = s.inbox
        /\ x.told = s.told /\ x.heard = s.heard /\ x.counts = s.counts
        /\ x.calls = s.calls \cup {c}
    BY DEF Sound, Fields
  <2> HIDE DEF x, c
  <2>4. TabOK(x) /\ \A j \in Sessions : MailOK(x, j)
    BY <2>3 DEF Sound, TabOK, MailOK
  <2>9. c.current <= s.tab.made
    <3>1. s.tab.made = k
      BY DEF Sound, TabOK, Sessions, None
    <3> QED BY <2>2, <3>1 DEF Sessions
  <2>5. Sound(x)
    BY <2>2, <2>3, <2>4, <2>9 DEF Sound
  <2>6. Calm(s, x, k)
    BY <2>2, <2>3, GrownSame DEF Calm, Sound, MailOK
  <2>7. x.sdk[k].asked = r => Underway(x, k, x.sdk[k].asked)
    BY <2>2, <2>3 DEF Underway
  <2>8. AnsweredBut(s, k, r) => Answered(x)
    BY <2>3, <2>5, <2>6, <2>7, CalmAnswered
  <2> QED BY <2>1, <2>5, <2>6, <2>8
<1> QED BY <1>1, <1>2 DEF SetupOK

\* The request of a session that has just become pending is posted.
LEMMA EmitRequestSound ==
  ASSUME SetupOK, NEW s, Sound(s), NEW k \in Sessions, k = s.tab.current, NEW r \in Requests,
         setup.provider # "none", s.session[k].up
  PROVE  LET x == Emit(s, k, [type |-> "request", request |-> r])
         IN Sound(x) /\ Calm(s, x, k) /\ (AnsweredBut(s, k, r) => Answered(x))
<1> DEFINE m == [type |-> "request", request |-> r]
           x == Emit(s, k, m)
<1>1. CASE Local
  <2>1. x = ResolveTokenRequest(s, k, r)
    BY <1>1 DEF Emit, Output
  <2> QED BY <2>1, ResolveTokenRequestSound
<1>2. CASE ~Local
  <2>1. k \in s.near /\ DOMAIN s = Fields /\ s.outbox \in [Sessions -> Seq(Outbound)]
        /\ s.heard.of = s.heard.to
    BY <1>2 DEF Sound, MailOK, TabOK
  <2>2. m \in Outbound /\ m.type = "request" /\ m.request = r
    BY DEF Outbound
  <2>3. x = [s EXCEPT !.outbox[k] = Append(@, m)]
    BY <1>2, <2>1 DEF Emit
  <2> HIDE DEF m, x
  <2>4. Said(s, x, k, m)
    BY <1>2, <2>1, <2>2, <2>3 DEF Said, Fields
  <2>5. Sound(x) /\ Calm(s, x, k)
    BY <2>2, <2>4, SaidSound, SaidCalm
  <2>6. x.outbox[k] = Append(s.outbox[k], m) /\ x.sdk = s.sdk /\ s.outbox[k] \in Seq(Outbound)
    BY <1>2, <2>1, <2>4 DEF Said
  <2>7. /\ Len(s.outbox[k]) + 1 \in 1..Len(x.outbox[k])
        /\ x.outbox[k][Len(s.outbox[k]) + 1] = m
    <3> DEFINE q == s.outbox[k]
               p == x.outbox[k]
    <3>1. q \in Seq(Outbound) /\ p = Append(q, m) /\ m \in Outbound
      BY <2>2, <2>6
    <3> HIDE DEF q, p
    <3>2. Len(q) \in Nat /\ Len(p) = Len(q) + 1 /\ p[Len(q) + 1] = m
      BY <3>1, AppendProperties, LenProperties
    <3>3. Len(q) + 1 \in 1..Len(p)
      BY <3>2
    <3> QED BY <3>2, <3>3 DEF q, p
  <2>8. Underway(x, k, r)
    BY <2>2, <2>7 DEF Underway, Asks
  <2>9. AnsweredBut(s, k, r) => Answered(x)
    BY <2>5, <2>6, <2>8, CalmAnswered
  <2> QED BY <2>5, <2>9 DEF x, m
<1> QED BY <1>1, <1>2

\* requestToken of a session in use: its client had no request and no token.
LEMMA RequestTokenSound ==
  ASSUME SetupOK, NEW s, Sound(s), NEW k \in Sessions, s.session[k].client,
         setup.provider # "none", s.sdk[k].need # "asked", s.sdk[k].token = NoToken,
         s.sdk[k].state # "connected", s.session[k].next <= MaxRequests, Answered(s)
  PROVE  /\ Sound(RequestToken(s, k)) /\ Calm(s, RequestToken(s, k), k)
         /\ Answered(RequestToken(s, k))
<1> DEFINE r == s.session[k].next
           S == [s.session[k] EXCEPT !.pending = @ \cup {r}, !.next = r + 1]
           D == [s.sdk[k] EXCEPT !.need = "asked", !.asked = r]
           x == [s EXCEPT !.session[k] = S, !.sdk[k] = D]
<1>1. /\ SessionOK(k, s.session[k], s.sdk[k], k = s.tab.current)
      /\ s.session[k] \in SessionType /\ s.sdk[k] \in ClientType
  BY DEF Sound
<1>2. s.session[k].lifecycle = 1 /\ k = s.tab.current /\ s.session[k].up
  BY <1>1 DEF SessionOK
<1>3. RequestToken(s, k) = Emit(x, k, [type |-> "request", request |-> r])
  <2> DEFINE z == [s EXCEPT !.session[k].pending = @ \cup {r}, !.session[k].next = r + 1,
                            !.sdk[k].need = "asked", !.sdk[k].asked = r]
  <2>1. /\ DOMAIN s = Fields /\ s.session \in [Sessions -> SessionType]
        /\ s.sdk \in [Sessions -> ClientType]
    BY DEF Sound
  <2>2. z.session = [s.session EXCEPT ![k] = S]
    BY <1>1, <2>1 DEF Fields, SessionType
  <2>3. z.sdk = [s.sdk EXCEPT ![k] = D]
    BY <1>1, <2>1 DEF Fields, ClientType
  <2>4. z = [s EXCEPT !.session = z.session, !.sdk = z.sdk]
    BY ZenonT(40), <2>1 DEF Fields
  <2>5. z = x
    BY <2>2, <2>3, <2>4
  <2> HIDE DEF x, z
  <2>6. RequestToken(s, k) = Emit(z, k, [type |-> "request", request |-> r])
    BY <1>2 DEF RequestToken, z
  <2> QED BY <2>5, <2>6
<1>4. r \in Requests
  BY <1>1, BridgeAssumption DEF SessionType, Requests
<1>5. S \in SessionType /\ D \in ClientType
  <2>1. r + 1 \in 1..(MaxRequests + 1) /\ r \in 0..MaxRequests
    BY <1>4, BridgeAssumption DEF Requests
  <2> HIDE DEF r
  <2> QED BY <1>1, <1>4, <2>1 DEF SessionType, ClientType
<1>6. /\ S.up = s.session[k].up /\ S.client = s.session[k].client
      /\ S.lifecycle = s.session[k].lifecycle /\ S.subs = s.session[k].subs
      /\ D.ended = s.sdk[k].ended
  BY ZenonT(40), <1>1 DEF SessionType, ClientType
<1>7. SessionOK(k, S, D, k = s.tab.current)
  BY ZenonT(40), <1>1, <1>2 DEF SessionOK, SessionType, ClientType
<1>8. Sound(x)
  BY ZenonT(40), <1>5, <1>6, <1>7, FieldsSound
<1>9. Calm(s, x, k)
  BY ZenonT(40), <1>5, <1>6, FieldsCalm
<1>10. /\ x.sdk[k].asked = r /\ x.tab = s.tab /\ x.session[k].up
       /\ \A j \in Sessions \ {k} : x.sdk[j] = s.sdk[j]
  BY <1>1, <1>2 DEF Sound, Fields, ClientType, SessionType
<1> HIDE DEF x, r, S, D
<1>11. AnsweredBut(x, k, r)
  BY <1>8, <1>9, <1>10, CalmUnderway DEF AnsweredBut, Answered
<1> DEFINE y == Emit(x, k, [type |-> "request", request |-> r])
<1>12. Sound(y) /\ Calm(x, y, k) /\ Answered(y)
  BY <1>2, <1>4, <1>8, <1>10, <1>11, EmitRequestSound
<1> HIDE DEF y
<1>13. Calm(s, y, k)
  BY <1>8, <1>9, <1>12, CalmTwice
<1> QED BY <1>3, <1>12, <1>13 DEF y

\* requestToken called by a client that was stopped is refused.
LEMMA RequestTokenRefused ==
  ASSUME NEW s, Sound(s), NEW k \in Sessions, s.session[k].lifecycle = 2, Answered(s)
  PROVE  /\ Sound(RequestToken(s, k)) /\ Calm(s, RequestToken(s, k), k)
         /\ Answered(RequestToken(s, k))
<1> DEFINE S == s.session[k]
           D == [s.sdk[k] EXCEPT !.need = "refused"]
           x == [s EXCEPT !.session[k] = S, !.sdk[k] = D]
<1>1. /\ SessionOK(k, s.session[k], s.sdk[k], k = s.tab.current)
      /\ s.session[k] \in SessionType /\ s.sdk[k] \in ClientType
  BY DEF Sound
<1>2. x = [s EXCEPT !.sdk[k].need = "refused"]
  BY DEF Sound, Fields
<1>3. RequestToken(s, k) = x
  BY <1>2 DEF RequestToken
<1>4. D \in ClientType
  BY <1>1 DEF ClientType
<1>5. SessionOK(k, S, D, k = s.tab.current)
  BY <1>1 DEF SessionOK, SessionType, ClientType, NoSession
<1>6. Sound(x)
  BY ZenonT(40), <1>1, <1>4, <1>5, FieldsSound
<1>7. Calm(s, x, k)
  BY ZenonT(40), <1>1, <1>4, FieldsCalm DEF ClientType
<1>8. x.sdk[k].need # "asked"
  BY <1>1 DEF Sound, Fields, ClientType
<1> HIDE DEF x
<1>9. Answered(x)
  BY <1>6, <1>7, <1>8, CalmStill
<1> QED BY <1>3, <1>6, <1>7, <1>9

\* What comes from a client in use, or from one whose lifecycle is over.
LEMMA FromClientSound ==
  ASSUME SetupOK, NEW s, Sound(s), NEW k \in Sessions, NEW m \in Plain, m.type # "message",
         s.session[k].lifecycle = 1 => k = s.tab.current
  PROVE  LET x == FromClient(s, k, m)
         IN /\ Sound(x) /\ Calm(s, x, k) /\ x.sdk = s.sdk /\ x.session = s.session
            /\ Answered(s) => Answered(x)
<1> DEFINE x == FromClient(s, k, m)
<1>0. m \in Outbound
  BY DEF Outbound
<1>1. CASE s.session[k].lifecycle = 1
  <2>1. x = Emit(s, k, m)
    BY <1>1 DEF FromClient
  <2>2. Said(s, x, k, m) /\ Sound(x)
    BY <1>1, <2>1, EmitSaid
  <2> HIDE DEF x
  <2>3. x.sdk = s.sdk /\ x.session = s.session
    BY <2>2 DEF Said
  <2>4. Calm(s, x, k)
    BY <1>0, <2>2, SaidCalm
  <2>5. Answered(s) => Answered(x)
    BY <1>0, <2>2, SaidAnswered
  <2> QED BY <2>2, <2>3, <2>4, <2>5 DEF x
<1>2. CASE s.session[k].lifecycle # 1
  <2>1. x = s
    BY <1>2 DEF FromClient
  <2>2. Calm(s, s, k)
    BY GrownSame DEF Calm, Sound, MailOK
  <2> QED BY <2>1, <2>2
<1> QED BY <1>1, <1>2

\* What the messages of a session look like.
LEMMA StatusPlain ==
  ASSUME NEW status \in Statuses
  PROVE  Status(status) \in Plain /\ Status(status).type = "status"
         /\ Status(status).status = status
BY DEF Status, Plain

\* The same for an error.
LEMMA ErrorPlain == Error \in Plain /\ Error.type = "error"
BY DEF Error, Plain

\* Dial of a client in use that waits for nothing.
LEMMA DialSound ==
  ASSUME SetupOK, NEW s, Sound(s), NEW k \in Sessions, s.session[k].client,
         s.sdk[k].need # "asked", Answered(s),
         setup.provider # "none" /\ s.sdk[k].token = NoToken
           => s.session[k].next <= MaxRequests
  PROVE  Sound(Dial(s, k)) /\ Calm(s, Dial(s, k), k) /\ Answered(Dial(s, k))
<1> DEFINE S == s.session[k]
           D == [s.sdk[k] EXCEPT !.state = "connecting"]
           x == [s EXCEPT !.session[k] = S, !.sdk[k] = D]
           m == Status("connecting")
           y == FromClient(x, k, m)
<1>1. /\ SessionOK(k, s.session[k], s.sdk[k], k = s.tab.current)
      /\ s.session[k] \in SessionType /\ s.sdk[k] \in ClientType
  BY DEF Sound
<1>2. x = [s EXCEPT !.sdk[k].state = "connecting"]
  BY DEF Sound, Fields
<1>3. Dial(s, k) = IF setup.provider = "none" \/ y.sdk[k].token # NoToken THEN y
                   ELSE RequestToken(y, k)
  BY <1>2 DEF Dial
<1>4. D \in ClientType
  BY <1>1 DEF ClientType
<1>5. SessionOK(k, S, D, k = s.tab.current)
  BY <1>1 DEF SessionOK, SessionType, ClientType
<1>6. Sound(x)
  BY ZenonT(40), <1>1, <1>4, <1>5, FieldsSound
<1>7. Calm(s, x, k)
  BY ZenonT(40), <1>1, <1>4, FieldsCalm DEF ClientType
<1>8. x.sdk[k] = D /\ x.session[k] = S /\ x.tab = s.tab
  BY DEF Sound, Fields
<1>9. D.need = s.sdk[k].need /\ D.asked = s.sdk[k].asked /\ D.token = s.sdk[k].token
      /\ D.state = "connecting"
  BY <1>1 DEF ClientType
<1>10. k = s.tab.current
  BY <1>1 DEF SessionOK
<1> HIDE DEF x, S, D
<1>11. Answered(x)
  BY <1>6, <1>7, <1>8, <1>9, CalmStill
<1>12. m \in Plain /\ m.type # "message"
  BY StatusPlain DEF Statuses
<1> HIDE DEF m
<1>13. /\ Sound(y) /\ Calm(x, y, k) /\ y.sdk = x.sdk /\ y.session = x.session /\ Answered(y)
  BY <1>6, <1>8, <1>10, <1>11, <1>12, FromClientSound
<1>14. /\ y.session[k].client /\ y.sdk[k].need # "asked" /\ y.sdk[k].token = s.sdk[k].token
       /\ y.sdk[k].state # "connected" /\ y.session[k].next = s.session[k].next
  BY <1>8, <1>9, <1>13 DEF S
<1> HIDE DEF y
<1>15. Calm(s, y, k)
  BY <1>6, <1>7, <1>13, CalmTwice
<1>16. CASE setup.provider = "none" \/ y.sdk[k].token # NoToken
  BY <1>3, <1>13, <1>15, <1>16
<1>17. CASE ~(setup.provider = "none" \/ y.sdk[k].token # NoToken)
  <2>1. Sound(RequestToken(y, k)) /\ Calm(y, RequestToken(y, k), k) /\ Answered(RequestToken(y, k))
    BY <1>13, <1>14, <1>17, RequestTokenSound
  <2>2. Calm(s, RequestToken(y, k), k)
    BY <1>13, <1>15, <2>1, CalmTwice
  <2> QED BY <1>3, <1>17, <2>1, <2>2
<1> QED BY <1>16, <1>17

----------------------------------------------------------------------------
(* Messages of the bus.                                                    *)

\* What session k knows of t once it has handled m, and then q.
FollowsAfter(m, q, t, asked, subs, ended) ==
  \/ \E i \in 1..Len(q) :
       /\ About(q[i], t) /\ (q[i].type = "subscribe" <=> t \in asked)
       /\ \A j \in 1..Len(q) : j > i => ~About(q[j], t)
  \/ /\ \A i \in 1..Len(q) : ~About(q[i], t)
     /\ IF About(m, t) THEN m.type = "subscribe" <=> t \in asked
        ELSE t \in subs <=> t \in asked \ ended

\* The first message is the one to handle before the others.
LEMMA FollowsTail ==
  ASSUME NEW T, NEW q \in Seq(T), q # <<>>, NEW t, NEW asked, NEW subs, NEW ended,
         Follows(q, t, asked, subs, ended)
  PROVE  FollowsAfter(Head(q), Tail(q), t, asked, subs, ended)
<1>1. /\ Len(q) \in Nat \ {0} /\ Len(Tail(q)) = Len(q) - 1 /\ Head(q) = q[1]
      /\ \A i \in 1..Len(Tail(q)) : Tail(q)[i] = q[i + 1]
  BY EmptySeq, HeadTailProperties, LenProperties
<1> DEFINE o == Tail(q)
           n == Len(q)
<1>2. n \in Nat \ {0} /\ Len(o) = n - 1 /\ \A i \in 1..(n - 1) : o[i] = q[i + 1]
  BY <1>1
<1> HIDE DEF o, n
<1>3. CASE \A i \in 1..n : ~About(q[i], t)
  <2>1. ~About(q[1], t) /\ \A i \in 1..Len(o) : ~About(o[i], t)
    BY <1>2, <1>3
  <2> QED BY <1>1, <1>3, <2>1 DEF Follows, FollowsAfter, o, n
<1>4. CASE ~\A i \in 1..n : ~About(q[i], t)
  <2>1. PICK i \in 1..n :
          /\ About(q[i], t) /\ (q[i].type = "subscribe" <=> t \in asked)
          /\ \A j \in 1..n : j > i => ~About(q[j], t)
    BY <1>4 DEF Follows, n
  <2>2. CASE i = 1
    <3>1. \A j \in 1..Len(o) : ~About(o[j], t)
      BY <1>2, <2>1, <2>2
    <3> QED BY <1>1, <2>1, <2>2, <3>1 DEF FollowsAfter, o
  <2>3. CASE i # 1
    <3>1. /\ i - 1 \in 1..Len(o) /\ o[i - 1] = q[i]
          /\ \A j \in 1..Len(o) : j > i - 1 => ~About(o[j], t)
      BY <1>2, <2>1, <2>3
    <3> QED BY <2>1, <3>1 DEF FollowsAfter, o
  <2> QED BY <2>2, <2>3
<1> QED BY <1>3, <1>4

Informs(q, asked, subs, ended) == \A t \in Topics : Follows(q, t, asked, subs, ended)

BegunAt(s, k) ==
  /\ \A i \in 1..Len(s.inbox[k]) :
       s.inbox[k][i].type = "init" => i = 1 /\ s.session[k].lifecycle = 0
  /\ s.session[k].up /\ s.session[k].lifecycle = 0 =>
       s.inbox[k] # <<>> /\ s.inbox[k][1].type = "init"

\* All of Rest but what a message changes that session k is handling.
RestBut(s, n, k) ==
  /\ Timely(s) /\ Single(s, n)
  /\ \A j \in Sessions \ {k} : BegunAt(s, j)
  /\ \A i \in 1..Len(s.inbox[k]) : s.inbox[k][i].type # "init"

\* s with another session k and client.
Changed(s, k, S, D) == [s EXCEPT !.session[k] = S, !.sdk[k] = D]

Fits(s, r, n, k, S, D) ==
  /\ Sound(r) /\ Rest(r, n) /\ (Answered(s) => Answered(r))
  /\ r.tab = s.tab /\ r.near = s.near /\ r.session[k] = S /\ r.sdk[k] = D

\* A session that changes its topics as the bus asked.
LEMMA FieldsRest ==
  ASSUME NEW s, Sound(s), NEW k \in Sessions, k = s.tab.current, NEW n, RestBut(s, n, k),
         NEW S \in SessionType, NEW D \in ClientType,
         SessionOK(k, S, D, TRUE), S.up = s.session[k].up, S.lifecycle # 0,
         D.need = s.sdk[k].need, D.asked = s.sdk[k].asked,
         Informs(s.inbox[k], s.tab.asked, S.subs, D.ended)
  PROVE  Fits(s, Changed(s, k, S, D), n, k, S, D)
<1> DEFINE r == Changed(s, k, S, D)
<1>0. SessionOK(k, S, D, k = s.tab.current)
  BY DEF SessionOK
<1>1. Sound(r)
  BY ZenonT(40), <1>0, FieldsSound DEF Changed
<1>2. /\ r.tab = s.tab /\ r.near = s.near /\ r.inbox = s.inbox
      /\ r.outbox = s.outbox /\ r.calls = s.calls
      /\ r.counts = s.counts /\ r.session = [s.session EXCEPT ![k] = S]
      /\ r.sdk = [s.sdk EXCEPT ![k] = D]
  BY DEF Sound, Fields, Changed
<1> HIDE DEF r
<1>3. /\ \A j \in Sessions : r.session[j] = IF j = k THEN S ELSE s.session[j]
      /\ \A j \in Sessions : r.sdk[j] = IF j = k THEN D ELSE s.sdk[j]
  BY <1>2 DEF Sound
<1>4. Informed(r)
  BY <1>2, <1>3 DEF Informed, Informs
<1>5. Begun(r)
  BY <1>2, <1>3 DEF RestBut, BegunAt, Begun
<1>6. Timely(r)
  BY <1>2 DEF RestBut, Timely
<1>7. Single(r, n)
  BY <1>2 DEF RestBut, Single, Holds
<1>8. Answered(s) => Answered(r)
  BY <1>2, <1>3 DEF Answered, Underway
<1> QED BY <1>1, <1>2, <1>3, <1>4, <1>5, <1>6, <1>7, <1>8 DEF Rest, Fits, r

\* Another client and lifecycle make a session of the same type.
LEMMA Relived ==
  ASSUME NEW S0 \in SessionType, NEW b \in BOOLEAN, NEW n \in 0..2
  PROVE  LET S == [S0 EXCEPT !.client = b, !.lifecycle = n]
         IN /\ S \in SessionType /\ S.up = S0.up /\ S.client = b /\ S.lifecycle = n
            /\ S.subs = S0.subs /\ S.pending = S0.pending /\ S.next = S0.next
BY DEF SessionType

\* initialize: the client is created, and dials.
LEMMA InitializeSound ==
  ASSUME SetupOK, NEW s, Sound(s), NEW k \in Sessions, k = s.tab.current, NEW n,
         RestBut(s, n, k), Answered(s), s.session[k].up, s.session[k].lifecycle = 0,
         Informs(s.inbox[k], s.tab.asked, s.session[k].subs, s.sdk[k].ended)
  PROVE  LET r == Initialize(s, k)
         IN /\ Sound(r) /\ Rest(r, n) /\ Answered(r) /\ r.tab = s.tab /\ r.near = s.near
            /\ r.session[k].client
<1> DEFINE S0 == s.session[k]
           S == [S0 EXCEPT !.client = TRUE, !.lifecycle = 1]
           D == s.sdk[k]
           x == Changed(s, k, S, D)
           r == Dial(x, k)
<1>1. /\ SessionOK(k, S0, D, k = s.tab.current) /\ S0.up /\ S0.lifecycle = 0
      /\ S0 \in SessionType /\ D \in ClientType
  BY DEF Sound
<1>2. ~S0.client /\ D = NoClient /\ S0.next = 1
  <2>1. S0.client => S0.lifecycle = 1
    BY ZenonT(40), <1>1 DEF SessionOK
  <2>2. ~S0.client /\ S0.lifecycle <= 1 => D = NoClient /\ S0.next = 1
    BY ZenonT(40), <1>1 DEF SessionOK
  <2> QED BY <1>1, <2>1, <2>2
<1>3. Initialize(s, k) = r
  <2> DEFINE z == [s EXCEPT !.session[k].client = TRUE, !.session[k].lifecycle = @ + 1]
  <2>1. /\ DOMAIN s = Fields /\ s.session \in [Sessions -> SessionType]
        /\ s.sdk = [s.sdk EXCEPT ![k] = D]
    BY DEF Sound
  <2>2. z.session = [s.session EXCEPT ![k] = S]
    BY <1>1, <2>1 DEF Fields, SessionType
  <2>3. z = [s EXCEPT !.session = z.session]
    BY <2>1 DEF Fields
  <2>4. x = [s EXCEPT !.session = [s.session EXCEPT ![k] = S]]
    BY <2>1 DEF Fields, Changed
  <2>5. z = x
    BY ZenonT(40), <2>2, <2>3, <2>4
  <2> HIDE DEF x, z
  <2>6. Initialize(s, k) = Dial(z, k)
    BY <1>2 DEF Initialize, z
  <2> QED BY <2>5, <2>6
<1> HIDE DEF S0, D
<1>4. /\ S \in SessionType /\ S.up = S0.up /\ S.client = TRUE /\ S.lifecycle = 1
      /\ S.subs = S0.subs /\ S.pending = S0.pending /\ S.next = S0.next
  <2>1. TRUE \in BOOLEAN /\ 1 \in 0..2
    OBVIOUS
  <2> QED BY ZenonT(40), <1>1, <2>1, Relived
<1> HIDE DEF S
<1>5. SessionOK(k, S, D, TRUE)
  BY <1>1, <1>2, <1>4 DEF SessionOK, SessionType, NoClient, NoToken
<1>6. /\ S.up = S0.up /\ S.lifecycle # 0 /\ S.subs = S0.subs
      /\ S.client /\ S.next = 1
  BY <1>1, <1>2, <1>4
<1>7. D.need = "none"
  BY <1>2 DEF NoClient
<1>8. /\ Sound(x) /\ Rest(x, n) /\ Answered(x) /\ x.tab = s.tab /\ x.near = s.near
      /\ x.session[k] = S /\ x.sdk[k] = D
  <2>1. /\ S.up = s.session[k].up /\ S.subs = s.session[k].subs
        /\ D.need = s.sdk[k].need /\ D.asked = s.sdk[k].asked /\ D.ended = s.sdk[k].ended
    BY <1>6 DEF S0, D
  <2>2. Informs(s.inbox[k], s.tab.asked, S.subs, D.ended)
    BY <2>1
  <2> HIDE DEF x
  <2>3. S \in SessionType /\ D \in ClientType /\ S.lifecycle # 0
    BY <1>1, <1>4
  <2>4. Fits(s, Changed(s, k, S, D), n, k, S, D)
    BY <1>5, <2>1, <2>2, <2>3, FieldsRest
  <2> QED BY <2>4 DEF Fits, x
<1> HIDE DEF x
<1>9. Sound(r) /\ Calm(x, r, k) /\ Answered(r)
  <2>1. x.session[k].next <= MaxRequests
    BY <1>6, <1>8, BridgeAssumption
  <2> QED BY <1>6, <1>7, <1>8, <2>1, DialSound
<1> HIDE DEF r
<1>10. Rest(r, n)
  BY <1>8, <1>9, CalmRest
<1>11. r.tab = s.tab /\ r.near = s.near /\ r.session[k].client
  BY <1>6, <1>8, <1>9 DEF Calm
<1> QED BY <1>3, <1>9, <1>10, <1>11

\* r is s after session k has handled a message.
Handled(s, r, n, k) ==
  /\ Sound(r) /\ Rest(r, n) /\ Answered(r) /\ r.tab = s.tab /\ r.near = s.near
  /\ r.session[k].client

\* Session k, which runs, has the message m in its hands.
Handles(s, n, k, m) ==
  /\ Sound(s) /\ k = s.tab.current /\ RestBut(s, n, k) /\ s.session[k].client
  /\ \A t \in Topics : FollowsAfter(m, s.inbox[k], t, s.tab.asked, s.session[k].subs,
                                    s.sdk[k].ended)

\* What is known of a client that runs.
LEMMA InUse ==
  ASSUME NEW s, Sound(s), NEW k \in Sessions, s.session[k].client
  PROVE  /\ SessionOK(k, s.session[k], s.sdk[k], TRUE)
         /\ s.session[k].lifecycle = 1 /\ s.session[k].up /\ k = s.tab.current
         /\ s.session[k] \in SessionType /\ s.sdk[k] \in ClientType
         /\ \A t \in s.session[k].subs : s.sdk[k].ears[t] = 1
         /\ s.session[k].subs = s.sdk[k].on
<1>1. /\ SessionOK(k, s.session[k], s.sdk[k], k = s.tab.current)
      /\ s.session[k] \in SessionType /\ s.sdk[k] \in ClientType
  BY DEF Sound
<1>2. s.session[k].lifecycle = 1 /\ s.session[k].up /\ k = s.tab.current
  BY <1>1 DEF SessionOK
<1>3. SessionOK(k, s.session[k], s.sdk[k], TRUE)
  BY ZenonT(40), <1>1, <1>2 DEF SessionOK
<1>4. /\ \A t \in s.session[k].subs : s.sdk[k].ears[t] = 1
      /\ s.session[k].subs = s.sdk[k].on
  BY <1>1 DEF SessionOK
<1> QED BY <1>1, <1>2, <1>3, <1>4

\* A change of the fields of a session that runs is all it takes.
LEMMA FieldsHandled ==
  ASSUME NEW s, Sound(s), NEW k \in Sessions, NEW n, NEW S \in SessionType,
         NEW D \in ClientType, S.client, Fits(s, Changed(s, k, S, D), n, k, S, D), Answered(s)
  PROVE  Handled(s, Changed(s, k, S, D), n, k)
BY DEF Fits, Handled

\* The last change of a session and of its client is what is left.
LEMMA Overwrite ==
  ASSUME NEW s, DOMAIN s = Fields, NEW P, NEW Q, NEW R
  PROVE  LET x == [s EXCEPT !.session = P, !.sdk = Q]
         IN /\ [[s EXCEPT !.sdk = R] EXCEPT !.session = P, !.sdk = Q] = x
            /\ P = s.session => [[s EXCEPT !.sdk = R] EXCEPT !.sdk = Q] = x
BY DEF Fields

\* subscribe, with or without a Subscription for the topic.
LEMMA SubscribeSound ==
  ASSUME SetupOK, NEW s, NEW k \in Sessions, NEW n, NEW t \in Topics, Answered(s),
         NEW m, m.type = "subscribe", m.topic = t, Handles(s, n, k, m)
  PROVE  Handled(s, SessionSubscribe(s, k, t), n, k)
<1> DEFINE S0 == s.session[k]
           D0 == s.sdk[k]
           S == [S0 EXCEPT !.subs = @ \cup {t}]
           D == [D0 EXCEPT !.ended = @ \ {t}, !.ears = [D0.ears EXCEPT ![t] = 1],
                           !.on = @ \cup {t}]
           x == Changed(s, k, S, D)
<1>1. /\ SessionOK(k, S0, D0, TRUE) /\ S0.lifecycle = 1 /\ S0.up /\ S0.client
      /\ S0 \in SessionType /\ D0 \in ClientType
      /\ \A u \in S0.subs : D0.ears[u] = 1
      /\ Sound(s) /\ k = s.tab.current /\ RestBut(s, n, k)
  BY ZenonT(40), InUse DEF Handles
<1>2. /\ S \in SessionType /\ D \in ClientType /\ S.up = S0.up /\ S.client
      /\ S.lifecycle = S0.lifecycle /\ S.subs = S0.subs \cup {t}
      /\ D.need = D0.need /\ D.asked = D0.asked /\ D.ended = D0.ended \ {t}
  <2>1. /\ S \in SessionType /\ S.up = S0.up /\ S.client
        /\ S.lifecycle = S0.lifecycle /\ S.subs = S0.subs \cup {t}
    BY <1>1 DEF SessionType
  <2>2. [D0.ears EXCEPT ![t] = 1] \in [Topics -> 0..1]
    BY <1>1 DEF ClientType
  <2> DEFINE ears == [D0.ears EXCEPT ![t] = 1]
  <2> HIDE DEF ears
  <2>3. /\ D \in ClientType /\ D.need = D0.need /\ D.asked = D0.asked
        /\ D.ended = D0.ended \ {t}
    BY ZenonT(40), <1>1, <2>2 DEF ClientType, ears
  <2> QED BY <2>1, <2>3
<1>3. SessionOK(k, S, D, TRUE)
  BY ZenonT(40), <1>1 DEF SessionOK, SessionType, ClientType
<1>4. SessionSubscribe(s, k, t) = x
  <2>1. /\ DOMAIN s = Fields /\ s.session \in [Sessions -> SessionType]
        /\ s.sdk \in [Sessions -> ClientType]
    BY <1>1 DEF Sound
  <2> DEFINE E == [D0 EXCEPT !.ended = @ \ {t}]
             a == [s EXCEPT !.sdk[k].ended = @ \ {t}]
  <2>2. /\ a.sdk = [s.sdk EXCEPT ![k] = E] /\ a.session = s.session
        /\ a = [s EXCEPT !.sdk = a.sdk] /\ DOMAIN a = Fields
    BY <2>1 DEF Fields
  <2> HIDE DEF a
  <2>3. x = [s EXCEPT !.session = [s.session EXCEPT ![k] = S],
                      !.sdk = [s.sdk EXCEPT ![k] = D]]
    BY <2>1 DEF Fields, Changed
  <2>4. D = [E EXCEPT !.ears = [D0.ears EXCEPT ![t] = 1], !.on = @ \cup {t}]
    BY <1>1 DEF ClientType
  <2>5. E \in ClientType /\ E.ears = D0.ears /\ E.on = D0.on
    BY ZenonT(40), <1>1 DEF ClientType
  <2> HIDE DEF x, E, D, S0, D0
  <2>6. CASE t \in S0.subs
    <3> DEFINE z == [a EXCEPT !.sdk[k].on = @ \cup {t}]
    <3>1. SessionSubscribe(s, k, t) = z
      BY <1>1, <2>6 DEF SessionSubscribe, a, S0
    <3>2. [D0.ears EXCEPT ![t] = 1] = D0.ears
      BY <1>1, <2>6 DEF ClientType
    <3>3. D = [E EXCEPT !.on = @ \cup {t}]
      BY <2>4, <2>5, <3>2 DEF ClientType
    <3>4. z.sdk = [a.sdk EXCEPT ![k] = D] /\ z = [a EXCEPT !.sdk = z.sdk]
      BY <2>1, <2>2, <3>3 DEF Fields
    <3>5. S = S0
      BY <1>1, <2>6 DEF SessionType
    <3>6. s.session = [s.session EXCEPT ![k] = S]
      BY <2>1, <3>5 DEF S0
    <3> HIDE DEF z
    <3>7. z = x
      <4> DEFINE P == [s.session EXCEPT ![k] = S]
                 Q == [s.sdk EXCEPT ![k] = D]
                 R == a.sdk
      <4>1. x = [s EXCEPT !.session = P, !.sdk = Q] /\ P = s.session
            /\ a = [s EXCEPT !.sdk = R] /\ DOMAIN s = Fields
        BY <2>1, <2>2, <2>3, <3>6
      <4>2. [a.sdk EXCEPT ![k] = D] = Q
        BY <2>1, <2>2
      <4>3. z = [a EXCEPT !.sdk = Q]
        BY <3>4, <4>2
      <4> HIDE DEF P, Q, R
      <4> QED BY ZenonT(40), <4>1, <4>3, Overwrite
    <3> QED BY <3>1, <3>7
  <2>7. CASE t \notin S0.subs
    <3> DEFINE z == [a EXCEPT !.session[k].subs = @ \cup {t}, !.sdk[k].ears[t] = 1,
                              !.sdk[k].on = @ \cup {t}]
    <3>1. SessionSubscribe(s, k, t) = z
      BY <1>1, <2>7 DEF SessionSubscribe, Listen, a, S0
    <3>2. z.sdk = [a.sdk EXCEPT ![k] = D]
      BY ZenonT(40), <2>1, <2>2, <2>4, <2>5 DEF Fields, ClientType
    <3>3. z.session = [s.session EXCEPT ![k] = S]
      BY <1>1, <2>1, <2>2 DEF Fields, SessionType, S0
    <3>4. z = [a EXCEPT !.session = z.session, !.sdk = z.sdk]
      <4> DEFINE P == [a.session EXCEPT ![k].subs = @ \cup {t}]
                 Q == [a.sdk EXCEPT ![k].ears[t] = 1]
                 R == [Q EXCEPT ![k].on = @ \cup {t}]
      <4>1. DOMAIN a = Fields
        BY <2>2
      <4>2. z = [a EXCEPT !.session = P, !.sdk = R]
        <5>1. z = [[[a EXCEPT !.session = P] EXCEPT !.sdk = Q] EXCEPT !.sdk[k].on = @ \cup {t}]
          BY <4>1 DEF Fields
        <5> HIDE DEF Q, P, z
        <5> QED BY ZenonT(40), <4>1, <5>1 DEF Fields
      <4> HIDE DEF P, Q, R, z
      <4> QED BY <4>1, <4>2 DEF Fields
    <3> HIDE DEF z
    <3>5. z = x
      <4> DEFINE P == [s.session EXCEPT ![k] = S]
                 Q == [s.sdk EXCEPT ![k] = D]
                 R == a.sdk
      <4>1. x = [s EXCEPT !.session = P, !.sdk = Q]
            /\ a = [s EXCEPT !.sdk = R] /\ DOMAIN s = Fields
        BY <2>1, <2>2, <2>3
      <4>2. [a.sdk EXCEPT ![k] = D] = Q
        BY <2>1, <2>2
      <4>3. z = [a EXCEPT !.session = P, !.sdk = Q]
        BY <3>2, <3>3, <3>4, <4>2
      <4> HIDE DEF P, Q, R
      <4> QED BY ZenonT(40), <4>1, <4>3, Overwrite
    <3> QED BY <3>1, <3>5
  <2> QED BY <2>6, <2>7
<1> HIDE DEF x, S, D
<1>5. ASSUME NEW u \in Topics
      PROVE  Follows(s.inbox[k], u, s.tab.asked, S.subs, D.ended)
  <2>1. FollowsAfter(m, s.inbox[k], u, s.tab.asked, S0.subs, D0.ended)
    BY DEF Handles
  <2>2. CASE u = t
    BY <1>2, <2>1, <2>2 DEF FollowsAfter, Follows, About
  <2>3. CASE u # t
    BY <1>2, <2>1, <2>3 DEF FollowsAfter, Follows, About
  <2> QED BY <2>2, <2>3
<1>6. Informs(s.inbox[k], s.tab.asked, S.subs, D.ended)
  BY <1>5 DEF Informs
<1>7. Fits(s, Changed(s, k, S, D), n, k, S, D)
  <2>1. S.up = s.session[k].up /\ S.lifecycle # 0 /\ D.need = s.sdk[k].need
        /\ D.asked = s.sdk[k].asked
    <3> HIDE DEF S0, D0
    <3>1. S.lifecycle # 0 /\ S.up = S0.up /\ D.need = D0.need /\ D.asked = D0.asked
      BY <1>1, <1>2
    <3> QED BY <3>1 DEF S0, D0
  <2> QED BY ZenonT(40), <1>1, <1>2, <1>3, <1>6, <2>1, FieldsRest
<1>8. Handled(s, x, n, k)
  BY <1>1, <1>2, <1>7, FieldsHandled DEF x
<1> QED BY <1>4, <1>8

\* unsubscribe, of a topic the session tracks or not.
LEMMA UnsubscribeSound ==
  ASSUME SetupOK, NEW s, NEW k \in Sessions, NEW n, NEW t \in Topics, Answered(s),
         NEW m, m.type = "unsubscribe", m.topic = t, Handles(s, n, k, m)
  PROVE  Handled(s, SessionUnsubscribe(s, k, t), n, k)
<1> DEFINE S0 == s.session[k]
           D0 == s.sdk[k]
           S == [S0 EXCEPT !.subs = @ \ {t}]
           D == [D0 EXCEPT !.ears = [D0.ears EXCEPT ![t] = 0], !.on = @ \ {t}]
           x == Changed(s, k, S, D)
<1>1. /\ SessionOK(k, S0, D0, TRUE) /\ S0.lifecycle = 1 /\ S0.up /\ S0.client
      /\ S0 \in SessionType /\ D0 \in ClientType
      /\ \A u \in S0.subs : D0.ears[u] = 1
      /\ Sound(s) /\ k = s.tab.current /\ RestBut(s, n, k)
  BY ZenonT(40), InUse DEF Handles
<1>2. /\ S \in SessionType /\ D \in ClientType /\ S.up = S0.up /\ S.client
      /\ S.lifecycle = S0.lifecycle /\ S.subs = S0.subs \ {t}
      /\ D.need = D0.need /\ D.asked = D0.asked /\ D.ended = D0.ended
  <2>1. /\ S \in SessionType /\ S.up = S0.up /\ S.client
        /\ S.lifecycle = S0.lifecycle /\ S.subs = S0.subs \ {t}
    BY <1>1 DEF SessionType
  <2>2. [D0.ears EXCEPT ![t] = 0] \in [Topics -> 0..1]
    BY <1>1 DEF ClientType
  <2> DEFINE ears == [D0.ears EXCEPT ![t] = 0]
  <2> HIDE DEF ears
  <2>3. /\ D \in ClientType /\ D.need = D0.need /\ D.asked = D0.asked
        /\ D.ended = D0.ended
    BY ZenonT(40), <1>1, <2>2 DEF ClientType, ears
  <2> QED BY <2>1, <2>3
<1>3. SessionOK(k, S, D, TRUE)
  BY ZenonT(40), <1>1 DEF SessionOK, SessionType, ClientType
<1>4. SessionUnsubscribe(s, k, t) = x
  <2> DEFINE z == SessionUnsubscribe(s, k, t)
             P == [s.session EXCEPT ![k].subs = @ \ {t}]
             Q == [s.sdk EXCEPT ![k].ears[t] = 0]
             R == [Q EXCEPT ![k].on = @ \ {t}]
  <2>1. /\ DOMAIN s = Fields /\ s.session \in [Sessions -> SessionType]
        /\ s.sdk \in [Sessions -> ClientType]
    BY <1>1 DEF Sound
  <2>2. P = [s.session EXCEPT ![k] = S] /\ R = [s.sdk EXCEPT ![k] = D]
    BY ZenonT(40), <1>1, <2>1 DEF SessionType, ClientType
  <2>3. z = [s EXCEPT !.session = P, !.sdk = R]
    <3>1. z = [[[s EXCEPT !.session = P] EXCEPT !.sdk = Q] EXCEPT !.sdk[k].on = @ \ {t}]
      BY <2>1 DEF SessionUnsubscribe, Fields
    <3> HIDE DEF Q, P, z
    <3> QED BY <2>1, <3>1 DEF Fields
  <2>4. x = [s EXCEPT !.session = [s.session EXCEPT ![k] = S],
                      !.sdk = [s.sdk EXCEPT ![k] = D]]
    BY <2>1 DEF Fields, Changed
  <2> HIDE DEF P, R, S, D, x, z
  <2>5. z = x
    BY <2>2, <2>3, <2>4
  <2> QED BY <2>5 DEF z
<1> HIDE DEF x, S, D
<1>5. ASSUME NEW u \in Topics
      PROVE  Follows(s.inbox[k], u, s.tab.asked, S.subs, D.ended)
  <2>1. FollowsAfter(m, s.inbox[k], u, s.tab.asked, S0.subs, D0.ended)
    BY DEF Handles
  <2>2. CASE u = t
    BY <1>2, <2>1, <2>2 DEF FollowsAfter, Follows, About
  <2>3. CASE u # t
    BY <1>2, <2>1, <2>3 DEF FollowsAfter, Follows, About
  <2> QED BY <2>2, <2>3
<1>6. Informs(s.inbox[k], s.tab.asked, S.subs, D.ended)
  BY <1>5 DEF Informs
<1>7. Fits(s, Changed(s, k, S, D), n, k, S, D)
  <2>1. S.up = s.session[k].up /\ S.lifecycle # 0 /\ D.need = s.sdk[k].need
        /\ D.asked = s.sdk[k].asked
    <3> HIDE DEF S0, D0
    <3>1. S.lifecycle # 0 /\ S.up = S0.up /\ D.need = D0.need /\ D.asked = D0.asked
      BY <1>1, <1>2
    <3> QED BY <3>1 DEF S0, D0
  <2> QED BY ZenonT(40), <1>1, <1>2, <1>3, <1>6, <2>1, FieldsRest
<1>8. Handled(s, x, n, k)
  BY <1>1, <1>2, <1>7, FieldsHandled DEF x
<1> QED BY <1>4, <1>8

\* When the message is not about a topic, nothing is missing in Rest.
LEMMA HandlesRest ==
  ASSUME NEW s, NEW k \in Sessions, NEW n, NEW m, m.type \in {"publish", "token"},
         Handles(s, n, k, m)
  PROVE  Rest(s, n)
<1>1. s.session[k].lifecycle = 1 /\ s.tab.current = k
  BY InUse DEF Handles
<1>2. Informed(s)
  BY <1>1 DEF Handles, Informed, FollowsAfter, Follows, About
<1>3. BegunAt(s, k)
  BY <1>1 DEF Handles, RestBut, BegunAt
<1>4. Begun(s)
  BY <1>3 DEF Handles, RestBut, BegunAt, Begun
<1> QED BY <1>2, <1>4 DEF Rest, Handles, RestBut

\* publish: one more promise of the client.
LEMMA PublishSound ==
  ASSUME SetupOK, NEW s, NEW k \in Sessions, NEW n, Answered(s),
         NEW m, m.type = "publish", Handles(s, n, k, m)
  PROVE  Handled(s, SessionPublish(s, k), n, k)
<1> DEFINE S == s.session[k]
           D == [s.sdk[k] EXCEPT !.flying = @ + 1]
           x == [s EXCEPT !.session[k] = S, !.sdk[k] = D]
<1>1. /\ SessionOK(k, S, s.sdk[k], TRUE) /\ S.client /\ s.tab.current = k
      /\ S \in SessionType /\ s.sdk[k] \in ClientType /\ Sound(s)
  BY InUse DEF Handles
<1>2. SessionPublish(s, k) = x
  BY <1>1 DEF SessionPublish, Sound, Fields
<1>3. D \in ClientType /\ D.ended = s.sdk[k].ended /\ D.need = s.sdk[k].need
      /\ D.asked = s.sdk[k].asked
  BY <1>1 DEF ClientType
<1>4. SessionOK(k, S, D, TRUE)
  BY <1>1 DEF SessionOK, ClientType
<1>5. SessionOK(k, S, D, k = s.tab.current)
  BY <1>1, <1>4 DEF SessionOK
<1>6. Sound(x) /\ Calm(s, x, k)
  BY ZenonT(40), <1>1, <1>3, <1>5, FieldsSound, FieldsCalm
<1>7. x.sdk[k] = D /\ x.session[k] = S /\ x.tab = s.tab /\ x.near = s.near
  BY <1>1 DEF Sound, Fields
<1> HIDE DEF x, D, S
<1>8. Answered(x)
  BY <1>1, <1>3, <1>6, <1>7, CalmStill
<1>9. Rest(x, n)
  BY <1>1, <1>6, HandlesRest, CalmRest
<1> QED BY <1>1, <1>2, <1>6, <1>7, <1>8, <1>9 DEF Handled

\* TOKEN_RESPONSE and TOKEN_ERROR.
LEMMA TokenSound ==
  ASSUME SetupOK, NEW s, NEW k \in Sessions, NEW n, NEW m \in Inbound(k), m.type = "token",
         AnsweredBut(s, k, m.request), Handles(s, n, k, m)
  PROVE  Handled(s, SettleToken(s, k, m.request, m.token), n, k)
<1>1. m.request \in Requests /\ m.token \in {NoToken, <<k, m.request>>}
  BY DEF Inbound, OwnToken
<1> DEFINE x == SettleToken(s, k, m.request, m.token)
<1>2. Sound(s) /\ s.session[k].client
  BY DEF Handles
<1>3. Sound(x) /\ Calm(s, x, k) /\ Answered(x)
  BY <1>1, <1>2, SettleTokenSound
<1> HIDE DEF x
<1>4. Rest(x, n)
  BY <1>2, <1>3, HandlesRest, CalmRest
<1>5. x.tab = s.tab /\ x.near = s.near /\ x.session[k].client
  BY <1>2, <1>3 DEF Calm
<1> QED BY <1>3, <1>4, <1>5 DEF Handled, x

\* Session k, which is up and current, has the message m in its hands.
Takes(s, n, k, m) ==
  /\ Sound(s) /\ k = s.tab.current /\ RestBut(s, n, k) /\ s.session[k].up
  /\ m.type = "init" => s.session[k].lifecycle = 0
  /\ m.type # "init" => s.session[k].client
  /\ m.type = "token" => AnsweredBut(s, k, m.request)
  /\ m.type # "token" => Answered(s)
  /\ \A t \in Topics : FollowsAfter(m, s.inbox[k], t, s.tab.asked, s.session[k].subs,
                                    s.sdk[k].ended)

\* handle, for every message but STOP.
LEMMA HandleSound ==
  ASSUME SetupOK, NEW s, NEW k \in Sessions, NEW n, NEW m \in Inbound(k), Takes(s, n, k, m)
  PROVE  Handled(s, Handle(s, k, m), n, k)
<1>1. m.type # "init" => Handles(s, n, k, m)
  BY DEF Takes, Handles
<1>2. CASE m.type = "init"
  <2>1. Handle(s, k, m) = Initialize(s, k)
    BY <1>2 DEF Handle
  <2>2. Informs(s.inbox[k], s.tab.asked, s.session[k].subs, s.sdk[k].ended)
    BY <1>2 DEF Takes, Informs, FollowsAfter, Follows, About
  <2> DEFINE r == Initialize(s, k)
  <2>3. /\ Sound(r) /\ Rest(r, n) /\ Answered(r) /\ r.tab = s.tab /\ r.near = s.near
        /\ r.session[k].client
    BY <1>2, <2>2, InitializeSound DEF Takes
  <2> HIDE DEF r
  <2>4. Handled(s, r, n, k)
    BY <2>3 DEF Handled
  <2> QED BY <2>1, <2>4 DEF r
<1>3. CASE m.type = "subscribe"
  <2>1. Handle(s, k, m) = SessionSubscribe(s, k, m.topic) /\ m.topic \in Topics
    BY <1>3 DEF Handle, Inbound
  <2>2. Answered(s)
    BY <1>3 DEF Takes
  <2> QED BY <1>1, <1>3, <2>1, <2>2, SubscribeSound
<1>4. CASE m.type = "unsubscribe"
  <2>1. Handle(s, k, m) = SessionUnsubscribe(s, k, m.topic) /\ m.topic \in Topics
    BY <1>4 DEF Handle, Inbound
  <2>2. Answered(s)
    BY <1>4 DEF Takes
  <2> QED BY <1>1, <1>4, <2>1, <2>2, UnsubscribeSound
<1>5. CASE m.type = "publish"
  <2>1. Handle(s, k, m) = SessionPublish(s, k)
    BY <1>5 DEF Handle
  <2>2. Answered(s)
    BY <1>5 DEF Takes
  <2> QED BY <1>1, <1>5, <2>1, <2>2, PublishSound
<1>6. CASE m.type = "token"
  <2>1. Handle(s, k, m) = SettleToken(s, k, m.request, m.token)
    BY <1>6 DEF Handle
  <2>2. AnsweredBut(s, k, m.request)
    BY <1>6 DEF Takes
  <2> QED BY <1>1, <1>6, <2>1, <2>2, TokenSound
<1>7. m.type \in {"init", "publish", "subscribe", "unsubscribe", "token"}
  BY DEF Inbound
<1> QED BY <1>2, <1>3, <1>4, <1>5, <1>6, <1>7

----------------------------------------------------------------------------
(* The invariant, as a fact about a state record.                          *)

\* There is a backend exactly while the transport listens; a client of the tab
\* itself is created with it and stopped with it.
Backed(s) ==
  /\ s.tab.backend => /\ s.tab.current # None /\ s.near = {s.tab.current}
                      /\ Local => s.session[s.tab.current].client
  /\ ~s.tab.backend => /\ s.near = {} /\ s.tab.asked = {}
                       /\ ~Local => s.tab.current = None
                       /\ s.tab.current # None => ~s.session[s.tab.current].client

Good(s, n) == Sound(s) /\ Answered(s) /\ Rest(s, n) /\ Backed(s)

\* A calm step keeps it.
LEMMA CalmGood ==
  ASSUME NEW s, NEW r, NEW k \in Sessions, NEW n, Good(s, n), Sound(r), Calm(s, r, k),
         Answered(r)
  PROVE  Good(r, n)
<1>1. Rest(r, n)
  BY CalmRest DEF Good
<1>2. s.tab.current # None => s.tab.current \in Sessions
  BY DEF Good, Sound, TabOK, TabType, Sessions, None
<1>3. \A j \in Sessions : r.session[j].client = s.session[j].client
  BY DEF Calm
<1>4. r.tab = s.tab /\ r.near = s.near
  BY DEF Calm
<1>5. Backed(r)
  BY <1>2, <1>3, <1>4 DEF Good, Backed
<1> QED BY <1>1, <1>5 DEF Good

\* So does a message that the current session has handled.
LEMMA HandledGood ==
  ASSUME NEW s, NEW r, NEW k \in Sessions, NEW n, Handled(s, r, n, k), s.tab.current = k,
         s.near = {k}, s.tab.backend
  PROVE  Good(r, n)
<1>1. k # None
  BY DEF Sessions, None
<1> QED BY <1>1 DEF Handled, Good, Backed

\* Who listens, and to whom.
LEMMA Current ==
  ASSUME SetupOK, NEW s, NEW n, Good(s, n), NEW k \in Sessions, k \in s.near
  PROVE  s.tab.backend /\ k = s.tab.current /\ s.near = {k} /\ s.tab.handlers = k
         /\ s.tab.made = k
<1>1. k # None
  BY DEF Sessions, None
<1> QED BY <1>1 DEF Good, Backed, Sound, TabOK

\* The first message in an inbox is the next to be handled.
LEMMA ReceiveTakes ==
  ASSUME SetupOK, NEW h, NEW n, Good(h, n), NEW k \in Sessions, h.session[k].up,
         h.inbox[k] # <<>>
  PROVE  LET s == [h EXCEPT !.inbox[k] = Tail(@)]
         IN /\ Takes(s, n, k, Head(h.inbox[k])) /\ Head(h.inbox[k]) \in Inbound(k)
            /\ s.tab.current = k /\ s.near = {k} /\ s.tab.backend
<1> DEFINE s == [h EXCEPT !.inbox[k] = Tail(@)]
           q == h.inbox[k]
           m == Head(q)
           o == Tail(q)
<1>1. Sound(h) /\ Answered(h) /\ Rest(h, n) /\ DOMAIN h = Fields
      /\ h.inbox = [j \in Sessions |-> h.inbox[j]]
  BY DEF Good, Sound
<1>2. MailOK(h, k) /\ SessionOK(k, h.session[k], h.sdk[k], k = h.tab.current)
  BY <1>1 DEF Sound
<1>3. ~Local /\ k \in h.near /\ q \in Seq(Inbound(k))
  BY <1>2 DEF MailOK
<1>4. h.tab.backend /\ k = h.tab.current /\ h.near = {k}
  BY <1>3, Current
<1>5. /\ DOMAIN s = Fields /\ s.tab = h.tab /\ s.near = h.near /\ s.outbox = h.outbox
      /\ s.session = h.session /\ s.sdk = h.sdk /\ s.calls = h.calls
      /\ s.told = h.told /\ s.heard = h.heard /\ s.counts = h.counts
      /\ s.inbox = [h.inbox EXCEPT ![k] = o]
  BY <1>1 DEF Fields
<1>6. /\ Len(q) \in Nat \ {0} /\ o \in Seq(Inbound(k)) /\ Len(o) = Len(q) - 1
      /\ m \in Inbound(k) /\ m = q[1] /\ \A i \in 1..Len(o) : o[i] = q[i + 1]
  BY <1>3, EmptySeq, HeadTailProperties, LenProperties
<1>7. q # <<>>
  OBVIOUS
<1>8. \A i \in 1..Len(q) : q[i].type = "init" => i = 1 /\ h.session[k].lifecycle = 0
  BY <1>1 DEF Rest, Begun
<1>9. h.session[k].lifecycle = 0 => q[1].type = "init"
  BY <1>1 DEF Rest, Begun
<1> HIDE DEF s
<1>10. /\ s.inbox[k] = o /\ \A j \in Sessions \ {k} : s.inbox[j] = h.inbox[j]
       /\ s.inbox = [j \in Sessions |-> s.inbox[j]]
  BY <1>1, <1>5
<1>11. Sound(s)
  <2>1. ASSUME NEW j \in Sessions PROVE MailOK(s, j)
    <3>1. MailOK(h, j)
      BY <1>1 DEF Sound
    <3>2. CASE j = k
      BY <1>3, <1>5, <1>6, <1>10, <3>1, <3>2 DEF MailOK
    <3>3. CASE j # k
      BY <1>5, <1>10, <3>1, <3>3 DEF MailOK
    <3> QED BY <3>2, <3>3
  <2>2. TabOK(s)
    BY <1>1, <1>5 DEF Sound, TabOK
  <2> QED BY <1>1, <1>5, <1>10, <2>1, <2>2 DEF Sound
<1>12. RestBut(s, n, k)
  <2>1. Timely(s) /\ Single(s, n)
    BY <1>1, <1>5 DEF Rest, Timely, Single, Holds
  <2>2. \A j \in Sessions \ {k} : BegunAt(s, j)
    BY <1>1, <1>5, <1>10 DEF Rest, Begun, BegunAt
  <2>3. ASSUME NEW i \in 1..Len(o) PROVE o[i].type # "init"
    <3>1. i + 1 \in 1..Len(q) /\ i + 1 # 1
      BY <1>6
    <3> HIDE DEF o, q
    <3> QED BY <1>6, <1>8, <3>1
  <2> QED BY <1>10, <2>1, <2>2, <2>3 DEF RestBut
<1>13. /\ m.type = "init" => h.session[k].lifecycle = 0
       /\ m.type # "init" => h.session[k].client
  <2>1. 1 \in 1..Len(q)
    BY <1>6
  <2>2. m.type # "init" => h.session[k].lifecycle # 0
    BY <1>6, <1>9
  <2> QED BY <1>2, <1>3, <1>6, <1>8, <2>1, <2>2 DEF SessionOK
<1>14. ASSUME NEW j \in Sessions, NEW r, Underway(h, j, r), ~(j = k /\ Answers(m, r))
       PROVE  Underway(s, j, r)
  <2>1. CASE \E i \in 1..Len(h.inbox[j]) : Answers(h.inbox[j][i], r)
    <3>1. CASE j # k
      BY <1>10, <2>1, <3>1 DEF Underway
    <3>2. CASE j = k
      <4>1. PICK i \in 1..Len(q) : Answers(q[i], r)
        BY <2>1, <3>2
      <4>2. i # 1
        BY <1>6, <1>14, <3>2, <4>1
      <4>3. i - 1 \in 1..Len(o) /\ o[i - 1] = q[i]
        BY <1>6, <4>2
      <4>4. \E l \in 1..Len(o) : Answers(o[l], r)
        BY <4>1, <4>3
      <4> HIDE DEF o, q, m
      <4> QED BY <1>10, <3>2, <4>4 DEF Underway
    <3> QED BY <3>1, <3>2
  <2>2. CASE ~\E i \in 1..Len(h.inbox[j]) : Answers(h.inbox[j][i], r)
    BY <1>5, <1>14, <2>2 DEF Underway
  <2> QED BY <2>1, <2>2
<1>15. /\ m.type = "token" => AnsweredBut(s, k, m.request)
       /\ m.type # "token" => Answered(s)
  BY <1>1, <1>5, <1>14 DEF Answered, AnsweredBut, Answers
<1>16. ASSUME NEW t \in Topics
       PROVE  FollowsAfter(m, o, t, h.tab.asked, h.session[k].subs, h.sdk[k].ended)
  <2>1. Follows(q, t, h.tab.asked, h.session[k].subs, h.sdk[k].ended)
    BY <1>1, <1>4 DEF Rest, Informed
  <2> QED BY <1>3, <1>7, <2>1, FollowsTail
<1> HIDE DEF m, o
<1>17. Takes(s, n, k, m)
  BY <1>4, <1>5, <1>10, <1>11, <1>12, <1>13, <1>15, <1>16 DEF Takes
<1> QED BY <1>4, <1>5, <1>6, <1>17 DEF s, m

\* Receive.
LEMMA ReceiveGood ==
  ASSUME SetupOK, NEW h, NEW n, Good(h, n), NEW k \in Sessions, h.session[k].up,
         h.inbox[k] # <<>>
  PROVE  Good(Handle([h EXCEPT !.inbox[k] = Tail(@)], k, Head(h.inbox[k])), n)
<1> DEFINE s == [h EXCEPT !.inbox[k] = Tail(@)]
           m == Head(h.inbox[k])
<1>1. /\ Takes(s, n, k, m) /\ m \in Inbound(k) /\ s.tab.current = k /\ s.near = {k}
      /\ s.tab.backend
  BY ReceiveTakes
<1> HIDE DEF s, m
<1>2. Handled(s, Handle(s, k, m), n, k)
  BY <1>1, HandleSound
<1>3. Good(Handle(s, k, m), n)
  BY <1>1, <1>2, HandledGood
<1> QED BY <1>3 DEF s, m

----------------------------------------------------------------------------
(* Calls of the bus.                                                       *)

\* s with m at the end of an inbox.
Sent(s, y, k, m) ==
  /\ DOMAIN y = Fields /\ y.tab = s.tab /\ y.near = s.near /\ y.outbox = s.outbox
  /\ y.session = s.session /\ y.sdk = s.sdk /\ y.calls = s.calls
  /\ y.told = s.told /\ y.heard = s.heard /\ y.counts = s.counts
  /\ y.inbox = [j \in Sessions |-> y.inbox[j]]
  /\ y.inbox[k] = Append(s.inbox[k], m)
  /\ \A j \in Sessions \ {k} : y.inbox[j] = s.inbox[j]

\* Send to a session that is up.
LEMMA SendSound ==
  ASSUME NEW s, Sound(s), NEW k \in Sessions, NEW m \in Inbound(k), ~Local, s.session[k].up
  PROVE  Sent(s, Send(s, k, m), k, m) /\ Sound(Send(s, k, m))
<1> DEFINE x == Send(s, k, m)
<1>1. /\ MailOK(s, k) /\ s.inbox[k] \in Seq(Inbound(k)) /\ DOMAIN s = Fields
      /\ s.inbox = [j \in Sessions |-> s.inbox[j]]
  BY DEF Sound, MailOK
<1>2. /\ DOMAIN x = Fields /\ x.tab = s.tab /\ x.near = s.near /\ x.outbox = s.outbox
      /\ x.session = s.session /\ x.sdk = s.sdk /\ x.calls = s.calls
      /\ x.told = s.told /\ x.heard = s.heard /\ x.counts = s.counts
      /\ x.inbox = [s.inbox EXCEPT ![k] = Append(@, m)]
  BY <1>1 DEF Send, Fields
<1> HIDE DEF x
<1>3. /\ x.inbox[k] = Append(s.inbox[k], m)
      /\ \A j \in Sessions \ {k} : x.inbox[j] = s.inbox[j]
      /\ x.inbox = [j \in Sessions |-> x.inbox[j]]
  BY <1>1, <1>2
<1>4. x.inbox[k] \in Seq(Inbound(k))
  BY <1>1, <1>3, AppendProperties
<1>5. ASSUME NEW j \in Sessions PROVE MailOK(x, j)
  <2>1. MailOK(s, j)
    BY DEF Sound
  <2>2. CASE j = k
    BY <1>2, <1>4, <2>1, <2>2 DEF MailOK
  <2>3. CASE j # k
    BY <1>2, <1>3, <2>1, <2>3 DEF MailOK
  <2> QED BY <2>2, <2>3
<1>6. TabOK(x)
  BY <1>2 DEF Sound, TabOK
<1>7. Sound(x)
  BY <1>2, <1>3, <1>5, <1>6 DEF Sound
<1> QED BY <1>2, <1>3, <1>7 DEF Sent, x

\* What is underway is not lost by sending more.
LEMMA SentAnswered ==
  ASSUME NEW s, Sound(s), NEW k \in Sessions, NEW m \in Inbound(k), NEW y, Sent(s, y, k, m),
         Answered(s)
  PROVE  Answered(y)
<1>1. s.inbox[k] \in Seq(Inbound(k))
  BY DEF Sound, MailOK
<1>2. /\ Len(s.inbox[k]) \in Nat /\ Len(y.inbox[k]) = Len(s.inbox[k]) + 1
      /\ \A i \in 1..Len(s.inbox[k]) : y.inbox[k][i] = s.inbox[k][i]
  BY <1>1, AppendProperties, LenProperties DEF Sent
<1>3. \A i \in 1..Len(s.inbox[k]) : i \in 1..Len(y.inbox[k])
  BY <1>2
<1>4. ASSUME NEW j \in Sessions, NEW r, Underway(s, j, r) PROVE Underway(y, j, r)
  <2>1. CASE j = k
    BY <1>2, <1>3, <1>4, <2>1 DEF Underway, Sent
  <2>2. CASE j # k
    BY <1>4, <2>2 DEF Underway, Sent
  <2> QED BY <2>1, <2>2
<1> QED BY <1>4 DEF Answered, Sent

\* A session is told of a topic by the last message about it.
LEMMA FollowsAppend ==
  ASSUME NEW T, NEW q \in Seq(T), NEW m \in T, NEW t, NEW asked, NEW A, NEW subs, NEW ended,
         Follows(q, t, asked, subs, ended),
         IF About(m, t) THEN m.type = "subscribe" <=> t \in A ELSE t \in A <=> t \in asked
  PROVE  Follows(Append(q, m), t, A, subs, ended)
<1> DEFINE o == Append(q, m)
           n == Len(q)
<1>1. /\ n \in Nat /\ Len(o) = n + 1 /\ o[n + 1] = m
      /\ \A i \in 1..n : o[i] = q[i]
  BY AppendProperties, LenProperties
<1> HIDE DEF o, n
<1>2. CASE About(m, t)
  <2>1. /\ n + 1 \in 1..Len(o)
        /\ \A j \in 1..Len(o) : j > n + 1 => ~About(o[j], t)
    BY <1>1
  <2> QED BY <1>1, <1>2, <2>1 DEF Follows, o
<1>3. CASE ~About(m, t)
  <2>1. t \in A <=> t \in asked
    BY <1>3
  <2>2. \A i \in 1..Len(o) : About(o[i], t) => i \in 1..n /\ o[i] = q[i]
    BY <1>1, <1>3
  <2>3. CASE \A i \in 1..n : ~About(q[i], t)
    <3>1. \A i \in 1..Len(o) : ~About(o[i], t)
      BY <2>2, <2>3
    <3>2. t \in subs <=> t \in asked \ ended
      BY <2>3 DEF Follows, n
    <3> QED BY <2>1, <3>1, <3>2 DEF Follows, o
  <2>4. CASE ~\A i \in 1..n : ~About(q[i], t)
    <3>1. PICK i \in 1..n :
            /\ About(q[i], t) /\ (q[i].type = "subscribe" <=> t \in asked)
            /\ \A j \in 1..n : j > i => ~About(q[j], t)
      BY <2>4 DEF Follows, n
    <3>2. i \in 1..Len(o) /\ o[i] = q[i]
      BY <1>1
    <3>3. \A j \in 1..Len(o) : j > i => ~About(o[j], t)
      BY <2>2, <3>1
    <3> QED BY <2>1, <3>1, <3>2, <3>3 DEF Follows, o
  <2> QED BY <2>3, <2>4
<1> QED BY <1>2, <1>3

\* s with another set of topics the bus asked for.
Asking(s, A) == [s EXCEPT !.tab.asked = A]

OnlyAsks(s, x, A) ==
  /\ x.near = s.near /\ x.inbox = s.inbox /\ x.outbox = s.outbox
  /\ x.session = s.session /\ x.sdk = s.sdk /\ x.calls = s.calls /\ x.counts = s.counts
  /\ x.tab.asked = A /\ x.tab.current = s.tab.current /\ x.tab.backend = s.tab.backend
  /\ x.tab.generation = s.tab.generation

\* Nothing else changes with them.
LEMMA AskingSound ==
  ASSUME NEW s, Sound(s), NEW A \in SUBSET Topics
  PROVE  /\ Sound(Asking(s, A)) /\ OnlyAsks(s, Asking(s, A), A)
         /\ Answered(s) => Answered(Asking(s, A))
<1> DEFINE x == Asking(s, A)
<1>1. /\ DOMAIN x = Fields /\ x.near = s.near /\ x.inbox = s.inbox
      /\ x.outbox = s.outbox /\ x.session = s.session /\ x.sdk = s.sdk
      /\ x.calls = s.calls /\ x.counts = s.counts /\ x.told = s.told /\ x.heard = s.heard
      /\ x.tab = [s.tab EXCEPT !.asked = A]
  BY DEF Sound, Asking, Fields
<1> HIDE DEF x
<1>2. /\ x.tab.asked = A /\ x.tab \in TabType
      /\ x.tab.current = s.tab.current /\ x.tab.backend = s.tab.backend
      /\ x.tab.generation = s.tab.generation /\ x.tab.made = s.tab.made
      /\ x.tab.handlers = s.tab.handlers
  BY <1>1 DEF Sound, TabOK, TabType
<1>3. TabOK(x)
  BY <1>1, <1>2 DEF Sound, TabOK
<1>4. \A j \in Sessions : MailOK(x, j)
  BY <1>1, <1>2 DEF Sound, MailOK
<1>5. Sound(x)
  BY <1>1, <1>2, <1>3, <1>4 DEF Sound
<1>6. Answered(s) => Answered(x)
  BY <1>1 DEF Answered, Underway
<1> QED BY <1>1, <1>2, <1>5, <1>6 DEF x, OnlyAsks

\* The message m changes the topics asked for to A, as it says.
Tells(m, asked, A) ==
  \A t \in Topics : IF About(m, t) THEN m.type = "subscribe" <=> t \in A
                    ELSE t \in A <=> t \in asked

\* Post of a call, in the tab itself: the session handles it.
LEMMA PostLocalGood ==
  ASSUME SetupOK, NEW s, NEW n, Good(s, n), s.tab.backend, NEW A \in SUBSET Topics, Local,
         NEW k \in Sessions, k = s.tab.current, NEW m \in Inbound(k),
         m.type \notin {"init", "token"}, Tells(m, s.tab.asked, A)
  PROVE  Good(Post(Asking(s, A), m), n)
<1> DEFINE x == Asking(s, A)
<1>1. Sound(s) /\ Answered(s) /\ Rest(s, n) /\ Backed(s)
  BY DEF Good
<1>2. /\ Sound(x) /\ Answered(x) /\ x.near = s.near /\ x.inbox = s.inbox /\ x.outbox = s.outbox
      /\ x.session = s.session /\ x.sdk = s.sdk
      /\ x.calls = s.calls /\ x.counts = s.counts /\ x.tab.asked = A
      /\ x.tab.current = k /\ x.tab.backend = s.tab.backend
      /\ x.tab.generation = s.tab.generation
  <2>1. Sound(x) /\ Answered(x) /\ OnlyAsks(s, x, A)
    BY <1>1, AskingSound
  <2> HIDE DEF x
  <2> QED BY <2>1 DEF OnlyAsks
<1> HIDE DEF x
<1>3. s.session[k].client /\ s.near = {k}
  BY <1>1 DEF Backed
<1>4. s.session[k].up /\ s.session[k].lifecycle = 1
  BY <1>1, <1>3, InUse
<1>5. s.inbox[k] = <<>>
  BY <1>1 DEF Sound, MailOK
<1>6. RestBut(x, n, k)
  <2>1. Timely(x) /\ Single(x, n)
    BY <1>1, <1>2 DEF Rest, Timely, Single, Holds
  <2>2. \A j \in Sessions : BegunAt(x, j)
    BY <1>1, <1>2 DEF Rest, Begun, BegunAt
  <2>3. \A i \in 1..Len(x.inbox[k]) : x.inbox[k][i].type # "init"
    BY <1>2, <1>5
  <2> QED BY <2>1, <2>2, <2>3 DEF RestBut
<1>7. ASSUME NEW t \in Topics
      PROVE  FollowsAfter(m, x.inbox[k], t, A, s.session[k].subs, s.sdk[k].ended)
  <2>1. Follows(s.inbox[k], t, s.tab.asked, s.session[k].subs, s.sdk[k].ended)
    BY <1>1, <1>4 DEF Rest, Informed
  <2>2. t \in s.session[k].subs <=> t \in s.tab.asked \ s.sdk[k].ended
    BY <1>5, <2>1 DEF Follows
  <2>3. \A i \in 1..Len(x.inbox[k]) : ~About(x.inbox[k][i], t)
    BY <1>2, <1>5
  <2> QED BY <2>2, <2>3 DEF FollowsAfter, Tells
<1>8. Takes(x, n, k, m)
  BY <1>2, <1>3, <1>4, <1>6, <1>7 DEF Takes
<1>9. Post(x, m) = Handle(x, k, m)
  BY <1>2 DEF Post
<1>10. Handled(x, Handle(x, k, m), n, k)
  BY <1>8, HandleSound
<1>11. Good(Handle(x, k, m), n)
  BY <1>2, <1>3, <1>10, HandledGood
<1> QED BY <1>9, <1>11 DEF x

\* Post of a call to a worker.
LEMMA PostWorkerGood ==
  ASSUME SetupOK, NEW s, NEW n, Good(s, n), s.tab.backend, NEW A \in SUBSET Topics, ~Local,
         NEW k \in Sessions, k = s.tab.current, NEW m \in Inbound(k),
         m.type \notin {"init", "token"}, Tells(m, s.tab.asked, A)
  PROVE  Good(Post(Asking(s, A), m), n)
<1> DEFINE x == Asking(s, A)
<1>1. Sound(s) /\ Answered(s) /\ Rest(s, n) /\ Backed(s)
  BY DEF Good
<1>2. /\ Sound(x) /\ Answered(x) /\ x.near = s.near /\ x.inbox = s.inbox /\ x.outbox = s.outbox
      /\ x.session = s.session /\ x.sdk = s.sdk
      /\ x.calls = s.calls /\ x.counts = s.counts /\ x.tab.asked = A
      /\ x.tab.current = k /\ x.tab.backend = s.tab.backend
      /\ x.tab.generation = s.tab.generation
  <2>1. Sound(x) /\ Answered(x) /\ OnlyAsks(s, x, A)
    BY <1>1, AskingSound
  <2> HIDE DEF x
  <2> QED BY <2>1 DEF OnlyAsks
<1> HIDE DEF x
<1>3. Post(x, m) = Send(x, k, m)
  BY <1>2 DEF Post
<1>4. Timely(x) /\ Single(x, n) /\ Begun(x) /\ Backed(x)
  BY <1>1, <1>2 DEF Rest, Timely, Single, Holds, Begun, Backed
<1>5. CASE ~x.session[k].up
  <2>1. Send(x, k, m) = x
    BY <1>5 DEF Send
  <2>2. Informed(x)
    BY <1>2, <1>5 DEF Informed
  <2> QED BY <1>2, <1>3, <1>4, <2>1, <2>2 DEF Good, Rest, x
<1>6. CASE x.session[k].up
  <2> DEFINE y == Send(x, k, m)
  <2>1. Sound(y) /\ Sent(x, y, k, m)
    BY <1>2, <1>6, SendSound
  <2> HIDE DEF y
  <2>2. Answered(y)
    BY <1>2, <2>1, SentAnswered
  <2>3. s.inbox[k] \in Seq(Inbound(k))
    BY <1>1 DEF Sound, MailOK
  <2>4. Timely(y) /\ Single(y, n) /\ Backed(y)
    BY <1>4, <2>1 DEF Sent, Timely, Single, Holds, Backed
  <2>5. Informed(y)
    <3> SUFFICES ASSUME NEW t \in Topics
                 PROVE  Follows(Append(s.inbox[k], m), t, A, s.session[k].subs, s.sdk[k].ended)
      <4>1. /\ y.inbox[k] = Append(s.inbox[k], m) /\ y.tab.asked = A /\ y.tab.current = k
            /\ y.session = s.session /\ y.sdk = s.sdk
        BY <1>2, <2>1 DEF Sent
      <4> QED BY <4>1 DEF Informed
    <3>1. Follows(s.inbox[k], t, s.tab.asked, s.session[k].subs, s.sdk[k].ended)
      BY <1>1, <1>2, <1>6 DEF Rest, Informed
    <3>2. IF About(m, t) THEN m.type = "subscribe" <=> t \in A
          ELSE t \in A <=> t \in s.tab.asked
      BY DEF Tells
    <3> QED BY <2>3, <3>1, <3>2, FollowsAppend
  <2>6. ASSUME NEW j \in Sessions PROVE BegunAt(y, j)
    <3>1. BegunAt(x, j)
      BY <1>4 DEF Begun, BegunAt
    <3>2. CASE j # k
      BY <2>1, <3>1, <3>2 DEF Sent, BegunAt
    <3>3. CASE j = k
      <4> DEFINE q == x.inbox[k]
                 o == y.inbox[k]
      <4>1. /\ Len(q) \in Nat /\ Len(o) = Len(q) + 1 /\ o[Len(q) + 1] = m
            /\ \A i \in 1..Len(q) : o[i] = q[i]
        <5>1. q \in Seq(Inbound(k)) /\ o = Append(q, m)
          BY <1>2, <2>1, <2>3 DEF Sent
        <5> HIDE DEF q, o
        <5> QED BY <5>1, AppendProperties, LenProperties
      <4>2. /\ \A i \in 1..Len(q) : q[i].type = "init" => i = 1 /\ x.session[k].lifecycle = 0
            /\ x.session[k].up /\ x.session[k].lifecycle = 0 =>
                 q # <<>> /\ q[1].type = "init"
        BY <3>1, <3>3 DEF BegunAt
      <4>3. q # <<>> => Len(q) # 0
        BY <1>2, <2>3, EmptySeq
      <4>7. Len(o) # 0 => o # <<>>
        OBVIOUS
      <4>4. y.session = x.session
        BY <2>1 DEF Sent
      <4> HIDE DEF q, o
      <4>5. ASSUME NEW i \in 1..Len(o), o[i].type = "init"
            PROVE  i = 1 /\ y.session[k].lifecycle = 0
        <5>1. i # Len(q) + 1
          BY <4>1, <4>5
        <5>2. i \in 1..Len(q)
          BY <4>1, <5>1
        <5> QED BY <4>1, <4>2, <4>4, <4>5, <5>2
      <4>6. ASSUME y.session[k].up, y.session[k].lifecycle = 0
            PROVE  o # <<>> /\ o[1].type = "init"
        <5>1. 1 \in 1..Len(q)
          BY <4>1, <4>2, <4>3, <4>4, <4>6
        <5> QED BY <4>1, <4>2, <4>4, <4>6, <4>7, <5>1
      <4> QED BY <3>3, <4>5, <4>6 DEF BegunAt, o
    <3> QED BY <3>2, <3>3
  <2>7. Begun(y)
    BY <2>6 DEF Begun, BegunAt
  <2> QED BY <1>3, <2>1, <2>2, <2>4, <2>5, <2>7 DEF Good, Rest, x, y
<1> QED BY <1>5, <1>6

\* A backend is kept once it is made.
Opened(s) == [s EXCEPT !.tab.backend = TRUE]

\* A session that start() made, with its INIT handled or sent.
LEMMA OpenedGood ==
  ASSUME NEW s, NEW n, Sound(s), Answered(s), Rest(s, n), NEW k \in Sessions,
         s.tab.current = k, s.near = {k}, Local => s.session[k].client
  PROVE  Good(Opened(s), n)
<1> DEFINE x == Opened(s)
<1>1. /\ DOMAIN x = Fields /\ x.near = s.near /\ x.inbox = s.inbox
      /\ x.outbox = s.outbox /\ x.session = s.session /\ x.sdk = s.sdk
      /\ x.calls = s.calls /\ x.counts = s.counts /\ x.told = s.told /\ x.heard = s.heard
      /\ x.tab = [s.tab EXCEPT !.backend = TRUE]
  BY DEF Sound, Opened, Fields
<1> HIDE DEF x
<1>2. /\ x.tab.asked = s.tab.asked /\ x.tab \in TabType
      /\ x.tab.current = s.tab.current /\ x.tab.backend = TRUE
      /\ x.tab.generation = s.tab.generation /\ x.tab.made = s.tab.made
      /\ x.tab.handlers = s.tab.handlers
  BY <1>1 DEF Sound, TabOK, TabType
<1>3. TabOK(x)
  BY <1>1, <1>2 DEF Sound, TabOK
<1>4. \A j \in Sessions : MailOK(x, j)
  BY <1>1, <1>2 DEF Sound, MailOK
<1>5. Sound(x)
  BY <1>1, <1>2, <1>3, <1>4 DEF Sound
<1>6. Answered(x)
  BY <1>1 DEF Answered, Underway
<1>7. Rest(x, n)
  <2>1. Informed(x)
    BY <1>1, <1>2 DEF Rest, Informed
  <2>2. Begun(x) /\ Timely(x) /\ Single(x, n)
    BY <1>1, <1>2 DEF Rest, Begun, Timely, Single, Holds
  <2> QED BY <2>1, <2>2 DEF Rest
<1>8. Backed(x)
  BY <1>1, <1>2 DEF Backed, Sessions, None
<1> QED BY <1>5, <1>6, <1>7, <1>8 DEF Good, x

\* What start() makes of the transport, before and with a session.
PreparedFrom(h, k) ==
  [h EXCEPT !.tab.handlers = k, !.tab.made = k, !.tab.dial = "ok",
            !.tab.generation = IF Local THEN @ ELSE @ + 1,
            !.told = [by |-> k, status |-> "none"]]
MadeFrom(h, k) ==
  [PreparedFrom(h, k) EXCEPT !.tab.current = k, !.near = @ \cup {k}, !.session[k].up = TRUE]

\* r is h with another transport, the handlers of session k, and a session S.
Renewed(h, r, k, S) ==
  /\ DOMAIN r = Fields /\ r.inbox = h.inbox /\ r.outbox = h.outbox
  /\ r.sdk = h.sdk /\ r.calls = h.calls /\ r.heard = h.heard /\ r.counts = h.counts
  /\ r.told = [by |-> k, status |-> "none"]
  /\ r.session = [h.session EXCEPT ![k] = S]
  /\ r.tab \in TabType /\ r.tab.handlers = k /\ r.tab.made = k /\ r.tab.asked = {}
  /\ r.tab.backend = FALSE

\* Session k is the one that the next start() makes.
NextUp(h, k) == k = h.tab.made + 1

\* Nothing is left of session k, which start() has yet to make, and no session runs.
LEMMA BeforeStart ==
  ASSUME SetupOK, NEW h, NEW n, Good(h, n), ~h.tab.backend, NEW k \in Sessions,
         NextUp(h, k)
  PROVE  /\ h.session[k] = NoSession /\ h.sdk[k] = NoClient /\ h.inbox[k] = <<>>
         /\ h.near = {} /\ h.tab.asked = {}
         /\ \A j \in Sessions : ~h.session[j].client /\ h.outbox[j] = <<>> /\ h.sdk[j].need # "asked"
         /\ \A j \in Sessions : ~Local => ~h.session[j].up
         /\ \A c \in h.calls : c.current < k
         /\ h.tab.made \in Nat
<1>1. Sound(h) /\ Backed(h)
  BY DEF Good
<1>2. h.tab.made \in Nat /\ ~(k <= h.tab.made)
  BY <1>1 DEF Sound, TabOK, TabType, NextUp
<1>3. ~h.session[k].up
  BY <1>1, <1>2 DEF Sound, MailOK
<1>4. h.session[k] = NoSession /\ h.sdk[k] = NoClient /\ h.inbox[k] = <<>>
  BY <1>1, <1>3 DEF Sound, MailOK, SessionOK
<1>5. h.near = {} /\ h.tab.asked = {}
  BY <1>1 DEF Backed
<1>6. ASSUME NEW j \in Sessions
      PROVE  /\ ~h.session[j].client /\ h.outbox[j] = <<>> /\ h.sdk[j].need # "asked"
             /\ ~Local => ~h.session[j].up
  <2>1. SessionOK(j, h.session[j], h.sdk[j], j = h.tab.current) /\ MailOK(h, j)
    BY <1>1 DEF Sound
  <2>2. ~h.session[j].client
    BY <1>1, <2>1 DEF SessionOK, Backed, Sessions, None
  <2> QED BY <1>5, <2>1, <2>2 DEF SessionOK, MailOK
<1>7. ASSUME NEW c \in h.calls PROVE c.current < k
  <2>1. c.current \in Sessions /\ c.current <= h.tab.made
    BY <1>1 DEF Sound, CallOK, CallType
  <2> QED BY <1>2, <2>1 DEF Sessions, NextUp
<1> QED BY <1>2, <1>4, <1>5, <1>6, <1>7

\* Session k has no client yet, and its messages are heard if it has any.
Seated(r, k, S) ==
  /\ \/ r.tab.current = k
     \/ r.tab.current = None /\ ~S.up /\ ~Local
  /\ r.near = {} \/ (r.near = {k} /\ r.tab.current = k)
  /\ ~S.client /\ S.subs = {}
  /\ S.up /\ ~Local => k \in r.near

Seats(r, n, k, S) ==
  /\ Sound(r) /\ Answered(r) /\ RestBut(r, n, k) /\ r.inbox[k] = <<>>
  /\ r.session[k] = S /\ r.sdk[k] = NoClient

\* With a fresh session or none the rest is as it was.
LEMMA RenewedSound ==
  ASSUME SetupOK, NEW h, NEW n, Good(h, n), ~h.tab.backend, NEW k \in Sessions,
         NextUp(h, k), NEW S \in SessionType, NEW r, Renewed(h, r, k, S),
         Seated(r, k, S), SessionOK(k, S, NoClient, TRUE)
  PROVE  Seats(r, n, k, S)
<1>0. /\ \/ r.tab.current = k
         \/ r.tab.current = None /\ ~S.up /\ ~Local
      /\ r.near = {} \/ (r.near = {k} /\ r.tab.current = k)
      /\ ~S.client /\ S.subs = {}
      /\ S.up /\ ~Local => k \in r.near
  BY DEF Seated
<1>1. Sound(h) /\ Rest(h, n) /\ Answered(h)
  BY DEF Good
<1>2. /\ h.session[k] = NoSession /\ h.sdk[k] = NoClient /\ h.inbox[k] = <<>>
      /\ h.near = {} /\ h.tab.asked = {}
      /\ \A j \in Sessions : ~h.session[j].client /\ h.outbox[j] = <<>> /\ h.sdk[j].need # "asked"
      /\ \A j \in Sessions : ~Local => ~h.session[j].up
      /\ \A c \in h.calls : c.current < k
      /\ h.tab.made \in Nat
  BY BeforeStart
<1>3. /\ r.session \in [Sessions -> SessionType]
      /\ \A j \in Sessions : r.session[j] = IF j = k THEN S ELSE h.session[j]
  BY <1>1 DEF Sound, Renewed
<1>4. TabOK(r)
  <2>1. r.told \in ToldType /\ r.told.by = k
    BY DEF Renewed, ToldType, Sessions
  <2> QED BY <1>0, <1>1, <2>1 DEF Sound, TabOK, Renewed, Sessions, None
<1>5. ASSUME NEW j \in Sessions PROVE MailOK(r, j)
  <2>1. MailOK(h, j)
    BY <1>1 DEF Sound
  <2>2. r.tab.made = k /\ r.inbox = h.inbox /\ r.outbox = h.outbox
    BY DEF Renewed
  <2>3. CASE j = k
    BY <1>0, <1>2, <1>3, <2>1, <2>2, <2>3 DEF MailOK, Sessions
  <2>4. CASE j # k
    <3>1. h.session[j].up => j <= k
      BY <1>2, <2>1 DEF MailOK, Sessions, NextUp
    <3> QED BY <1>0, <1>2, <1>3, <2>1, <2>2, <2>4, <3>1 DEF MailOK
  <2> QED BY <2>3, <2>4
<1>6. ASSUME NEW j \in Sessions
      PROVE  SessionOK(j, r.session[j], r.sdk[j], j = r.tab.current)
  <2>1. SessionOK(j, h.session[j], h.sdk[j], j = h.tab.current)
    BY <1>1 DEF Sound
  <2>2. CASE j = k
    <3>1. r.session[j] = S /\ r.sdk[j] = NoClient
      BY <1>2, <1>3, <2>2 DEF Renewed
    <3> QED BY <1>0, <2>2, <3>1 DEF SessionOK
  <2>3. CASE j # k
    <3>1. r.session[j] = h.session[j] /\ r.sdk[j] = h.sdk[j] /\ ~h.session[j].client
      BY <1>2, <1>3, <2>3 DEF Renewed
    <3> QED BY <2>1, <3>1 DEF SessionOK
  <2> QED BY <2>2, <2>3
<1>7. \A c \in r.calls : CallOK(c) /\ c.current <= r.tab.made
  <2>1. \A c \in h.calls : CallOK(c) /\ c.current <= h.tab.made
    BY <1>1 DEF Sound
  <2>2. \A c \in h.calls : c.current \in Sessions
    BY <2>1 DEF CallOK, CallType
  <2> QED BY <1>2, <2>1, <2>2 DEF Renewed, Sessions, NextUp
<1>8. Sound(r)
  BY <1>1, <1>3, <1>4, <1>5, <1>6, <1>7 DEF Sound, Renewed
<1>9. Answered(r)
  BY <1>2 DEF Answered, Renewed
<1>10. RestBut(r, n, k)
  <2>1. Timely(r)
    <3>1. \A c \in h.calls : c.current # k /\ c.current # None
      BY <1>1, <1>2 DEF Sound, CallOK, CallType, Sessions, None
    <3> QED BY <1>0, <3>1 DEF Timely, Renewed
  <2>2. Single(r, n)
    BY <1>1 DEF Rest, Single, Holds, Renewed
  <2>3. \A j \in Sessions \ {k} : BegunAt(r, j)
    BY <1>1, <1>3 DEF Rest, Begun, BegunAt, Renewed
  <2>4. \A i \in 1..Len(r.inbox[k]) : r.inbox[k][i].type # "init"
    BY <1>2 DEF Renewed
  <2> QED BY <2>1, <2>2, <2>3, <2>4 DEF RestBut
<1> QED BY <1>2, <1>3, <1>8, <1>9, <1>10 DEF Renewed, Seats

\* A session that comes up is of the same type.
LEMMA Woken ==
  ASSUME NEW S0 \in SessionType, NEW l \in 0..2
  PROVE  LET S == [S0 EXCEPT !.up = TRUE, !.lifecycle = l]
         IN /\ S \in SessionType /\ S.up = TRUE /\ S.lifecycle = l /\ S.client = S0.client
            /\ S.subs = S0.subs /\ (S0.lifecycle = l => S = [S0 EXCEPT !.up = TRUE])
BY DEF SessionType

\* The fields T of the transport after start(), and what is known of them.
TabAfter(T, a, c, g, d) ==
  [T EXCEPT !.handlers = a, !.made = a, !.dial = d, !.generation = g, !.current = c]
TabIs(T, z, a, c) ==
  /\ z \in TabType /\ z.handlers = a /\ z.made = a /\ z.current = c
  /\ z.asked = T.asked /\ z.backend = T.backend

\* start() changes them so.
LEMMA TabRenewed ==
  ASSUME NEW T \in TabType, NEW a \in 0..MaxSessions, NEW c \in 0..MaxSessions, NEW g \in Nat,
         NEW d \in {"ok", "failed"}
  PROVE  TabIs(T, TabAfter(T, a, c, g, d), a, c)
BY DEF TabType, TabIs, TabAfter

\* Session k is up, and INIT is the first message for it.
Newborn(r, n, k, m) ==
  /\ Takes(r, n, k, m) /\ Answered(r) /\ r.near = {k}
  /\ r.tab.current = k /\ r.inbox[k] = <<>> /\ r.session[k].lifecycle = 0
  /\ r.session[k].subs = {} /\ r.tab.asked = {}

\* start() up to the INIT message.
LEMMA MadeSound ==
  ASSUME SetupOK, NEW h, NEW n, Good(h, n), ~h.tab.backend, NEW k \in Sessions,
         NextUp(h, k)
  PROVE  Newborn(MadeFrom(h, k), n, k, [type |-> "init"])
<1> DEFINE r == MadeFrom(h, k)
           S == [NoSession EXCEPT !.up = TRUE, !.lifecycle = 0]
           m == [type |-> "init"]
<1>1. Sound(h) /\ DOMAIN h = Fields /\ h.tab \in TabType
      /\ h.session \in [Sessions -> SessionType]
  BY DEF Good, Sound, TabOK
<1>2. /\ h.session[k] = NoSession /\ h.near = {} /\ h.tab.asked = {}
      /\ h.tab.made \in Nat
  BY BeforeStart
<1>3. /\ S \in SessionType /\ S.up /\ ~S.client /\ S.subs = {} /\ S.lifecycle = 0
  <2>1. NoSession \in SessionType /\ 0 \in 0..2
    BY <1>1, <1>2
  <2>2. ~NoSession.client /\ NoSession.subs = {}
    BY DEF NoSession
  <2> QED BY ZenonT(40), <2>1, <2>2, Woken
<1>4. Renewed(h, r, k, S) /\ r.tab.current = k /\ r.near = {k}
  <2>1. /\ DOMAIN r = Fields /\ r.inbox = h.inbox /\ r.outbox = h.outbox
        /\ r.sdk = h.sdk /\ r.calls = h.calls /\ r.heard = h.heard /\ r.counts = h.counts
        /\ r.told = [by |-> k, status |-> "none"] /\ r.near = h.near \cup {k}
        /\ r.session = [h.session EXCEPT ![k].up = TRUE]
    BY <1>1 DEF MadeFrom, PreparedFrom, Fields
  <2>2. r.tab = [h.tab EXCEPT !.handlers = k, !.made = k, !.dial = "ok",
                              !.generation = IF Local THEN @ ELSE @ + 1, !.current = k]
    BY <1>1 DEF MadeFrom, PreparedFrom, Fields
  <2> HIDE DEF r
  <2>3. r.session = [h.session EXCEPT ![k] = S]
    <3>1. [NoSession EXCEPT !.up = TRUE] = S
      <4>1. NoSession \in SessionType /\ 0 \in 0..2
        BY <1>1, <1>2
      <4>2. NoSession.lifecycle = 0
        BY DEF NoSession
      <4> QED BY ZenonT(40), <4>1, <4>2, Woken
    <3> QED BY <1>1, <1>2, <2>1, <3>1
  <2> DEFINE g == IF Local THEN h.tab.generation ELSE h.tab.generation + 1
  <2>4. g \in Nat
    BY <1>1 DEF TabType
  <2>5. r.tab = TabAfter(h.tab, k, k, g, "ok")
    BY <1>1, <2>2 DEF TabType, TabAfter
  <2> HIDE DEF g
  <2>6. /\ r.tab \in TabType /\ r.tab.handlers = k /\ r.tab.made = k /\ r.tab.current = k
        /\ r.tab.asked = h.tab.asked /\ r.tab.backend = h.tab.backend
    <3>1. k \in 0..MaxSessions /\ "ok" \in {"ok", "failed"}
      BY DEF Sessions
    <3>9. TabIs(h.tab, r.tab, k, k)
      BY <1>1, <2>4, <2>5, <3>1, TabRenewed
    <3> QED BY <3>9 DEF TabIs
  <2>7. r.tab.backend = FALSE
    BY <1>1, <2>6 DEF TabType
  <2> HIDE DEF S
  <2> QED BY <1>2, <2>1, <2>3, <2>6, <2>7 DEF Renewed
<1>5. SessionOK(k, S, NoClient, TRUE)
  BY DEF SessionOK, NoSession, NoClient, NoToken
<1> HIDE DEF r, S, m
<1>6. /\ Sound(r) /\ Answered(r) /\ RestBut(r, n, k) /\ r.inbox[k] = <<>>
      /\ r.session[k] = S /\ r.sdk[k] = NoClient
  <2>1. Seated(r, k, S)
    BY <1>3, <1>4 DEF Seated
  <2>2. Seats(r, n, k, S)
    BY <1>3, <1>4, <1>5, <2>1, RenewedSound
  <2> QED BY <2>2 DEF Seats
<1>7. m.type = "init" /\ \A t \in Topics : ~About(m, t)
  BY DEF m, About
<1>8. r.tab.asked = {}
  BY <1>4 DEF Renewed
<1>9. \A t \in Topics : FollowsAfter(m, r.inbox[k], t, r.tab.asked, r.session[k].subs,
                                     r.sdk[k].ended)
  BY <1>3, <1>6, <1>7, <1>8 DEF FollowsAfter
<1>10. Takes(r, n, k, m)
  BY <1>3, <1>4, <1>6, <1>7, <1>9 DEF Takes
<1> QED BY <1>3, <1>4, <1>6, <1>8, <1>10 DEF r, m, Newborn

\* INIT is the first message of a worker.
LEMMA SendInit ==
  ASSUME SetupOK, NEW s, NEW n, NEW k \in Sessions, NEW m \in Inbound(k), m.type = "init",
         Takes(s, n, k, m), ~Local, s.inbox[k] = <<>>, s.session[k].subs = {},
         s.tab.asked = {}, Answered(s)
  PROVE  LET y == Send(s, k, m)
         IN /\ Sound(y) /\ Answered(y) /\ Rest(y, n) /\ y.tab = s.tab /\ y.near = s.near
<1> DEFINE y == Send(s, k, m)
<1>1. /\ Sound(s) /\ k = s.tab.current /\ RestBut(s, n, k) /\ s.session[k].up
      /\ s.session[k].lifecycle = 0
  BY DEF Takes
<1>2. Sound(y) /\ Sent(s, y, k, m)
  BY <1>1, SendSound
<1> HIDE DEF y
<1>3. Answered(y)
  BY <1>1, <1>2, SentAnswered
<1>4. y.inbox[k] = <<m>> /\ Len(y.inbox[k]) = 1 /\ y.inbox[k][1] = m /\ y.inbox[k] # <<>>
  <2>1. y.inbox[k] = Append(<<>>, m) /\ <<>> \in Seq(Inbound(k))
    BY <1>2 DEF Sent
  <2>2. Append(<<>>, m) = <<m>>
    BY <2>1
  <2> QED BY <2>1, <2>2
<1>5. Timely(y) /\ Single(y, n)
  BY <1>1, <1>2 DEF RestBut, Timely, Single, Holds, Sent
<1>6. ASSUME NEW t \in Topics
      PROVE  Follows(y.inbox[k], t, {}, {}, y.sdk[k].ended)
  BY <1>4 DEF Follows, About
<1>7. Informed(y)
  <2>1. y.tab.current = k /\ y.tab.asked = {} /\ y.session[k].subs = {}
    BY <1>1, <1>2 DEF Sent
  <2> QED BY <1>6, <2>1 DEF Informed
<1>8. Begun(y)
  BY <1>1, <1>2, <1>4 DEF Begun, BegunAt, RestBut, Sent
<1> QED BY <1>2, <1>3, <1>5, <1>7, <1>8 DEF Rest, Sent, y

\* start().
LEMMA StartGood ==
  ASSUME SetupOK, NEW h, NEW n, Good(h, n), ~h.tab.backend, NEW k \in Sessions,
         NextUp(h, k)
  PROVE  Good(Opened(Post(MadeFrom(h, k), [type |-> "init"])), n)
<1> DEFINE m == [type |-> "init"]
           s == MadeFrom(h, k)
<1>1. m \in Inbound(k) /\ m.type = "init"
  BY DEF Inbound
<1>2. /\ Takes(s, n, k, m) /\ Answered(s) /\ s.near = {k} /\ s.tab.current = k
      /\ s.inbox[k] = <<>> /\ s.session[k].subs = {} /\ s.tab.asked = {}
  <2>1. Newborn(s, n, k, m)
    BY MadeSound
  <2> HIDE DEF s, m
  <2> QED BY <2>1 DEF Newborn
<1> HIDE DEF s, m
<1>3. CASE Local
  <2>1. Post(s, m) = Handle(s, k, m)
    BY <1>2, <1>3 DEF Post
  <2>2. Handled(s, Handle(s, k, m), n, k)
    BY <1>1, <1>2, HandleSound
  <2> DEFINE y == Handle(s, k, m)
  <2>3. /\ Sound(y) /\ Rest(y, n) /\ Answered(y) /\ y.tab.current = k /\ y.near = {k}
        /\ y.session[k].client
    BY <1>2, <2>2 DEF Handled
  <2> HIDE DEF y
  <2>4. Good(Opened(y), n)
    BY <2>3, OpenedGood
  <2> QED BY <2>1, <2>4 DEF y, s, m
<1>4. CASE ~Local
  <2>1. Post(s, m) = Send(s, k, m)
    BY <1>2, <1>4 DEF Post
  <2> DEFINE y == Send(s, k, m)
  <2>2. Sound(y) /\ Rest(y, n) /\ Answered(y) /\ y.tab = s.tab /\ y.near = s.near
    BY <1>1, <1>2, <1>4, SendInit
  <2> HIDE DEF y
  <2>3. Good(Opened(y), n)
    BY <1>2, <1>4, <2>2, OpenedGood
  <2> QED BY <2>1, <2>3 DEF y, s, m
<1> QED BY <1>3, <1>4

\* start() fails without a worker.
LEMMA FactoryThrowsGood ==
  ASSUME SetupOK, NEW h, NEW n, Good(h, n), ~h.tab.backend, NEW k \in Sessions,
         NextUp(h, k), ~Local
  PROVE  Good([PreparedFrom(h, k) EXCEPT !.tab.dial = "failed"], n)
<1> DEFINE r == [PreparedFrom(h, k) EXCEPT !.tab.dial = "failed"]
           S == NoSession
<1>1. Sound(h) /\ DOMAIN h = Fields /\ h.tab \in TabType
      /\ h.session \in [Sessions -> SessionType] /\ Backed(h) /\ Rest(h, n)
  BY DEF Good, Sound, TabOK
<1>2. /\ h.session[k] = NoSession /\ h.near = {} /\ h.tab.asked = {} /\ h.inbox[k] = <<>>
      /\ h.tab.made \in Nat
  BY BeforeStart
<1>3. S \in SessionType /\ ~S.client /\ S.subs = {} /\ ~S.up
  BY <1>1, <1>2 DEF NoSession
<1>4. Renewed(h, r, k, S) /\ r.tab.current = None /\ r.near = {}
  <2>1. /\ DOMAIN r = Fields /\ r.inbox = h.inbox /\ r.outbox = h.outbox
        /\ r.sdk = h.sdk /\ r.calls = h.calls /\ r.heard = h.heard /\ r.counts = h.counts
        /\ r.told = [by |-> k, status |-> "none"] /\ r.near = h.near
        /\ r.session = h.session
    BY <1>1 DEF PreparedFrom, Fields
  <2>2. r.tab = [h.tab EXCEPT !.handlers = k, !.made = k, !.dial = "failed",
                              !.generation = @ + 1]
    <3>1. r.tab = [[h.tab EXCEPT !.handlers = k, !.made = k, !.dial = "ok",
                                 !.generation = @ + 1] EXCEPT !.dial = "failed"]
      BY <1>1 DEF PreparedFrom, Fields
    <3> HIDE DEF r
    <3> QED BY <1>1, <3>1 DEF TabType
  <2> HIDE DEF r
  <2>3. r.session = [h.session EXCEPT ![k] = S]
    BY <1>1, <1>2, <2>1
  <2> DEFINE g == h.tab.generation + 1
  <2>4. g \in Nat
    BY <1>1 DEF TabType
  <2>5. r.tab = TabAfter(h.tab, k, h.tab.current, g, "failed")
    BY <1>1, <2>2 DEF TabType, TabAfter
  <2> HIDE DEF g
  <2>6. /\ r.tab \in TabType /\ r.tab.handlers = k /\ r.tab.made = k
        /\ r.tab.current = h.tab.current
        /\ r.tab.asked = h.tab.asked /\ r.tab.backend = h.tab.backend
    <3>1. k \in 0..MaxSessions /\ "failed" \in {"ok", "failed"} /\ h.tab.current \in 0..MaxSessions
      BY <1>1 DEF Sessions, TabType
    <3>9. TabIs(h.tab, r.tab, k, h.tab.current)
      BY <1>1, <2>4, <2>5, <3>1, TabRenewed
    <3> QED BY <3>9 DEF TabIs
  <2>7. r.tab.backend = FALSE /\ h.tab.current = None
    BY <1>1, <2>6 DEF TabType, Backed
  <2> HIDE DEF S
  <2> QED BY <1>2, <2>1, <2>3, <2>6, <2>7 DEF Renewed
<1>5. SessionOK(k, S, NoClient, TRUE)
  BY DEF SessionOK, NoSession, NoClient, NoToken
<1> HIDE DEF r, S
<1>6. /\ Sound(r) /\ Answered(r) /\ RestBut(r, n, k) /\ r.inbox[k] = <<>>
      /\ r.session[k] = S
  <2>1. Seated(r, k, S)
    BY <1>3, <1>4 DEF Seated
  <2>2. Seats(r, n, k, S)
    BY <1>3, <1>4, <1>5, <2>1, RenewedSound
  <2> QED BY <2>2 DEF Seats
<1>7. Rest(r, n)
  <2>1. Informed(r)
    BY <1>4 DEF Informed, Sessions, None
  <2>2. BegunAt(r, k)
    BY <1>3, <1>6 DEF BegunAt
  <2> QED BY <1>6, <2>1, <2>2 DEF Rest, RestBut, Begun, BegunAt
<1>8. Backed(r)
  BY <1>4 DEF Backed, Renewed
<1> QED BY <1>6, <1>7, <1>8 DEF Good, r

\* start() in the tab leaves a session whose client could not be made.
LEMMA ClientThrowsGood ==
  ASSUME SetupOK, NEW h, NEW n, Good(h, n), ~h.tab.backend, NEW k \in Sessions,
         NextUp(h, k), Local
  PROVE  Good([[PreparedFrom(h, k) EXCEPT !.tab.dial = "failed"] EXCEPT
                 !.tab.current = k, !.session[k].up = TRUE, !.session[k].lifecycle = 1], n)
<1> DEFINE r == [[PreparedFrom(h, k) EXCEPT !.tab.dial = "failed"] EXCEPT
                   !.tab.current = k, !.session[k].up = TRUE, !.session[k].lifecycle = 1]
           S == [NoSession EXCEPT !.up = TRUE, !.lifecycle = 1]
<1>1. Sound(h) /\ DOMAIN h = Fields /\ h.tab \in TabType
      /\ h.session \in [Sessions -> SessionType] /\ Backed(h) /\ Rest(h, n)
  BY DEF Good, Sound, TabOK
<1>2. /\ h.session[k] = NoSession /\ h.near = {} /\ h.tab.asked = {} /\ h.inbox[k] = <<>>
      /\ h.tab.made \in Nat
  BY BeforeStart
<1>3. S \in SessionType /\ ~S.client /\ S.subs = {} /\ S.lifecycle = 1
  <2>1. NoSession \in SessionType /\ 1 \in 0..2
    BY <1>1, <1>2
  <2>2. ~NoSession.client /\ NoSession.subs = {}
    BY DEF NoSession
  <2> QED BY ZenonT(40), <2>1, <2>2, Woken
<1>4. Renewed(h, r, k, S) /\ r.tab.current = k /\ r.near = {}
  <2> DEFINE z == [PreparedFrom(h, k) EXCEPT !.tab.dial = "failed"]
  <2>0. /\ DOMAIN z = Fields /\ z.inbox = h.inbox /\ z.outbox = h.outbox
        /\ z.sdk = h.sdk /\ z.calls = h.calls /\ z.heard = h.heard /\ z.counts = h.counts
        /\ z.told = [by |-> k, status |-> "none"] /\ z.near = h.near
        /\ z.session = h.session
    BY <1>1 DEF PreparedFrom, Fields
  <2>10. z.tab = [[h.tab EXCEPT !.handlers = k, !.made = k, !.dial = "ok",
                                !.generation = @] EXCEPT !.dial = "failed"]
    BY <1>1 DEF PreparedFrom, Fields
  <2> HIDE DEF z
  <2>11. z.tab = [h.tab EXCEPT !.handlers = k, !.made = k, !.dial = "failed"]
    BY <1>1, <2>10 DEF TabType
  <2>12. r = [z EXCEPT !.tab.current = k, !.session[k].up = TRUE, !.session[k].lifecycle = 1]
    BY DEF z
  <2> HIDE DEF r
  <2>1. /\ DOMAIN r = Fields /\ r.inbox = h.inbox /\ r.outbox = h.outbox
        /\ r.sdk = h.sdk /\ r.calls = h.calls /\ r.heard = h.heard /\ r.counts = h.counts
        /\ r.told = [by |-> k, status |-> "none"] /\ r.near = h.near
        /\ r.tab = [z.tab EXCEPT !.current = k]
    BY <2>0, <2>12 DEF Fields
  <2>2. r.session = [[h.session EXCEPT ![k].up = TRUE] EXCEPT ![k].lifecycle = 1]
    BY <2>0, <2>12 DEF Fields
  <2>3. r.session = [h.session EXCEPT ![k] = S]
    BY <1>1, <1>2, <2>2
  <2>6. /\ r.tab \in TabType /\ r.tab.handlers = k /\ r.tab.made = k
        /\ r.tab.current = k
        /\ r.tab.asked = h.tab.asked /\ r.tab.backend = h.tab.backend
    <3> DEFINE g == h.tab.generation
    <3>1. k \in 0..MaxSessions /\ "failed" \in {"ok", "failed"} /\ g \in Nat
      BY <1>1 DEF Sessions, TabType
    <3>2. r.tab = [[h.tab EXCEPT !.handlers = k, !.made = k, !.dial = "failed"]
                      EXCEPT !.current = k]
      BY <2>1, <2>11
    <3>3. r.tab = TabAfter(h.tab, k, k, g, "failed")
      BY <1>1, <3>2 DEF TabType, TabAfter
    <3> HIDE DEF g
    <3>9. TabIs(h.tab, r.tab, k, k)
      BY <1>1, <3>1, <3>3, TabRenewed
    <3> QED BY <3>9 DEF TabIs
  <2>7. r.tab.backend = FALSE
    BY <1>1, <2>6 DEF TabType
  <2> HIDE DEF S
  <2> QED BY <1>2, <2>1, <2>3, <2>6, <2>7 DEF Renewed
<1>5. SessionOK(k, S, NoClient, TRUE)
  BY DEF SessionOK, NoSession, NoClient, NoToken
<1> HIDE DEF r, S
<1>6. /\ Sound(r) /\ Answered(r) /\ RestBut(r, n, k) /\ r.inbox[k] = <<>>
      /\ r.session[k] = S /\ r.sdk[k] = NoClient
  <2>1. Seated(r, k, S)
    BY <1>3, <1>4 DEF Seated
  <2>2. Seats(r, n, k, S)
    BY <1>3, <1>4, <1>5, <2>1, RenewedSound
  <2> QED BY <2>2 DEF Seats
<1>7. Rest(r, n)
  <2>1. Informed(r)
    <3>1. ASSUME NEW t \in Topics PROVE Follows(<<>>, t, {}, {}, NoClient.ended)
      BY DEF Follows
    <3> QED BY <1>3, <1>4, <1>6, <3>1 DEF Informed, Renewed
  <2>2. BegunAt(r, k)
    BY <1>3, <1>6 DEF BegunAt
  <2> QED BY <1>6, <2>1, <2>2 DEF Rest, RestBut, Begun, BegunAt
<1>8. Backed(r)
  BY <1>3, <1>4, <1>6 DEF Backed, Renewed
<1> QED BY <1>6, <1>7, <1>8 DEF Good, r

\* r is h without session k, which is left as S and D, and without a backend.
Parted(h, r, k, S, D) ==
  /\ DOMAIN r = Fields /\ r.near = {} /\ r.calls = h.calls /\ r.counts = h.counts
  /\ r.outbox = [h.outbox EXCEPT ![k] = <<>>] /\ r.inbox = [h.inbox EXCEPT ![k] = <<>>]
  /\ r.session = [h.session EXCEPT ![k] = S] /\ r.sdk = [h.sdk EXCEPT ![k] = D]
  /\ r.tab \in TabType /\ r.tab.current = None /\ r.tab.backend = FALSE
  /\ r.tab.asked = {} /\ r.tab.made = h.tab.made
  /\ r.told \in ToldType /\ r.told.by = h.tab.made /\ r.heard.of = r.heard.to

\* What is left of a session that the transport has no business with.
Left(S, D, k) ==
  /\ S \in SessionType /\ D \in ClientType /\ SessionOK(k, S, D, FALSE)
  /\ S.up => Local /\ S.lifecycle # 0

\* Without a backend there is little to be wrong.
LEMMA PartedGood ==
  ASSUME SetupOK, NEW h, NEW n, Good(h, n), NEW k \in Sessions, k \in h.near, NEW S, NEW D,
         Left(S, D, k), NEW r, Parted(h, r, k, S, D)
  PROVE  Good(r, n)
<1>1. Sound(h) /\ Rest(h, n) /\ Answered(h)
  BY DEF Good
<1>2. h.near = {k} /\ k = h.tab.current /\ k = h.tab.made /\ k # None
  BY Current DEF Sessions, None
<1>3. /\ S \in SessionType /\ D \in ClientType /\ SessionOK(k, S, D, FALSE)
      /\ S.up => Local /\ S.lifecycle # 0
  BY DEF Left
<1>4. /\ \A j \in Sessions : r.session[j] = IF j = k THEN S ELSE h.session[j]
      /\ \A j \in Sessions : r.sdk[j] = IF j = k THEN D ELSE h.sdk[j]
      /\ \A j \in Sessions : r.inbox[j] = IF j = k THEN <<>> ELSE h.inbox[j]
      /\ \A j \in Sessions : r.outbox[j] = IF j = k THEN <<>> ELSE h.outbox[j]
      /\ r.session \in [Sessions -> SessionType] /\ r.sdk \in [Sessions -> ClientType]
      /\ r.inbox = [j \in Sessions |-> r.inbox[j]] /\ r.outbox \in [Sessions -> Seq(Outbound)]
  <2>1. /\ h.session \in [Sessions -> SessionType] /\ h.sdk \in [Sessions -> ClientType]
        /\ h.inbox = [j \in Sessions |-> h.inbox[j]] /\ h.outbox \in [Sessions -> Seq(Outbound)]
    BY <1>1 DEF Sound
  <2>2. <<>> \in Seq(Outbound)
    OBVIOUS
  <2>3. /\ \A j \in Sessions : r.session[j] = IF j = k THEN S ELSE h.session[j]
        /\ \A j \in Sessions : r.sdk[j] = IF j = k THEN D ELSE h.sdk[j]
        /\ r.session \in [Sessions -> SessionType] /\ r.sdk \in [Sessions -> ClientType]
    BY <1>3, <2>1 DEF Parted
  <2>4. /\ \A j \in Sessions : r.outbox[j] = IF j = k THEN <<>> ELSE h.outbox[j]
        /\ r.outbox \in [Sessions -> Seq(Outbound)]
    BY <2>1, <2>2 DEF Parted
  <2>5. /\ \A j \in Sessions : r.inbox[j] = IF j = k THEN <<>> ELSE h.inbox[j]
        /\ r.inbox = [j \in Sessions |-> r.inbox[j]]
    BY <2>1 DEF Parted
  <2> QED BY <2>3, <2>4, <2>5
<1>5. TabOK(r)
  BY DEF Parted, TabOK
<1>6. ASSUME NEW j \in Sessions PROVE MailOK(r, j)
  <2>1. MailOK(h, j)
    BY <1>1 DEF Sound
  <2>2. CASE j = k
    <3>1. <<>> \in Seq(Inbound(k)) /\ k <= r.tab.made
      BY <1>2 DEF Parted, Sessions
    <3> QED BY <1>3, <1>4, <2>2, <3>1 DEF MailOK
  <2>3. CASE j # k
    BY <1>2, <1>4, <2>1, <2>3 DEF MailOK, Parted
  <2> QED BY <2>2, <2>3
<1>7. ASSUME NEW j \in Sessions
      PROVE  SessionOK(j, r.session[j], r.sdk[j], j = r.tab.current)
  <2>1. j # r.tab.current
    BY DEF Parted, Sessions, None
  <2>2. CASE j = k
    BY <1>3, <1>4, <2>1, <2>2 DEF SessionOK
  <2>3. CASE j # k
    <3>1. SessionOK(j, h.session[j], h.sdk[j], j = h.tab.current)
      BY <1>1 DEF Sound
    <3> QED BY <1>2, <1>4, <2>1, <2>3, <3>1 DEF SessionOK
  <2> QED BY <2>2, <2>3
<1>8. \A c \in r.calls : CallOK(c) /\ c.current <= r.tab.made
  BY <1>1 DEF Sound, Parted
<1>9. Sound(r)
  BY <1>1, <1>4, <1>5, <1>6, <1>7, <1>8 DEF Sound, Parted
<1>10. ASSUME NEW j \in Sessions PROVE r.sdk[j].need # "asked"
  <2>1. SessionOK(j, r.session[j], r.sdk[j], j = r.tab.current) /\ j # r.tab.current
    BY <1>7 DEF Parted, Sessions, None
  <2> QED BY <2>1 DEF SessionOK
<1>11. Rest(r, n)
  <2>1. Informed(r)
    BY DEF Informed, Parted, Sessions, None
  <2>2. Timely(r)
    BY <1>8 DEF Timely, Parted, CallOK, CallType, Sessions, None
  <2>3. ASSUME NEW j \in Sessions PROVE BegunAt(r, j)
    <3>1. CASE j = k
      <4>1. Len(<<>>) = 0 /\ 1..0 = {}
        OBVIOUS
      <4> QED BY <1>2, <1>3, <1>4, <3>1, <4>1 DEF BegunAt
    <3>2. CASE j # k
      BY <1>1, <1>4, <3>2 DEF Rest, Begun, BegunAt
    <3> QED BY <3>1, <3>2
  <2>4. Single(r, n)
    <3>1. ASSUME NEW j \in Sessions, NEW p \in Publications, NEW i \in 1..Len(r.outbox[j]),
                 Holds(r, j, i, p)
          PROVE  i \in 1..Len(h.outbox[j]) /\ Holds(h, j, i, p)
      <4>1. Len(<<>>) = 0 /\ 1..0 = {}
        OBVIOUS
      <4>2. j # k
        BY <1>4, <3>1, <4>1
      <4> QED BY <1>4, <3>1, <4>2 DEF Holds
    <3>2. Single(h, n) /\ r.counts = h.counts
      BY <1>1 DEF Rest, Parted
    <3> QED BY <3>1, <3>2 DEF Single
  <2> QED BY <2>1, <2>2, <2>3, <2>4 DEF Rest, Begun, BegunAt
<1>12. Backed(r)
  BY DEF Backed, Parted
<1> QED BY <1>9, <1>10, <1>11, <1>12 DEF Good, Answered

\* A worker that is gone is such a session.
LEMMA LeftWorker ==
  ASSUME NEW k \in Sessions PROVE Left(NoSession, NoClient, k)
<1>1. NoSession \in SessionType
  BY BridgeAssumption DEF NoSession, SessionType
<1>2. NoClient \in ClientType
  <2>1. NoToken \in Tokens /\ None \in 0..MaxRequests
    BY BridgeAssumption DEF Tokens, None
  <2>2. [t \in Topics |-> 0] \in [Topics -> 0..1]
    OBVIOUS
  <2> QED BY <2>1, <2>2 DEF NoClient, ClientType
<1>3. SessionOK(k, NoSession, NoClient, FALSE)
  BY DEF SessionOK, NoSession, NoClient, NoToken
<1> QED BY <1>1, <1>2, <1>3 DEF Left, NoSession

\* The fields of the transport without a backend.
TabGone(T) == [T EXCEPT !.current = None, !.backend = FALSE, !.asked = {}]

\* They are of the same type.
LEMMA TabGoneType ==
  ASSUME NEW T \in TabType
  PROVE  /\ TabGone(T) \in TabType /\ TabGone(T).current = None /\ TabGone(T).backend = FALSE
         /\ TabGone(T).asked = {} /\ TabGone(T).made = T.made
         /\ TabGone(T).handlers = T.handlers
<1>1. None \in 0..MaxSessions
  BY BridgeAssumption DEF None
<1> QED BY <1>1 DEF TabGone, TabType

\* Detach of a worker.
LEMMA DetachWorker ==
  ASSUME NEW s, DOMAIN s = Fields, NEW k, k = s.tab.current, ~Local
  PROVE  LET r == Detach(s)
         IN /\ DOMAIN r = Fields /\ r.tab = TabGone(s.tab) /\ r.near = s.near \ {k}
            /\ r.session = [s.session EXCEPT ![k] = NoSession]
            /\ r.sdk = [s.sdk EXCEPT ![k] = NoClient]
            /\ r.inbox = [s.inbox EXCEPT ![k] = <<>>]
            /\ r.outbox = [s.outbox EXCEPT ![k] = <<>>]
            /\ r.calls = s.calls /\ r.told = s.told /\ r.heard = s.heard /\ r.counts = s.counts
BY DEF Detach, Gone, Fields, TabGone

\* The worker is gone, and the tab was told so.
Failed(h, r) ==
  h.tab.backend /\ r.tab = TabGone(h.tab) /\ r.told = [h.told EXCEPT !.status = "error"]

\* onWorkerFailed.
LEMMA WorkerFailedGood ==
  ASSUME SetupOK, NEW h, NEW n, Good(h, n), NEW k \in Sessions, k \in h.near, ~Local
  PROVE  Good(WorkerFailed(h), n) /\ Failed(h, WorkerFailed(h))
<1> DEFINE d == Detach(h)
           r == WorkerFailed(h)
<1>1. Sound(h) /\ DOMAIN h = Fields /\ h.tab \in TabType
      /\ h.session \in [Sessions -> SessionType]
      /\ h.told \in ToldType /\ h.told.by = h.tab.made
  BY DEF Good, Sound, TabOK
<1>2. /\ h.near = {k} /\ k = h.tab.current /\ k = h.tab.made /\ k # None /\ h.tab.handlers = k
      /\ h.tab.backend
  BY Current DEF Sessions, None
<1>3. /\ DOMAIN d = Fields /\ d.tab = TabGone(h.tab) /\ d.near = h.near \ {k}
      /\ d.session = [h.session EXCEPT ![k] = NoSession]
      /\ d.sdk = [h.sdk EXCEPT ![k] = NoClient]
      /\ d.inbox = [h.inbox EXCEPT ![k] = <<>>]
      /\ d.outbox = [h.outbox EXCEPT ![k] = <<>>]
      /\ d.calls = h.calls /\ d.told = h.told /\ d.heard = h.heard /\ d.counts = h.counts
  BY <1>1, <1>2, DetachWorker
<1>4. /\ d.tab \in TabType /\ d.tab.current = None /\ d.tab.backend = FALSE
      /\ d.tab.asked = {} /\ d.tab.made = k /\ d.tab.handlers = k
  <2> DEFINE T == h.tab
  <2>1. T \in TabType /\ d.tab = TabGone(T) /\ T.made = k /\ T.handlers = k
    BY <1>1, <1>2, <1>3
  <2> HIDE DEF T, d
  <2> QED BY <2>1, TabGoneType
<1> HIDE DEF d
<1>5. r = [d EXCEPT !.heard = [of |-> k, to |-> k], !.told = [by |-> k, status |-> "error"]]
  <2>1. r = Report(d, k, "error")
    BY <1>2 DEF WorkerFailed, d
  <2> QED BY <1>2, <1>3, <1>4, <2>1 DEF Report, HandOn, Fields
<1> HIDE DEF r
<1>6. /\ DOMAIN r = Fields /\ r.tab = d.tab /\ r.near = d.near /\ r.session = d.session
      /\ r.sdk = d.sdk /\ r.inbox = d.inbox /\ r.outbox = d.outbox /\ r.calls = d.calls
      /\ r.counts = d.counts /\ r.told = [by |-> k, status |-> "error"]
      /\ r.heard = [of |-> k, to |-> k]
  BY <1>3, <1>5 DEF Fields
<1>7. r.told \in ToldType
  BY <1>6 DEF ToldType, Sessions
<1>8. Parted(h, r, k, NoSession, NoClient)
  BY <1>2, <1>3, <1>4, <1>6, <1>7 DEF Parted
<1>9. Good(r, n)
  BY <1>8, LeftWorker, PartedGood
<1>10. Failed(h, r)
  <2>1. r.told = [h.told EXCEPT !.status = "error"]
    BY <1>1, <1>2, <1>6 DEF ToldType
  <2> QED BY <1>2, <1>3, <1>6, <2>1 DEF Failed
<1> QED BY <1>9, <1>10 DEF r

\* stop() of the transport, from its first assignment to its last.
StopFrom(h) ==
  LET posted == Post([h EXCEPT !.tab.generation = @ + 1], [type |-> "stop"])
      silent == IF Local THEN posted ELSE [posted EXCEPT !.told.status = "none"]
  IN [Detach(silent) EXCEPT !.tab.handlers = None]

\* The fields of the transport after stop().
TabStopped(T) ==
  [T EXCEPT !.generation = @ + 1, !.current = None, !.backend = FALSE, !.asked = {},
            !.handlers = None]

\* They are of the same type.
LEMMA TabStoppedType ==
  ASSUME NEW T \in TabType
  PROVE  /\ TabStopped(T) \in TabType /\ TabStopped(T).current = None
         /\ TabStopped(T).backend = FALSE /\ TabStopped(T).asked = {}
         /\ TabStopped(T).made = T.made
<1>1. None \in 0..MaxSessions
  BY BridgeAssumption DEF None
<1> DEFINE g == T.generation + 1
<1>2. g \in Nat
  BY DEF TabType
<1>3. TabStopped(T) = [T EXCEPT !.generation = g, !.current = None, !.backend = FALSE,
                                !.asked = {}, !.handlers = None]
  BY DEF TabStopped
<1> HIDE DEF g
<1> QED BY <1>1, <1>2, <1>3 DEF TabType

\* So is the last status.
LEMMA ToldAfter ==
  ASSUME NEW T \in ToldType, NEW status \in Statuses \cup {"none"}
  PROVE  /\ [T EXCEPT !.status = status] \in ToldType
         /\ [T EXCEPT !.status = status].by = T.by
BY DEF ToldType

\* The transport has stopped; a session in the tab said so.
Quits(h, r) ==
  /\ r.tab = TabStopped(h.tab)
  /\ \E status \in {"none", "disconnected"} : r.told = [h.told EXCEPT !.status = status]

\* stop() with a worker: whatever was in its inbox, STOP included, is lost.
LEMMA StopWorkerGood ==
  ASSUME SetupOK, NEW h, NEW n, Good(h, n), NEW k \in Sessions, k \in h.near, ~Local
  PROVE  Good(StopFrom(h), n) /\ Quits(h, StopFrom(h))
<1> DEFINE g == [h EXCEPT !.tab.generation = @ + 1]
           p == Post(g, [type |-> "stop"])
           q == [p EXCEPT !.told.status = "none"]
           d == Detach(q)
           r == [d EXCEPT !.tab.handlers = None]
<1>1. /\ Sound(h) /\ DOMAIN h = Fields /\ h.tab \in TabType /\ h.told \in ToldType
      /\ h.told.by = h.tab.made /\ h.heard.of = h.heard.to
      /\ h.inbox = [j \in Sessions |-> h.inbox[j]]
  BY DEF Good, Sound, TabOK
<1>2. k = h.tab.current
  BY Current
<1>3. /\ DOMAIN g = Fields /\ g.tab = [h.tab EXCEPT !.generation = @ + 1]
      /\ g.near = h.near /\ g.session = h.session /\ g.sdk = h.sdk
      /\ g.inbox = h.inbox /\ g.outbox = h.outbox /\ g.calls = h.calls /\ g.counts = h.counts
      /\ g.told = h.told /\ g.heard = h.heard
  BY <1>1 DEF Fields
<1>4. g.tab.current = k
  BY <1>1, <1>2, <1>3 DEF TabType
<1> HIDE DEF g
<1>5. /\ DOMAIN p = Fields /\ p.tab = g.tab
      /\ p.near = h.near /\ p.session = h.session /\ p.sdk = h.sdk
      /\ p.outbox = h.outbox /\ p.calls = h.calls /\ p.counts = h.counts
      /\ p.told = h.told /\ p.heard = h.heard
      /\ [p.inbox EXCEPT ![k] = <<>>] = [h.inbox EXCEPT ![k] = <<>>]
  <2>1. p = Send(g, k, [type |-> "stop"])
    BY <1>4 DEF Post
  <2>2. CASE g.session[k].up
    <3>1. p = [g EXCEPT !.inbox[k] = Append(@, [type |-> "stop"])]
      BY <2>1, <2>2 DEF Send
    <3> DEFINE i == Append(g.inbox[k], [type |-> "stop"])
    <3>2. p = [g EXCEPT !.inbox = [g.inbox EXCEPT ![k] = i]]
      BY <3>1
    <3> HIDE DEF p, i
    <3> QED BY <1>1, <1>3, <3>2 DEF Fields
  <2>3. CASE ~g.session[k].up
    <3>1. p = g
      BY <2>1, <2>3 DEF Send
    <3> HIDE DEF p
    <3> QED BY <1>3, <3>1
  <2> QED BY <2>2, <2>3
<1> HIDE DEF p
<1>6. /\ DOMAIN q = Fields /\ q.tab = g.tab
      /\ q.near = h.near /\ q.session = h.session /\ q.sdk = h.sdk
      /\ q.outbox = h.outbox /\ q.calls = h.calls /\ q.counts = h.counts
      /\ q.told = [h.told EXCEPT !.status = "none"] /\ q.heard = h.heard
      /\ q.inbox = p.inbox
  BY <1>5 DEF Fields
<1> HIDE DEF q
<1>7. /\ DOMAIN d = Fields /\ d.tab = TabGone(q.tab) /\ d.near = q.near \ {k}
      /\ d.session = [q.session EXCEPT ![k] = NoSession]
      /\ d.sdk = [q.sdk EXCEPT ![k] = NoClient]
      /\ d.inbox = [q.inbox EXCEPT ![k] = <<>>]
      /\ d.outbox = [q.outbox EXCEPT ![k] = <<>>]
      /\ d.calls = q.calls /\ d.told = q.told /\ d.heard = q.heard /\ d.counts = q.counts
  <2>1. k = q.tab.current
    BY <1>4, <1>6
  <2> QED BY <1>6, <2>1, DetachWorker
<1> HIDE DEF d
<1>8. /\ DOMAIN r = Fields /\ r.tab = [d.tab EXCEPT !.handlers = None]
      /\ r.near = d.near /\ r.session = d.session /\ r.sdk = d.sdk
      /\ r.inbox = d.inbox /\ r.outbox = d.outbox
      /\ r.calls = d.calls /\ r.told = d.told /\ r.heard = d.heard /\ r.counts = d.counts
  BY <1>7 DEF Fields
<1> HIDE DEF r
<1>9. r.tab = TabStopped(h.tab)
  <2> DEFINE T == h.tab
  <2>1. T \in TabType
        /\ r.tab = [TabGone([T EXCEPT !.generation = @ + 1]) EXCEPT !.handlers = None]
    BY <1>1, <1>3, <1>6, <1>7, <1>8
  <2> HIDE DEF T
  <2>2. r.tab = TabStopped(T)
    BY <2>1 DEF TabGone, TabStopped, TabType
  <2> QED BY <2>2 DEF T
<1>10. /\ r.tab \in TabType /\ r.tab.current = None /\ r.tab.backend = FALSE
       /\ r.tab.asked = {} /\ r.tab.made = h.tab.made
  BY <1>1, <1>9, TabStoppedType
<1>11. r.told \in ToldType /\ r.told.by = h.tab.made
  <2>1. r.told = [h.told EXCEPT !.status = "none"]
    BY <1>6, <1>7, <1>8
  <2> QED BY <1>1, <2>1, ToldAfter
<1>12. r.near = {}
  BY <1>6, <1>7, <1>8, Current
<1>13. Parted(h, r, k, NoSession, NoClient)
  BY <1>1, <1>5, <1>6, <1>7, <1>8, <1>10, <1>11, <1>12 DEF Parted
<1>14. Good(r, n)
  BY <1>13, LeftWorker, PartedGood
<1>15. StopFrom(h) = r
  BY DEF StopFrom, r, d, q, p, g
<1>16. Quits(h, r)
  BY <1>6, <1>7, <1>8, <1>9 DEF Quits
<1> QED BY <1>14, <1>15, <1>16

\* A stopped session and its client.
Ended(S0) == [S0 EXCEPT !.lifecycle = @ + 1, !.pending = {}, !.subs = {}, !.client = FALSE]
Silent(D0, need) == [D0 EXCEPT !.state = "off", !.on = {}, !.need = need]

\* stop of a session in the tab leaves a client that waits for nothing.
LEMMA EndedLeft ==
  ASSUME NEW S0 \in SessionType, NEW D0 \in ClientType, NEW k \in Sessions,
         SessionOK(k, S0, D0, TRUE), S0.client, Local, NEW need \in {"none", "got", "refused"}
  PROVE  /\ Left(Ended(S0), Silent(D0, need), k) /\ Ended(S0).up = S0.up
         /\ SessionOK(k, Ended(S0), Silent(D0, need), TRUE)
<1> DEFINE S == Ended(S0)
           D == Silent(D0, need)
<1>1. S0.lifecycle = 1 /\ S0.up
  BY DEF SessionOK
<1>2. /\ S \in SessionType /\ S.up = S0.up /\ S.lifecycle = 2 /\ S.pending = {} /\ S.subs = {}
      /\ S.client = FALSE /\ S.next = S0.next
  <2> DEFINE l == S0.lifecycle + 1
  <2>1. l = 2 /\ l \in 0..2
    BY <1>1
  <2>2. S = [S0 EXCEPT !.lifecycle = l, !.pending = {}, !.subs = {}, !.client = FALSE]
    BY DEF Ended
  <2> HIDE DEF l, S
  <2> QED BY <2>1, <2>2 DEF SessionType
<1>3. /\ D \in ClientType /\ D.state = "off" /\ D.on = {} /\ D.need = need
      /\ D.token = D0.token /\ D.asked = D0.asked
  BY DEF Silent, ClientType
<1> HIDE DEF S, D
<1>4. SessionOK(k, S, D, FALSE) /\ SessionOK(k, S, D, TRUE)
  <2>1. D.need # "asked"
    BY <1>3
  <2> QED BY <1>1, <1>2, <1>3, <2>1 DEF SessionOK
<1>5. Left(S, D, k) /\ S.up = S0.up
  <2>1. S.lifecycle # 0
    BY <1>2
  <2>2. S.up => Local /\ S.lifecycle # 0
    BY <2>1
  <2>3. Left(S, D, k)
    BY <1>2, <1>3, <1>4, <2>2 DEF Left
  <2> QED BY <1>2, <2>3
<1> QED BY <1>4, <1>5 DEF S, D

\* Fields of a client that change together.
SdkAfter(y, k, a, b) == [y EXCEPT !.sdk[k].state = a, !.sdk[k].on = b]

\* They are one change of sdk.
LEMMA SdkTwice ==
  ASSUME NEW y, DOMAIN y = Fields, NEW k, NEW a, NEW b
  PROVE  SdkAfter(y, k, a, b)
           = [y EXCEPT !.sdk = [[y.sdk EXCEPT ![k].state = a] EXCEPT ![k].on = b]]
<1> DEFINE A == [y.sdk EXCEPT ![k].state = a]
           B == [A EXCEPT ![k].on = b]
           z == [y EXCEPT !.sdk[k].state = a]
<1>1. z = [y EXCEPT !.sdk = A]
  BY DEF Fields
<1>2. [z EXCEPT !.sdk[k].on = b] = [y EXCEPT !.sdk[k].state = a, !.sdk[k].on = b]
  OBVIOUS
<1> HIDE DEF A, z
<1>3. DOMAIN z = Fields /\ z.sdk = A
  BY <1>1 DEF Fields
<1>4. [z EXCEPT !.sdk[k].on = b] = [z EXCEPT !.sdk = B]
  BY <1>3 DEF Fields
<1> HIDE DEF B
<1>5. [z EXCEPT !.sdk = B] = [y EXCEPT !.sdk = B]
  BY <1>1 DEF Fields
<1> QED BY <1>2, <1>4, <1>5 DEF A, B, SdkAfter

\* The state with the four fields stop clears in session k.
SessionEnded(s, k) == [s EXCEPT !.session[k].lifecycle = @ + 1, !.session[k].pending = {},
                                !.session[k].subs = {}, !.session[k].client = FALSE]

\* stop clears four fields of the session's record, and no other field of the state.
LEMMA SessionEnds ==
  ASSUME NEW s, NEW k \in Sessions, DOMAIN s = Fields, s.session \in [Sessions -> SessionType]
  PROVE  LET y == SessionEnded(s, k)
         IN /\ y.session = [s.session EXCEPT ![k] = Ended(s.session[k])] /\ y.sdk = s.sdk
            /\ DOMAIN y = Fields /\ y = [s EXCEPT !.session = y.session]
<1> DEFINE S0 == s.session[k]
           n == S0.lifecycle + 1
           P == [s EXCEPT !.session[k].lifecycle = n]
           Q == [P EXCEPT !.session[k].pending = {}]
           R == [Q EXCEPT !.session[k].subs = {}]
           y == SessionEnded(s, k)
           a == [S0 EXCEPT !.lifecycle = n]
           b == [a EXCEPT !.pending = {}]
           c == [b EXCEPT !.subs = {}]
           d == [c EXCEPT !.client = FALSE]
<1>1. y = [R EXCEPT !.session[k].client = FALSE]
  BY DEF SessionEnded
<1>2. S0 \in SessionType
  OBVIOUS
<1>3. d = Ended(S0)
  BY DEF Ended
<1>4. /\ P.session = [s.session EXCEPT ![k] = a] /\ P.sdk = s.sdk /\ DOMAIN P = Fields
      /\ P = [s EXCEPT !.session = P.session]
  BY DEF Fields
<1> HIDE DEF P, y, n, a
<1>5. /\ Q.session = [s.session EXCEPT ![k] = b] /\ Q.sdk = s.sdk /\ DOMAIN Q = Fields
      /\ Q = [s EXCEPT !.session = Q.session]
  BY <1>4 DEF Fields
<1> HIDE DEF Q, b
<1>6. /\ R.session = [s.session EXCEPT ![k] = c] /\ R.sdk = s.sdk /\ DOMAIN R = Fields
      /\ R = [s EXCEPT !.session = R.session]
  BY <1>5 DEF Fields
<1> HIDE DEF R, c
<1>7. /\ y.session = [s.session EXCEPT ![k] = d] /\ y.sdk = s.sdk /\ DOMAIN y = Fields
      /\ y = [s EXCEPT !.session = y.session]
  BY <1>1, <1>6 DEF Fields
<1> QED BY <1>3, <1>7 DEF y

\* stop of the session: the client is silent, its request refused.
LEMMA SessionStopSaid ==
  ASSUME SetupOK, NEW s, Sound(s), NEW k \in Sessions, s.session[k].client, Local,
         NEW need, need = IF s.session[k].pending # {} THEN "refused" ELSE s.sdk[k].need
  PROVE  LET x == Changed(s, k, Ended(s.session[k]), Silent(s.sdk[k], need))
         IN /\ Said(x, SessionStop(s, k), k, Status("disconnected")) /\ Sound(x)
            /\ Left(Ended(s.session[k]), Silent(s.sdk[k], need), k)
<1> DEFINE S0 == s.session[k]
           D0 == s.sdk[k]
           S == Ended(S0)
           D == Silent(D0, need)
           x == Changed(s, k, S, D)
           m == Status("disconnected")
<1>1. /\ SessionOK(k, S0, D0, TRUE) /\ S0 \in SessionType /\ D0 \in ClientType
      /\ k = s.tab.current
  BY ZenonT(40), InUse
<1>2. need \in {"none", "got", "refused"}
  BY <1>1 DEF SessionOK, ClientType
<1>3. SessionStop(s, k) = Emit(x, k, m)
  <2> DEFINE z == [s EXCEPT !.session[k].lifecycle = @ + 1, !.session[k].pending = {},
                    !.session[k].subs = {}, !.session[k].client = FALSE,
                    !.sdk[k].state = "off", !.sdk[k].on = {},
                    !.sdk[k].need = IF S0.pending # {} THEN "refused" ELSE @]
  <2>1. /\ DOMAIN s = Fields /\ s.session \in [Sessions -> SessionType]
        /\ s.sdk \in [Sessions -> ClientType]
    BY DEF Sound
  <2> DEFINE y == SessionEnded(s, k)
             w == [y EXCEPT !.sdk[k].state = "off", !.sdk[k].on = {}, !.sdk[k].need = need]
  <2>2. /\ y.session = [s.session EXCEPT ![k] = S] /\ y.sdk = s.sdk /\ DOMAIN y = Fields
        /\ y = [s EXCEPT !.session = y.session]
    BY <1>1, <2>1, SessionEnds
  <2> HIDE DEF y
  <2> DEFINE A == [[y.sdk EXCEPT ![k].state = "off"] EXCEPT ![k].on = {}]
             v == [y EXCEPT !.sdk = A]
  <2>6. v = SdkAfter(y, k, "off", {})
    BY <2>2, SdkTwice
  <2>7. v.sdk[k].need = D0.need /\ v.sdk = A
    BY <1>1, <2>1, <2>2 DEF Fields, ClientType
  <2>8. z = w
    <3> DEFINE kept == IF S0.pending # {} THEN "refused" ELSE y.sdk[k].need
    <3>1. kept = need
      BY <2>2
    <3>2. z = [y EXCEPT !.sdk[k].state = "off", !.sdk[k].on = {}, !.sdk[k].need = kept]
      BY DEF y, SessionEnded
    <3> HIDE DEF kept, z
    <3> QED BY <3>1, <3>2
  <2>9. w = [v EXCEPT !.sdk[k].need = need]
    <3>1. w = [SdkAfter(y, k, "off", {}) EXCEPT !.sdk[k].need = need]
      BY DEF SdkAfter
    <3> HIDE DEF w, v
    <3> QED BY <2>6, <3>1
  <2> HIDE DEF z, w, v
  <2>3. [A EXCEPT ![k].need = need] = [s.sdk EXCEPT ![k] = D]
    BY ZenonT(40), <1>1, <2>1, <2>2 DEF ClientType, Silent
  <2>4. w = [y EXCEPT !.sdk = [A EXCEPT ![k].need = need]]
    <3> HIDE DEF A
    <3>1. v = [y EXCEPT !.sdk = A]
      BY DEF v
    <3> QED BY <2>2, <2>7, <2>9, <3>1 DEF Fields
  <2> HIDE DEF A
  <2>5. x = [s EXCEPT !.session = [s.session EXCEPT ![k] = S],
                      !.sdk = [s.sdk EXCEPT ![k] = D]]
    BY <2>1 DEF Fields, Changed
  <2> HIDE DEF x, S, D
  <2>10. SessionStop(s, k) = Emit(z, k, m)
    BY DEF SessionStop, z
  <2>11. w = x
    BY <2>1, <2>2, <2>3, <2>4, <2>5 DEF Fields
  <2> QED BY <2>8, <2>10, <2>11
<1>4. Left(S, D, k) /\ S.up = S0.up /\ SessionOK(k, S, D, TRUE)
  BY ZenonT(40), <1>1, <1>2, EndedLeft
<1>5. SessionOK(k, S, D, k = s.tab.current)
  BY ZenonT(40), <1>1, <1>4
<1> HIDE DEF S, D
<1>6. Sound(x) /\ x.tab = s.tab
  <2>1. Sound(x)
    BY ZenonT(40), <1>4, <1>5, FieldsSound DEF Left, Changed
  <2> QED BY <2>1 DEF Changed, Sound, Fields
<1> HIDE DEF x
<1>7. m \in Plain
  BY StatusPlain DEF Statuses
<1> HIDE DEF m
<1>8. Said(x, Emit(x, k, m), k, m)
  BY <1>1, <1>6, <1>7, EmitSaid
<1> QED BY <1>3, <1>4, <1>6, <1>8 DEF x, S, D, m

\* stop() in the tab: the session is stopped, and then left.
LEMMA StopLocalGood ==
  ASSUME SetupOK, NEW h, NEW n, Good(h, n), NEW k \in Sessions, k \in h.near, Local
  PROVE  Good(StopFrom(h), n) /\ Quits(h, StopFrom(h))
<1> DEFINE g == [h EXCEPT !.tab.generation = @ + 1]
           need == IF h.session[k].pending # {} THEN "refused" ELSE h.sdk[k].need
           S == Ended(h.session[k])
           D == Silent(h.sdk[k], need)
           x == Changed(g, k, S, D)
           m == Status("disconnected")
           p == SessionStop(g, k)
           d == Detach(p)
           r == [d EXCEPT !.tab.handlers = None]
<1>1. /\ Sound(h) /\ Rest(h, n) /\ Backed(h) /\ DOMAIN h = Fields /\ h.tab \in TabType
      /\ h.told \in ToldType
      /\ h.told.by = h.tab.made /\ h.heard.of = h.heard.to
      /\ h.inbox = [j \in Sessions |-> h.inbox[j]] /\ h.outbox \in [Sessions -> Seq(Outbound)]
  BY DEF Good, Sound, TabOK
<1>2. k = h.tab.current /\ h.tab.backend /\ h.near = {k} /\ h.session[k].client
  BY <1>1, Current DEF Backed
<1>3. /\ DOMAIN g = Fields /\ g.tab = [h.tab EXCEPT !.generation = @ + 1]
      /\ g.near = h.near /\ g.session = h.session /\ g.sdk = h.sdk
      /\ g.inbox = h.inbox /\ g.outbox = h.outbox /\ g.calls = h.calls /\ g.counts = h.counts
      /\ g.told = h.told /\ g.heard = h.heard
  BY <1>1 DEF Fields
<1> HIDE DEF g
<1>4. /\ g.tab.current = k /\ g.tab \in TabType /\ g.tab.made = h.tab.made
      /\ g.tab.handlers = h.tab.handlers
  <2> DEFINE T == h.tab
             l == T.generation + 1
  <2>1. T \in TabType /\ l \in Nat /\ T.current = k
    BY <1>1, <1>2 DEF TabType
  <2>2. g.tab = [T EXCEPT !.generation = l]
    BY <1>3
  <2> HIDE DEF T, l
  <2>3. g.tab.current = k /\ g.tab \in TabType /\ g.tab.made = T.made /\ g.tab.handlers = T.handlers
    BY <2>1, <2>2 DEF TabType
  <2> QED BY <2>3 DEF T
<1>5. Sound(g)
  <2>1. TabOK(g)
    BY <1>1, <1>3, <1>4 DEF Sound, TabOK
  <2>2. \A j \in Sessions : MailOK(g, j)
    BY <1>1, <1>3, <1>4 DEF Sound, MailOK
  <2> QED BY <1>1, <1>2, <1>3, <1>4, <2>1, <2>2 DEF Sound
<1>6. Said(x, p, k, m) /\ Sound(x) /\ Left(S, D, k)
  <2>1. need = IF g.session[k].pending # {} THEN "refused" ELSE g.sdk[k].need
    BY <1>3
  <2>2. g.session[k].client /\ g.session[k] = h.session[k] /\ g.sdk[k] = h.sdk[k]
    BY <1>2, <1>3
  <2> HIDE DEF need, p, m
  <2> QED BY <1>5, <2>1, <2>2, SessionStopSaid DEF p, m
<1>7. /\ x.tab = g.tab /\ x.near = g.near /\ x.inbox = g.inbox /\ x.outbox = g.outbox
      /\ x.calls = g.calls /\ x.counts = g.counts /\ x.told = g.told /\ x.heard = g.heard
      /\ x.session = [g.session EXCEPT ![k] = S] /\ x.sdk = [g.sdk EXCEPT ![k] = D]
  BY <1>3 DEF Changed, Fields
<1>8. m.type = "status" /\ m.status = "disconnected"
  BY DEF m, Status
<1> HIDE DEF x, S, D, p, m
<1>9. /\ DOMAIN p = Fields /\ p.tab = g.tab /\ p.near = h.near /\ p.inbox = h.inbox
      /\ p.outbox = h.outbox /\ p.calls = h.calls /\ p.counts = h.counts
      /\ p.told = [h.told EXCEPT !.status = "disconnected"] /\ p.heard.of = p.heard.to
      /\ p.session = [h.session EXCEPT ![k] = S] /\ p.sdk = [h.sdk EXCEPT ![k] = D]
  BY <1>3, <1>6, <1>7, <1>8 DEF Said
<1>10. /\ DOMAIN d = Fields /\ d.tab = TabGone(p.tab) /\ d.near = p.near \ {k}
       /\ d.inbox = p.inbox /\ d.outbox = p.outbox /\ d.session = p.session /\ d.sdk = p.sdk
       /\ d.calls = p.calls /\ d.told = p.told /\ d.heard = p.heard /\ d.counts = p.counts
  <2>1. p.tab.current = k
    BY <1>4, <1>9
  <2> QED BY <1>9, <2>1 DEF Detach, Fields, TabGone
<1> HIDE DEF d
<1>11. /\ DOMAIN r = Fields /\ r.tab = [d.tab EXCEPT !.handlers = None]
       /\ r.near = d.near /\ r.session = d.session /\ r.sdk = d.sdk
       /\ r.inbox = d.inbox /\ r.outbox = d.outbox
       /\ r.calls = d.calls /\ r.told = d.told /\ r.heard = d.heard /\ r.counts = d.counts
  BY <1>10 DEF Fields
<1> HIDE DEF r
<1>12. r.tab = TabStopped(h.tab)
  <2> DEFINE T == h.tab
  <2>1. T \in TabType
        /\ r.tab = [TabGone([T EXCEPT !.generation = @ + 1]) EXCEPT !.handlers = None]
    BY <1>1, <1>3, <1>9, <1>10, <1>11
  <2> HIDE DEF T
  <2>2. r.tab = TabStopped(T)
    BY <2>1 DEF TabGone, TabStopped, TabType
  <2> QED BY <2>2 DEF T
<1>13. /\ r.tab \in TabType /\ r.tab.current = None /\ r.tab.backend = FALSE
       /\ r.tab.asked = {} /\ r.tab.made = h.tab.made
  BY <1>1, <1>12, TabStoppedType
<1>14. r.told \in ToldType /\ r.told.by = h.tab.made
  <2>1. r.told = [h.told EXCEPT !.status = "disconnected"]
    BY <1>9, <1>10, <1>11
  <2>2. "disconnected" \in Statuses \cup {"none"}
    BY DEF Statuses
  <2> QED BY <1>1, <2>1, <2>2, ToldAfter
<1>15. r.near = {}
  BY <1>2, <1>9, <1>10, <1>11
<1>16. /\ r.inbox = [h.inbox EXCEPT ![k] = <<>>] /\ r.outbox = [h.outbox EXCEPT ![k] = <<>>]
  <2>1. h.inbox[k] = <<>> /\ h.outbox[k] = <<>>
    BY <1>1 DEF Sound, MailOK
  <2>2. r.inbox = h.inbox /\ r.outbox = h.outbox
    BY <1>9, <1>10, <1>11
  <2> QED BY <1>1, <2>1, <2>2
<1>17. Parted(h, r, k, S, D)
  BY <1>9, <1>10, <1>11, <1>13, <1>14, <1>15, <1>16 DEF Parted
<1>18. Good(r, n)
  BY <1>6, <1>17, PartedGood
<1>19. StopFrom(h) = r
  <2>1. Post(g, [type |-> "stop"]) = SessionStop(g, k)
    BY <1>4 DEF Post, Handle
  <2> QED BY <2>1 DEF StopFrom, r, d, p, g
<1>20. Quits(h, r)
  BY <1>9, <1>10, <1>11, <1>12 DEF Quits
<1> QED BY <1>18, <1>19, <1>20

\* stop().
LEMMA StopGood ==
  ASSUME SetupOK, NEW h, NEW n, Good(h, n), h.tab.backend
  PROVE  Good(StopFrom(h), n) /\ Quits(h, StopFrom(h))
<1>1. h.tab.current \in Sessions /\ h.tab.current \in h.near
  BY DEF Good, Backed, Sound, TabOK
<1> QED BY <1>1, StopWorkerGood, StopLocalGood

----------------------------------------------------------------------------
(* The Centrifuge client and its server.                                   *)

\* s with another client of session k.
ClientOnly(s, y, k, D) == y = [s EXCEPT !.sdk = [s.sdk EXCEPT ![k] = D]]

\* s and what it has become, calmly.
Calmly(s, r, k) == Sound(r) /\ Calm(s, r, k) /\ Answered(r)

\* A client that changes and asks for nothing new is calm.
LEMMA ClientCalm ==
  ASSUME NEW s, NEW n, Good(s, n), NEW k \in Sessions, NEW D \in ClientType,
         SessionOK(k, s.session[k], D, k = s.tab.current), D.ended = s.sdk[k].ended,
         D.need = "asked" => s.sdk[k].need = "asked" /\ D.asked = s.sdk[k].asked,
         NEW y, ClientOnly(s, y, k, D)
  PROVE  /\ Calmly(s, y, k) /\ y.tab = s.tab /\ y.session = s.session /\ y.sdk[k] = D
         /\ y = Changed(s, k, s.session[k], D)
<1> DEFINE S == s.session[k]
<1>1. Sound(s) /\ Answered(s) /\ S \in SessionType /\ DOMAIN s = Fields
      /\ s.session \in [Sessions -> SessionType] /\ s.sdk \in [Sessions -> ClientType]
  BY DEF Good, Sound
<1>2. y = [s EXCEPT !.session[k] = S, !.sdk[k] = D]
  <2>1. [s.session EXCEPT ![k] = S] = s.session
    BY <1>1
  <2>2. [s EXCEPT !.session[k] = S, !.sdk[k] = D]
          = [s EXCEPT !.session = [s.session EXCEPT ![k] = S], !.sdk = [s.sdk EXCEPT ![k] = D]]
    BY <1>1 DEF Fields
  <2>3. [s EXCEPT !.session = s.session, !.sdk = [s.sdk EXCEPT ![k] = D]]
          = [s EXCEPT !.sdk = [s.sdk EXCEPT ![k] = D]]
    BY <1>1 DEF Fields
  <2> QED BY <2>1, <2>2, <2>3 DEF ClientOnly
<1>3. Sound(y)
  BY ZenonT(40), <1>1, <1>2, FieldsSound
<1>4. Calm(s, y, k)
  BY ZenonT(40), <1>1, <1>2, FieldsCalm
<1>5. y.tab = s.tab /\ y.session = s.session /\ y.sdk = [s.sdk EXCEPT ![k] = D]
  BY <1>1 DEF ClientOnly, Fields
<1>6. y.sdk[k] = D
  BY <1>1, <1>5
<1>7. Answered(y)
  BY <1>1, <1>3, <1>4, <1>6, CalmStill
<1> QED BY <1>2, <1>3, <1>4, <1>5, <1>6, <1>7 DEF Calmly, Changed

\* What a client reports, once or twice, changes nothing else.
LEMMA ReportsCalmly ==
  ASSUME SetupOK, NEW h, NEW s, NEW n, NEW k \in Sessions, Good(h, n), Calmly(h, s, k),
         NEW m \in Plain, m.type # "message", s.session[k].lifecycle = 1 => k = s.tab.current
  PROVE  LET x == FromClient(s, k, m)
         IN Calmly(h, x, k) /\ x.tab = s.tab /\ x.session = s.session /\ x.sdk = s.sdk
<1> DEFINE x == FromClient(s, k, m)
<1>1. Sound(h) /\ Sound(s) /\ Calm(h, s, k) /\ Answered(s)
  BY DEF Calmly, Good
<1>2. Sound(x) /\ Calm(s, x, k) /\ x.sdk = s.sdk /\ x.session = s.session /\ Answered(x)
  BY <1>1, FromClientSound
<1> HIDE DEF x
<1>3. Calm(h, x, k) /\ x.tab = s.tab
  <2>1. x.tab = s.tab
    BY <1>2 DEF Calm
  <2> QED BY <1>1, <1>2, <2>1, CalmTwice
<1> QED BY <1>2, <1>3 DEF Calmly, x

\* A client with another state and need.
LEMMA StateNeed ==
  ASSUME NEW h, DOMAIN h = Fields, h.sdk \in [Sessions -> ClientType], NEW k \in Sessions,
         NEW a, NEW b
  PROVE  ClientOnly(h, [h EXCEPT !.sdk[k].state = a, !.sdk[k].need = b], k,
                    [h.sdk[k] EXCEPT !.state = a, !.need = b])
<1> DEFINE A == [h.sdk EXCEPT ![k].state = a]
           B == [A EXCEPT ![k].need = b]
           z == [h EXCEPT !.sdk[k].state = a]
           s == [h EXCEPT !.sdk[k].state = a, !.sdk[k].need = b]
           D == [h.sdk[k] EXCEPT !.state = a, !.need = b]
<1>1. z = [h EXCEPT !.sdk = A]
  BY DEF Fields
<1>2. [z EXCEPT !.sdk[k].need = b] = s
  OBVIOUS
<1>3. B = [h.sdk EXCEPT ![k] = D]
  BY DEF ClientType
<1> HIDE DEF A, z, s, D
<1>4. DOMAIN z = Fields /\ z.sdk = A
  BY <1>1 DEF Fields
<1>5. [z EXCEPT !.sdk[k].need = b] = [z EXCEPT !.sdk = B]
  BY <1>4 DEF Fields
<1> HIDE DEF B
<1>6. [z EXCEPT !.sdk = B] = [h EXCEPT !.sdk = B]
  BY <1>1 DEF Fields
<1> QED BY <1>2, <1>3, <1>5, <1>6 DEF ClientOnly, s, D

\* Connects.
LEMMA ConnectsGood ==
  ASSUME SetupOK, NEW h, NEW n, Good(h, n), NEW k \in Sessions, h.session[k].client,
         setup.provider = "none" \/ h.sdk[k].token # NoToken
  PROVE  LET s == [h EXCEPT !.sdk[k].state = "connected", !.sdk[k].need = "none"]
             m == Status("connected")
         IN Good(FromClient(FromClient(s, k, m), k, m), n)
<1> DEFINE s == [h EXCEPT !.sdk[k].state = "connected", !.sdk[k].need = "none"]
           m == Status("connected")
           D0 == h.sdk[k]
           D == [D0 EXCEPT !.state = "connected", !.need = "none"]
           S == h.session[k]
           x == FromClient(s, k, m)
           r == FromClient(x, k, m)
<1>1. /\ Sound(h) /\ SessionOK(k, S, D0, TRUE) /\ D0 \in ClientType /\ S \in SessionType
      /\ S.lifecycle = 1 /\ k = h.tab.current
      /\ DOMAIN h = Fields /\ h.sdk \in [Sessions -> ClientType]
      /\ \A t \in S.subs : D0.ears[t] = 1
  BY ZenonT(40), InUse DEF Good, Sound
<1>2. /\ D \in ClientType /\ D.ended = D0.ended /\ D.need = "none" /\ D.token = D0.token
      /\ D.asked = D0.asked /\ D.on = D0.on /\ D.ears = D0.ears /\ D.state = "connected"
  BY <1>1 DEF ClientType
<1>3. D0.need # "asked"
  BY <1>1 DEF SessionOK
<1>4. ClientOnly(h, s, k, D)
  BY ZenonT(40), <1>1, StateNeed
<1> HIDE DEF D, s
<1>5. SessionOK(k, S, D, k = h.tab.current)
  BY ZenonT(40), <1>1, <1>2, <1>3 DEF SessionOK
<1>6. Calmly(h, s, k) /\ s.tab = h.tab /\ s.session = h.session
  BY <1>2, <1>4, <1>5, ClientCalm
<1>7. m \in Plain /\ m.type # "message"
  BY StatusPlain DEF Statuses
<1> HIDE DEF m, x, r
<1>8. Calmly(h, x, k) /\ x.tab = h.tab /\ x.session = h.session
  BY <1>1, <1>6, <1>7, ReportsCalmly DEF x
<1>9. Calmly(h, r, k)
  BY <1>1, <1>7, <1>8, ReportsCalmly DEF r
<1>10. Good(r, n)
  BY <1>9, CalmGood DEF Calmly
<1> QED BY <1>10 DEF r, x, s, m

\* Disconnects.
LEMMA DisconnectsGood ==
  ASSUME SetupOK, NEW h, NEW n, Good(h, n), NEW k \in Sessions, h.session[k].client,
         h.sdk[k].need # "asked"
  PROVE  LET s == [h EXCEPT !.sdk[k].state = "off", !.sdk[k].need = "none"]
             m == Status("disconnected")
         IN Good(FromClient(FromClient(s, k, m), k, m), n)
<1> DEFINE s == [h EXCEPT !.sdk[k].state = "off", !.sdk[k].need = "none"]
           m == Status("disconnected")
           D0 == h.sdk[k]
           D == [D0 EXCEPT !.state = "off", !.need = "none"]
           S == h.session[k]
           x == FromClient(s, k, m)
           r == FromClient(x, k, m)
<1>1. /\ Sound(h) /\ SessionOK(k, S, D0, TRUE) /\ D0 \in ClientType /\ S \in SessionType
      /\ S.lifecycle = 1 /\ k = h.tab.current
      /\ DOMAIN h = Fields /\ h.sdk \in [Sessions -> ClientType]
      /\ \A t \in S.subs : D0.ears[t] = 1
  BY InUse DEF Good, Sound
<1>2. /\ D \in ClientType /\ D.ended = D0.ended /\ D.need = "none" /\ D.token = D0.token
      /\ D.asked = D0.asked /\ D.on = D0.on /\ D.ears = D0.ears /\ D.state = "off"
  BY ZenonT(40), <1>1 DEF ClientType
<1>3. D0.need # "asked"
  OBVIOUS
<1>4. ClientOnly(h, s, k, D)
  BY ZenonT(40), <1>1, StateNeed
<1> HIDE DEF D, s
<1>5. SessionOK(k, S, D, k = h.tab.current)
  BY ZenonT(40), <1>1, <1>2, <1>3 DEF SessionOK
<1>6. Calmly(h, s, k) /\ s.tab = h.tab /\ s.session = h.session
  BY <1>2, <1>4, <1>5, ClientCalm
<1>7. m \in Plain /\ m.type # "message"
  BY StatusPlain DEF Statuses
<1> HIDE DEF m, x, r
<1>8. Calmly(h, x, k) /\ x.tab = h.tab /\ x.session = h.session
  BY <1>1, <1>6, <1>7, ReportsCalmly DEF x
<1>9. Calmly(h, r, k)
  BY <1>1, <1>7, <1>8, ReportsCalmly DEF r
<1>10. Good(r, n)
  BY <1>9, CalmGood DEF Calmly
<1> QED BY <1>10 DEF r, x, s, m

\* A step that changes nothing is calm.
LEMMA CalmSelf ==
  ASSUME NEW s, NEW n, Good(s, n), NEW k \in Sessions
  PROVE  Calmly(s, s, k)
<1>1. Sound(s) /\ Answered(s)
  BY DEF Good
<1>2. Grown(s.inbox[k], s.inbox[k], {"token"})
  BY <1>1, GrownSame DEF Sound, MailOK
<1>3. Grown(s.outbox[k], s.outbox[k], {"status", "error", "request", "reaped"})
  BY <1>1, GrownSame DEF Sound
<1> QED BY <1>1, <1>2, <1>3 DEF Calmly, Calm

\* AsksAgain: a client that was refused has no token.
LEMMA AsksAgainGood ==
  ASSUME SetupOK, NEW h, NEW n, Good(h, n), NEW k \in Sessions, h.session[k].client,
         h.sdk[k].need = "refused", h.session[k].next <= MaxRequests
  PROVE  Good(RequestToken(FromClient(h, k, Error), k), n)
<1> DEFINE x == FromClient(h, k, Error)
           r == RequestToken(x, k)
           D == h.sdk[k]
           S == h.session[k]
<1>1. /\ Sound(h) /\ SessionOK(k, S, D, TRUE) /\ k = h.tab.current
  BY InUse DEF Good
<1>2. /\ setup.provider # "none" /\ D.token = NoToken /\ D.state # "connected"
  BY <1>1 DEF SessionOK
<1>3. Calmly(h, x, k) /\ x.session = h.session /\ x.sdk = h.sdk
  BY <1>1, CalmSelf, ReportsCalmly, ErrorPlain
<1> HIDE DEF x
<1>4. Sound(r) /\ Calm(x, r, k) /\ Answered(r)
  BY <1>2, <1>3, RequestTokenSound DEF Calmly
<1> HIDE DEF r
<1>5. Calm(h, r, k)
  BY <1>1, <1>3, <1>4, CalmTwice DEF Calmly
<1> QED BY <1>4, <1>5, CalmGood DEF r, x

\* Loses: the client dials again, with the token it has or for a new one.
LEMMA LosesGood ==
  ASSUME SetupOK, NEW h, NEW n, Good(h, n), NEW k \in Sessions, h.session[k].client,
         h.sdk[k].state = "connected",
         NEW token \in {h.sdk[k].token} \cup
                         (IF h.session[k].next <= MaxRequests THEN {NoToken} ELSE {})
  PROVE  Good(Dial([h EXCEPT !.sdk[k].token = token], k), n)
<1> DEFINE s == [h EXCEPT !.sdk[k].token = token]
           z == [h EXCEPT !.sdk[k].token = token, !.sdk[k].state = "connecting"]
           D0 == h.sdk[k]
           C == [D0 EXCEPT !.token = token]
           D == [C EXCEPT !.state = "connecting"]
           S == h.session[k]
           r == Dial(z, k)
<1>1. /\ Sound(h) /\ SessionOK(k, S, D0, TRUE) /\ D0 \in ClientType /\ S \in SessionType
      /\ S.lifecycle = 1 /\ k = h.tab.current
      /\ DOMAIN h = Fields /\ h.sdk \in [Sessions -> ClientType]
      /\ \A t \in S.subs : D0.ears[t] = 1
  BY ZenonT(40), InUse DEF Good, Sound
<1>2. token = D0.token \/ (token = NoToken /\ S.next <= MaxRequests)
  OBVIOUS
<1>3. token \in Tokens
  BY <1>1, <1>2 DEF ClientType, Tokens
<1>4. /\ D \in ClientType /\ D.ended = D0.ended /\ D.need = D0.need /\ D.token = token
      /\ D.asked = D0.asked /\ D.on = D0.on /\ D.ears = D0.ears /\ D.state = "connecting"
  BY ZenonT(40), <1>1, <1>3 DEF ClientType
<1>5. ClientOnly(h, z, k, D)
  <2> DEFINE A == [h.sdk EXCEPT ![k].token = token]
             B == [A EXCEPT ![k].state = "connecting"]
  <2>1. s = [h EXCEPT !.sdk = A]
    BY <1>1 DEF Fields
  <2>2. [s EXCEPT !.sdk[k].state = "connecting"] = z
    OBVIOUS
  <2>3. B = [h.sdk EXCEPT ![k] = D]
    BY ZenonT(40), <1>1 DEF ClientType
  <2> HIDE DEF A, z, s, D
  <2>4. DOMAIN s = Fields /\ s.sdk = A
    BY <1>1, <2>1 DEF Fields
  <2>5. [s EXCEPT !.sdk[k].state = "connecting"] = [s EXCEPT !.sdk = B]
    BY <2>4 DEF Fields
  <2> HIDE DEF B
  <2>6. [s EXCEPT !.sdk = B] = [h EXCEPT !.sdk = B]
    BY <1>1, <2>1 DEF Fields
  <2> QED BY <2>2, <2>3, <2>5, <2>6 DEF ClientOnly
<1>6. Dial(s, k) = r
  <2>1. [s EXCEPT !.sdk[k].state = "connecting"] = z
    OBVIOUS
  <2>2. [z EXCEPT !.sdk[k].state = "connecting"] = z
    <3> DEFINE W == [h.sdk EXCEPT ![k] = D]
    <3>1. z = [h EXCEPT !.sdk = W]
      BY <1>5 DEF ClientOnly
    <3> HIDE DEF z, D
    <3>2. [D EXCEPT !.state = "connecting"] = D
      BY <1>4 DEF ClientType
    <3>3. W[k] = D /\ W \in [Sessions -> ClientType]
      BY <1>1, <1>4
    <3>4. W = [W EXCEPT ![k] = W[k]]
      <4> HIDE DEF W
      <4> QED BY <3>3
    <3> HIDE DEF W
    <3>5. [W EXCEPT ![k].state = "connecting"] = W
      BY <3>2, <3>3, <3>4
    <3>6. [z EXCEPT !.sdk[k].state = "connecting"]
            = [h EXCEPT !.sdk = [W EXCEPT ![k].state = "connecting"]]
      BY ZenonT(40), <1>1, <3>1 DEF Fields
    <3> QED BY <3>1, <3>5, <3>6
  <2> HIDE DEF s, z
  <2> QED BY <2>1, <2>2 DEF Dial
<1> HIDE DEF D, z, s, C
<1>7. SessionOK(k, S, D, k = h.tab.current)
  BY ZenonT(40), <1>1, <1>2, <1>4 DEF SessionOK
<1>8. D0.need = "none"
  BY ZenonT(40), <1>1 DEF SessionOK
<1>9. Calmly(h, z, k) /\ z.session = h.session /\ z.sdk[k] = D
  BY <1>4, <1>5, <1>7, ClientCalm
<1>10. setup.provider # "none" /\ token = NoToken => S.next <= MaxRequests
  BY ZenonT(40), <1>1, <1>2 DEF SessionOK
<1>11. Sound(r) /\ Calm(z, r, k) /\ Answered(r)
  BY <1>4, <1>8, <1>9, <1>10, DialSound DEF Calmly
<1> HIDE DEF r
<1>12. Calm(h, r, k)
  BY <1>1, <1>9, <1>11, CalmTwice DEF Calmly
<1> QED BY <1>6, <1>11, <1>12, CalmGood DEF s

\* OldClientAsks.
LEMMA OldClientAsksGood ==
  ASSUME NEW h, NEW n, Good(h, n), NEW k \in Sessions, h.session[k].lifecycle = 2
  PROVE  Good(RequestToken(h, k), n)
<1>1. Sound(h) /\ Answered(h)
  BY DEF Good
<1> QED BY <1>1, RequestTokenRefused, CalmGood

\* PublishSettles: only a client that was made has publishes.
LEMMA PublishSettlesGood ==
  ASSUME SetupOK, NEW h, NEW n, Good(h, n), NEW k \in Sessions, h.session[k].up,
         h.sdk[k].flying > 0
  PROVE  LET s == [h EXCEPT !.sdk[k].flying = @ - 1]
         IN Good(s, n) /\ Good(FromClient(s, k, Error), n)
<1> DEFINE S == h.session[k]
           D0 == h.sdk[k]
           l == D0.flying - 1
           D == [D0 EXCEPT !.flying = l]
           s == [h EXCEPT !.sdk[k].flying = @ - 1]
           x == FromClient(s, k, Error)
<1>1. /\ Sound(h) /\ SessionOK(k, S, D0, k = h.tab.current) /\ D0 \in ClientType
      /\ S \in SessionType /\ DOMAIN h = Fields /\ h.sdk \in [Sessions -> ClientType]
  BY DEF Good, Sound
<1>2. l \in Nat
  BY <1>1 DEF ClientType
<1>3. D0 # NoClient
  BY DEF NoClient
<1>4. ClientOnly(h, s, k, D)
  <2>1. s = [h EXCEPT !.sdk[k].flying = l]
    BY <1>1 DEF Fields
  <2>2. [h.sdk EXCEPT ![k].flying = l] = [h.sdk EXCEPT ![k] = D]
    BY <1>1
  <2> HIDE DEF l, D, s
  <2>3. [h EXCEPT !.sdk[k].flying = l] = [h EXCEPT !.sdk = [h.sdk EXCEPT ![k].flying = l]]
    BY <1>1 DEF Fields
  <2> QED BY <2>1, <2>2, <2>3 DEF ClientOnly
<1> HIDE DEF l
<1>5. /\ D \in ClientType /\ D.ended = D0.ended /\ D.need = D0.need /\ D.token = D0.token
      /\ D.asked = D0.asked /\ D.on = D0.on /\ D.ears = D0.ears /\ D.state = D0.state
  BY <1>1, <1>2 DEF ClientType
<1> HIDE DEF D, s
<1>6. SessionOK(k, S, D, k = h.tab.current)
  BY <1>1, <1>3, <1>5 DEF SessionOK
<1>7. Calmly(h, s, k) /\ s.tab = h.tab /\ s.session = h.session
  BY <1>4, <1>5, <1>6, ClientCalm
<1>8. S.lifecycle = 1 => k = h.tab.current
  <2>1. ~S.client /\ S.lifecycle <= 1 => D0 = NoClient
    BY <1>1 DEF SessionOK
  <2>2. S.lifecycle = 1 => S.client
    BY <1>3, <2>1
  <2> QED BY <1>1, <2>2 DEF SessionOK
<1>9. Calmly(h, x, k)
  BY <1>7, <1>8, ErrorPlain, ReportsCalmly
<1> HIDE DEF x
<1>10. Good(s, n) /\ Good(x, n)
  BY <1>7, <1>9, CalmGood DEF Calmly
<1> QED BY <1>10 DEF s, x

\* A session that runs: it is the current one, and there is a backend.
LEMMA Runs ==
  ASSUME SetupOK, NEW h, NEW n, Good(h, n), NEW k \in Sessions, h.session[k].client
  PROVE  k = h.tab.current /\ h.tab.backend /\ h.near = {k} /\ RestBut(h, n, k)
<1>1. Sound(h) /\ Rest(h, n) /\ k = h.tab.current /\ h.session[k].lifecycle = 1
  BY InUse DEF Good
<1>2. h.tab.current # None
  BY <1>1 DEF None, Sessions
<1>3. h.tab.backend \in BOOLEAN
  BY <1>1 DEF Sound, TabOK, TabType
<1>4. h.tab.backend /\ h.near = {k}
  BY <1>1, <1>2, <1>3 DEF Good, Backed
<1>5. RestBut(h, n, k)
  BY <1>1 DEF Rest, RestBut, Begun, BegunAt
<1> QED BY <1>1, <1>4, <1>5

\* A topic that the server ended is not missed.
LEMMA EndedInforms ==
  ASSUME NEW q, NEW asked, NEW subs, NEW ended, NEW t, Informs(q, asked, subs, ended)
  PROVE  Informs(q, asked, subs \ {t}, ended \cup {t})
<1> SUFFICES ASSUME NEW x \in Topics
             PROVE  Follows(q, x, asked, subs \ {t}, ended \cup {t})
  BY DEF Informs
<1>1. Follows(q, x, asked, subs, ended)
  BY DEF Informs
<1> QED BY <1>1 DEF Follows

\* ServerUnsubscribes.
LEMMA ServerUnsubscribesGood ==
  ASSUME SetupOK, NEW h, NEW n, Good(h, n), NEW k \in Sessions, h.session[k].client,
         NEW t \in Topics
  PROVE  Good([h EXCEPT !.sdk[k].on = @ \ {t}, !.session[k].subs = @ \ {t},
                        !.sdk[k].ended = @ \cup {t}], n)
<1> DEFINE S0 == h.session[k]
           D0 == h.sdk[k]
           S == [S0 EXCEPT !.subs = @ \ {t}]
           D == [D0 EXCEPT !.on = @ \ {t}, !.ended = @ \cup {t}]
           r == [h EXCEPT !.sdk[k].on = @ \ {t}, !.session[k].subs = @ \ {t},
                          !.sdk[k].ended = @ \cup {t}]
<1>1. /\ Sound(h) /\ Rest(h, n) /\ Answered(h) /\ SessionOK(k, S0, D0, TRUE)
      /\ D0 \in ClientType /\ S0 \in SessionType /\ S0.lifecycle = 1 /\ S0.up
      /\ DOMAIN h = Fields /\ h.sdk \in [Sessions -> ClientType]
      /\ h.session \in [Sessions -> SessionType]
      /\ \A z \in S0.subs : D0.ears[z] = 1
  BY InUse DEF Good, Sound
<1>2. k = h.tab.current /\ h.tab.backend /\ h.near = {k} /\ RestBut(h, n, k)
  BY Runs
<1>3. /\ S \in SessionType /\ S.up = S0.up /\ S.client = S0.client
      /\ S.lifecycle = S0.lifecycle /\ S.pending = S0.pending /\ S.subs = S0.subs \ {t}
  BY <1>1 DEF SessionType
<1>4. /\ D \in ClientType /\ D.ended = D0.ended \cup {t} /\ D.need = D0.need
      /\ D.token = D0.token /\ D.asked = D0.asked /\ D.on = D0.on \ {t} /\ D.ears = D0.ears
      /\ D.state = D0.state
  BY <1>1 DEF ClientType
<1>5. r = Changed(h, k, S, D)
  <2> DEFINE A == [h.sdk EXCEPT ![k].on = @ \ {t}]
             B == [A EXCEPT ![k].ended = @ \cup {t}]
             P == [h.session EXCEPT ![k].subs = @ \ {t}]
             x == [h EXCEPT !.sdk[k].on = @ \ {t}]
             y == [x EXCEPT !.session[k].subs = @ \ {t}]
  <2>1. x = [h EXCEPT !.sdk = A]
    BY <1>1 DEF Fields
  <2>2. [y EXCEPT !.sdk[k].ended = @ \cup {t}] = r
    OBVIOUS
  <2>3. B = [h.sdk EXCEPT ![k] = D] /\ P = [h.session EXCEPT ![k] = S]
    BY <1>1 DEF ClientType
  <2> HIDE DEF A, x, r, D, S
  <2>4. DOMAIN x = Fields /\ x.sdk = A /\ x.session = h.session
    BY <1>1, <2>1 DEF Fields
  <2>5. y = [x EXCEPT !.session = P]
    BY <2>4 DEF Fields
  <2> HIDE DEF y, P
  <2>6. DOMAIN y = Fields /\ y.sdk = A
    BY <2>4, <2>5 DEF Fields
  <2>7. [y EXCEPT !.sdk[k].ended = @ \cup {t}] = [y EXCEPT !.sdk = B]
    BY <2>6 DEF Fields
  <2> HIDE DEF B
  <2>8. [y EXCEPT !.sdk = B] = [h EXCEPT !.session = P, !.sdk = B]
    BY <1>1, <2>1, <2>5 DEF Fields
  <2>9. Changed(h, k, S, D)
          = [h EXCEPT !.session = [h.session EXCEPT ![k] = S], !.sdk = [h.sdk EXCEPT ![k] = D]]
    BY <1>1 DEF Changed, Fields
  <2> QED BY <2>2, <2>3, <2>7, <2>8, <2>9
<1> HIDE DEF S, D, r
<1>6. SessionOK(k, S, D, TRUE)
  BY <1>1, <1>3, <1>4 DEF SessionOK
<1>7. Informs(h.inbox[k], h.tab.asked, S.subs, D.ended)
  <2>1. Informs(h.inbox[k], h.tab.asked, S0.subs, D0.ended)
    BY <1>1, <1>2 DEF Rest, Informed, Informs
  <2>2. Informs(h.inbox[k], h.tab.asked, S0.subs \ {t}, D0.ended \cup {t})
    <3> DEFINE q == h.inbox[k]
               a == h.tab.asked
               u == S0.subs
               e == D0.ended
    <3>1. Informs(q, a, u, e)
      BY <2>1
    <3> HIDE DEF q, a, u, e
    <3>2. Informs(q, a, u \ {t}, e \cup {t})
      BY <3>1, EndedInforms
    <3> QED BY <3>2 DEF q, a, u, e
  <2> QED BY <1>3, <1>4, <2>2
<1>8. Fits(h, Changed(h, k, S, D), n, k, S, D)
  <2>1. S.up = h.session[k].up /\ S.lifecycle # 0 /\ D.need = h.sdk[k].need
        /\ D.asked = h.sdk[k].asked /\ S \in SessionType /\ D \in ClientType
    BY <1>1, <1>3, <1>4
  <2>2. Sound(h) /\ RestBut(h, n, k) /\ k = h.tab.current
    BY <1>1, <1>2
  <2> QED BY <1>6, <1>7, <2>1, <2>2, FieldsRest
<1>9. S.client
  BY <1>3
<1>10. Handled(h, Changed(h, k, S, D), n, k)
  BY <1>1, <1>3, <1>4, <1>8, <1>9, FieldsHandled
<1>11. Good(r, n)
  BY <1>2, <1>5, <1>10, HandledGood
<1> QED BY <1>11 DEF r

\* A publication that a session in use says for the first time: it is handed on
\* at once, or is the last message in one outbox.
LEMMA PublishedSingle ==
  ASSUME NEW s, Sound(s), NEW k \in Sessions, k \in s.near, s.session[k].up, NEW n \in Nat,
         Single(s, n), NEW m \in Plain, m.type = "message", m.id = n + 1,
         n + 1 \in Publications, NEW r, Said(s, r, k, m)
  PROVE  Single(r, n + 1)
<1> DEFINE q == s.outbox[k]
           e == n + 1
<1>1. /\ s.outbox \in [Sessions -> Seq(Outbound)] /\ s.counts \in [Publications -> Nat]
      /\ q \in Seq(Outbound) /\ m \in Outbound
  BY DEF Sound, Outbound
<1>2. /\ s.counts[e] = 0
      /\ \A j \in Sessions : \A i \in 1..Len(s.outbox[j]) : ~Holds(s, j, i, e)
  BY DEF Single
<1>3. \A p \in Publications : p \in Nat /\ (p # e => (p > e => p > n) /\ (p <= n => p <= e))
  BY DEF Publications
<1>4. CASE Local
  <2>1. /\ r.counts = [s.counts EXCEPT ![e] = @ + 1] /\ r.outbox = s.outbox
    BY <1>4 DEF Said
  <2>2. \A j \in Sessions : s.outbox[j] = <<>>
    BY <1>4 DEF Sound, MailOK
  <2>3. \A j \in Sessions : 1..Len(r.outbox[j]) = {}
    <3>1. Len(<<>>) = 0 /\ 1..0 = {}
      OBVIOUS
    <3> QED BY <2>1, <2>2, <3>1
  <2>4. ASSUME NEW p \in Publications
        PROVE  r.counts[p] <= 1 /\ (p > e => r.counts[p] = 0)
    <3>1. CASE p = e
      <4>1. r.counts[p] = 1
        BY <1>1, <1>2, <2>1, <3>1
      <4>2. ~(p > e)
        BY <1>3, <3>1
      <4> QED BY <4>1, <4>2
    <3>2. CASE p # e
      <4>1. r.counts[p] = s.counts[p]
        BY <1>1, <2>1, <3>2
      <4> QED BY <1>3, <3>2, <4>1 DEF Single
    <3> QED BY <3>1, <3>2
  <2> QED BY <2>3, <2>4 DEF Single
<1>5. CASE ~Local
  <2> DEFINE o == Append(q, m)
  <2>1. /\ r.counts = s.counts /\ r.outbox = [s.outbox EXCEPT ![k] = o]
    BY <1>5 DEF Said
  <2>2. /\ Len(o) = Len(q) + 1 /\ Len(q) \in Nat /\ o[Len(o)] = m
        /\ \A i \in 1..Len(q) : o[i] = q[i]
    BY <1>1, AppendProperties, LenProperties
  <2> HIDE DEF o
  <2>3. r.outbox[k] = o /\ \A j \in Sessions \ {k} : r.outbox[j] = s.outbox[j]
    BY <1>1, <2>1
  <2>4. ASSUME NEW j \in Sessions, NEW i \in 1..Len(r.outbox[j]), NEW p \in Publications,
               Holds(r, j, i, p)
        PROVE  \/ p = e /\ j = k /\ i = Len(o)
               \/ p # e /\ i \in 1..Len(s.outbox[j]) /\ Holds(s, j, i, p)
    <3>1. CASE j = k /\ i = Len(o)
      BY <2>2, <2>3, <2>4, <3>1 DEF Holds
    <3>2. CASE j = k /\ i # Len(o)
      <4>1. i \in 1..Len(q) /\ r.outbox[j][i] = s.outbox[j][i]
        BY <2>2, <2>3, <3>2
      <4>2. Holds(s, j, i, p)
        BY <2>4, <4>1 DEF Holds
      <4> QED BY <1>2, <3>2, <4>1, <4>2
    <3>3. CASE j # k
      <4>1. r.outbox[j] = s.outbox[j]
        BY <2>3, <3>3
      <4>2. Holds(s, j, i, p)
        BY <2>4, <4>1 DEF Holds
      <4> QED BY <1>2, <4>1, <4>2
    <3> QED BY <3>1, <3>2, <3>3
  <2>5. ASSUME NEW p \in Publications
        PROVE  r.counts[p] <= 1 /\ (p > e => r.counts[p] = 0)
    <3>1. CASE p = e
      BY <1>2, <1>3, <2>1, <3>1
    <3>2. CASE p # e
      BY <1>3, <2>1, <3>2 DEF Single
    <3> QED BY <3>1, <3>2
  <2>6. ASSUME NEW p \in Publications, NEW j \in Sessions, NEW i \in 1..Len(r.outbox[j]),
               Holds(r, j, i, p)
        PROVE  r.counts[p] = 0 /\ p <= e
    <3>1. CASE p = e
      BY <1>2, <1>3, <2>1, <3>1
    <3>2. CASE p # e
      <4>1. i \in 1..Len(s.outbox[j]) /\ Holds(s, j, i, p)
        BY <2>4, <2>6, <3>2
      <4>2. s.counts[p] = 0 /\ p <= n
        BY <4>1 DEF Single
      <4> QED BY <1>3, <2>1, <3>2, <4>2
    <3> QED BY <3>1, <3>2
  <2>7. ASSUME NEW p \in Publications, NEW j \in Sessions, NEW i \in 1..Len(r.outbox[j]),
               Holds(r, j, i, p), NEW l \in Sessions, NEW y \in 1..Len(r.outbox[l]),
               Holds(r, l, y, p)
        PROVE  l = j /\ y = i
    <3>1. CASE p = e
      BY <2>4, <2>7, <3>1
    <3>2. CASE p # e
      <4>1. /\ i \in 1..Len(s.outbox[j]) /\ Holds(s, j, i, p)
            /\ y \in 1..Len(s.outbox[l]) /\ Holds(s, l, y, p)
        BY <2>4, <2>7, <3>2
      <4> QED BY <4>1 DEF Single
    <3> QED BY <3>1, <3>2
  <2> QED BY <2>5, <2>6, <2>7 DEF Single
<1> QED BY <1>4, <1>5

\* Nothing that is underway is lost by saying more.
LEMMA SaidUnderway ==
  ASSUME NEW s, Sound(s), NEW k \in Sessions, NEW m \in Outbound, NEW r, Said(s, r, k, m),
         Answered(s)
  PROVE  Answered(r)
<1> SUFFICES ASSUME NEW j \in Sessions, r.sdk[j].need = "asked"
             PROVE  Underway(r, j, r.sdk[j].asked)
  BY DEF Answered
<1> DEFINE a == s.sdk[j].asked
<1>1. r.sdk = s.sdk /\ r.calls = s.calls /\ r.inbox = s.inbox
  BY DEF Said
<1>2. Underway(s, j, a)
  BY <1>1 DEF Answered
<1>3. \A i \in 1..Len(s.outbox[j]) : i \in 1..Len(r.outbox[j]) /\ r.outbox[j][i] = s.outbox[j][i]
  <2>1. s.outbox \in [Sessions -> Seq(Outbound)] /\ s.outbox[k] \in Seq(Outbound)
    BY DEF Sound
  <2>2. CASE r.outbox = s.outbox
    BY <2>2
  <2>3. CASE r.outbox = [s.outbox EXCEPT ![k] = Append(@, m)]
    <3> DEFINE o == Append(s.outbox[k], m)
    <3>1. /\ Len(o) = Len(s.outbox[k]) + 1 /\ Len(s.outbox[k]) \in Nat
          /\ \A i \in 1..Len(s.outbox[k]) : o[i] = s.outbox[k][i]
      BY <2>1, AppendProperties, LenProperties
    <3>2. r.outbox[k] = o /\ (j # k => r.outbox[j] = s.outbox[j])
      BY <2>1, <2>3
    <3> HIDE DEF o
    <3>3. CASE j = k
      BY <3>1, <3>2, <3>3
    <3>4. CASE j # k
      BY <3>2, <3>4
    <3> QED BY <3>3, <3>4
  <2> QED BY <2>2, <2>3 DEF Said
<1> HIDE DEF a
<1>4. Underway(r, j, a)
  BY <1>1, <1>2, <1>3 DEF Underway
<1> QED BY <1>1, <1>4 DEF a

\* A session that says something new keeps what the bus relies on.
LEMMA PublishedGood ==
  ASSUME SetupOK, NEW h, NEW n \in Nat, Good(h, n), NEW k \in Sessions, h.session[k].client,
         NEW m \in Plain, m.type = "message", m.id = n + 1, n + 1 \in Publications
  PROVE  Good(Emit(h, k, m), n + 1)
<1> DEFINE r == Emit(h, k, m)
<1>1. /\ Sound(h) /\ Rest(h, n) /\ Answered(h) /\ Backed(h)
      /\ k = h.tab.current /\ h.near = {k} /\ h.session[k].up /\ m \in Outbound
  BY Runs, InUse DEF Good, Outbound
<1>2. Said(h, r, k, m) /\ Sound(r)
  BY <1>1, EmitSaid
<1> HIDE DEF r
<1>3. Answered(r)
  BY <1>1, <1>2, SaidUnderway
<1>4. Single(r, n + 1)
  BY <1>1, <1>2, PublishedSingle DEF Rest
<1>5. /\ r.tab = h.tab /\ r.near = h.near /\ r.inbox = h.inbox /\ r.session = h.session
      /\ r.sdk = h.sdk /\ r.calls = h.calls
  BY <1>2 DEF Said
<1>6. Informed(r) /\ Begun(r) /\ Timely(r) /\ Backed(r)
  <2>1. Informed(r)
    BY <1>1, <1>5 DEF Rest, Informed
  <2>2. Begun(r)
    BY <1>1, <1>5 DEF Rest, Begun
  <2>3. Timely(r)
    BY <1>1, <1>5 DEF Rest, Timely
  <2>4. Backed(r)
    BY <1>1, <1>5 DEF Backed
  <2> QED BY <2>1, <2>2, <2>3, <2>4
<1> QED BY <1>2, <1>3, <1>4, <1>6 DEF Good, Rest, r

\* Published, with n publications before it.
PublishedFrom(h, n, k, t) ==
  LET m == [type |-> "message", id |-> n + 1]
  IN IF t \in h.session[k].subs
     THEN Repeat(h, k, m, IF t \in h.sdk[k].on THEN h.sdk[k].ears[t] ELSE 0)
     ELSE FromClient(h, k, m)

\* A Subscription has one set of listeners, so a publication is said once.
LEMMA PublicationGood ==
  ASSUME SetupOK, NEW h, NEW n \in Nat, Good(h, n), NEW k \in Sessions, h.session[k].client,
         n < MaxEvents, NEW t \in Topics
  PROVE  Good(PublishedFrom(h, n, k, t), n + 1)
<1> DEFINE m == [type |-> "message", id |-> n + 1]
<1>1. /\ h.session[k].lifecycle = 1 /\ h.session[k].subs = h.sdk[k].on
      /\ \A z \in h.session[k].subs : h.sdk[k].ears[z] = 1
  BY InUse DEF Good
<1>2. n + 1 \in Publications
  BY BridgeAssumption DEF Publications
<1>3. m \in Plain /\ m.type = "message" /\ m.id = n + 1
  BY <1>2 DEF Plain
<1> HIDE DEF m
<1>4. FromClient(h, k, m) = Emit(h, k, m)
  BY <1>1 DEF FromClient
<1>5. Repeat(h, k, m, 1) = Emit(h, k, m)
  BY <1>4 DEF Repeat
<1>6. PublishedFrom(h, n, k, t) = Emit(h, k, m)
  <2>1. CASE t \in h.session[k].subs
    <3>1. (IF t \in h.sdk[k].on THEN h.sdk[k].ears[t] ELSE 0) = 1
      BY <1>1, <2>1
    <3> QED BY <1>5, <2>1, <3>1 DEF PublishedFrom, m
  <2>2. CASE t \notin h.session[k].subs
    BY <1>4, <2>2 DEF PublishedFrom, m
  <2> QED BY <2>1, <2>2
<1> QED BY <1>2, <1>3, <1>6, PublishedGood

----------------------------------------------------------------------------
(* What the tab hears.                                                     *)

\* h without the first message of an outbox.
Taken(h, k) == [h EXCEPT !.outbox[k] = Tail(@)]

TakenFrom(h, s, k) ==
  /\ DOMAIN s = Fields /\ s.tab = h.tab /\ s.near = h.near /\ s.inbox = h.inbox
  /\ s.session = h.session /\ s.sdk = h.sdk /\ s.calls = h.calls /\ s.counts = h.counts
  /\ s.told = h.told /\ s.heard = h.heard
  /\ s.outbox = [h.outbox EXCEPT ![k] = Tail(h.outbox[k])]

\* Every message but the first is still on its way.
LEMMA TakenSound ==
  ASSUME NEW h, NEW n, Good(h, n), NEW k \in Sessions, h.outbox[k] # <<>>
  PROVE  LET s == Taken(h, k)
             m == Head(h.outbox[k])
         IN /\ Sound(s) /\ Rest(s, n) /\ Backed(s) /\ TakenFrom(h, s, k) /\ m \in Outbound
            /\ m.type = "request" => AnsweredBut(s, k, m.request)
            /\ m.type # "request" => Answered(s)
            /\ m.type = "message" =>
                 /\ s.counts[m.id] = 0 /\ m.id <= n
                 /\ \A j \in Sessions : \A i \in 1..Len(s.outbox[j]) : ~Holds(s, j, i, m.id)
<1> DEFINE q == h.outbox[k]
           o == Tail(q)
           m == Head(q)
           s == Taken(h, k)
<1>1. /\ Sound(h) /\ Rest(h, n) /\ Answered(h) /\ Backed(h)
      /\ DOMAIN h = Fields /\ h.outbox \in [Sessions -> Seq(Outbound)] /\ q \in Seq(Outbound)
  BY DEF Good, Sound
<1>2. TakenFrom(h, s, k)
  BY <1>1 DEF Taken, TakenFrom, Fields
<1>3. /\ m \in Outbound /\ o \in Seq(Outbound) /\ m = q[1] /\ Len(q) \in Nat /\ Len(q) > 0
      /\ Len(o) = Len(q) - 1 /\ \A i \in 1..Len(o) : o[i] = q[i + 1]
  BY <1>1, HeadTailProperties, LenProperties
<1> HIDE DEF s, o, m
<1>4. s.outbox = [h.outbox EXCEPT ![k] = o]
  BY <1>2 DEF TakenFrom, o
<1>5. s.outbox[k] = o /\ \A j \in Sessions \ {k} : s.outbox[j] = h.outbox[j]
  BY <1>1, <1>4
<1>6. \A i \in 1..Len(o) : i + 1 \in 1..Len(q)
  BY <1>3
<1>7. Sound(s)
  <2>1. s.outbox \in [Sessions -> Seq(Outbound)]
    BY <1>1, <1>3, <1>4
  <2>2. TabOK(s)
    BY <1>1, <1>2 DEF Sound, TabOK, TakenFrom
  <2>3. \A j \in Sessions : h.outbox[j] = <<>> => s.outbox[j] = <<>>
    BY <1>5
  <2>4. \A j \in Sessions : MailOK(s, j)
    BY <1>1, <1>2, <2>3 DEF Sound, MailOK, TakenFrom
  <2> QED BY <1>1, <1>2, <2>1, <2>2, <2>4 DEF Sound, TakenFrom
<1>8. Informed(s) /\ Begun(s) /\ Timely(s) /\ Backed(s)
  BY <1>1, <1>2 DEF Rest, Informed, Begun, Timely, Backed, TakenFrom
\* Where a message of s was in h.
<1> DEFINE at(j, i) == IF j = k THEN i + 1 ELSE i
<1>9. ASSUME NEW j \in Sessions, NEW i \in 1..Len(s.outbox[j])
      PROVE  at(j, i) \in 1..Len(h.outbox[j]) /\ s.outbox[j][i] = h.outbox[j][at(j, i)]
  BY <1>3, <1>5, <1>6
<1>10. ASSUME NEW j \in Sessions, NEW i \in 1..Len(s.outbox[j]), NEW p, Holds(s, j, i, p)
       PROVE  at(j, i) \in 1..Len(h.outbox[j]) /\ Holds(h, j, at(j, i), p)
  BY <1>9, <1>10 DEF Holds
<1>11. Single(s, n)
  <2>1. s.counts = h.counts
    BY <1>2 DEF TakenFrom
  <2>2. ASSUME NEW p \in Publications, NEW j \in Sessions, NEW i \in 1..Len(s.outbox[j]),
               Holds(s, j, i, p), NEW l \in Sessions, NEW y \in 1..Len(s.outbox[l]),
               Holds(s, l, y, p)
        PROVE  l = j /\ y = i
    <3>1. /\ at(j, i) \in 1..Len(h.outbox[j]) /\ Holds(h, j, at(j, i), p)
          /\ at(l, y) \in 1..Len(h.outbox[l]) /\ Holds(h, l, at(l, y), p)
      BY <1>10, <2>2
    <3> HIDE DEF at
    <3>2. l = j /\ at(l, y) = at(j, i)
      BY <1>1, <3>1 DEF Rest, Single
    <3> QED BY <3>2 DEF at
  <2>3. ASSUME NEW p \in Publications, NEW j \in Sessions, NEW i \in 1..Len(s.outbox[j]),
               Holds(s, j, i, p)
        PROVE  h.counts[p] = 0 /\ p <= n
    <3>1. at(j, i) \in 1..Len(h.outbox[j]) /\ Holds(h, j, at(j, i), p)
      BY <1>10, <2>3
    <3> HIDE DEF at
    <3> QED BY <1>1, <3>1 DEF Rest, Single
  <2>4. \A p \in Publications : h.counts[p] <= 1 /\ (p > n => h.counts[p] = 0)
    BY <1>1 DEF Rest, Single
  <2> HIDE DEF at
  <2> QED BY <2>1, <2>2, <2>3, <2>4 DEF Single
\* A request that is not the first is still there.
<1>12. ASSUME NEW j \in Sessions, NEW a, Underway(h, j, a), ~(j = k /\ Asks(m, a))
       PROVE  Underway(s, j, a)
  <2>1. CASE \E i \in 1..Len(h.outbox[j]) : Asks(h.outbox[j][i], a)
    <3>1. PICK i \in 1..Len(h.outbox[j]) : Asks(h.outbox[j][i], a)
      BY <2>1
    <3>2. CASE j # k
      BY <1>5, <3>1, <3>2 DEF Underway
    <3>3. CASE j = k
      <4>1. i # 1
        BY <1>3, <1>12, <3>1, <3>3
      <4>2. i - 1 \in 1..Len(o) /\ o[i - 1] = q[i]
        <5>1. i \in 1..Len(q)
          BY <3>1, <3>3
        <5>2. i - 1 \in 1..Len(o) /\ (i - 1) + 1 = i
          BY <1>3, <4>1, <5>1
        <5> QED BY <1>3, <5>2
      <4>3. Asks(s.outbox[j][i - 1], a) /\ i - 1 \in 1..Len(s.outbox[j])
        BY <1>5, <3>1, <3>3, <4>2
      <4> QED BY <4>3 DEF Underway
    <3> QED BY <3>2, <3>3
  <2>2. CASE ~\E i \in 1..Len(h.outbox[j]) : Asks(h.outbox[j][i], a)
    BY <1>2, <1>12, <2>2 DEF Underway, TakenFrom
  <2> QED BY <2>1, <2>2
<1>13. s.sdk = h.sdk
  BY <1>2 DEF TakenFrom
<1>14. m.type = "request" => AnsweredBut(s, k, m.request)
  <2> SUFFICES ASSUME m.type = "request", NEW j \in Sessions, s.sdk[j].need = "asked",
                      ~(j = k /\ s.sdk[j].asked = m.request)
               PROVE  Underway(s, j, s.sdk[j].asked)
    BY DEF AnsweredBut
  <2>1. Underway(h, j, h.sdk[j].asked)
    BY <1>1, <1>13 DEF Answered
  <2>2. ~(j = k /\ Asks(m, h.sdk[j].asked))
    BY <1>13 DEF Asks
  <2> QED BY <1>12, <1>13, <2>1, <2>2
<1>15. m.type # "request" => Answered(s)
  <2> SUFFICES ASSUME m.type # "request", NEW j \in Sessions, s.sdk[j].need = "asked"
               PROVE  Underway(s, j, s.sdk[j].asked)
    BY DEF Answered
  <2>1. Underway(h, j, h.sdk[j].asked)
    BY <1>1, <1>13 DEF Answered
  <2>2. ~(j = k /\ Asks(m, h.sdk[j].asked))
    BY DEF Asks
  <2> QED BY <1>12, <1>13, <2>1, <2>2
<1>16. ASSUME m.type = "message"
       PROVE  /\ s.counts[m.id] = 0 /\ m.id <= n
              /\ \A j \in Sessions : \A i \in 1..Len(s.outbox[j]) : ~Holds(s, j, i, m.id)
  <2>1. m.id \in Publications
    BY <1>3, <1>16 DEF Outbound, Plain
  <2>2. 1 \in 1..Len(q) /\ Holds(h, k, 1, m.id)
    BY <1>3, <1>16 DEF Holds
  <2>3. s.counts = h.counts
    BY <1>2 DEF TakenFrom
  <2>4. h.counts[m.id] = 0 /\ m.id <= n
    BY <1>1, <2>1, <2>2 DEF Rest, Single
  <2>5. ASSUME NEW j \in Sessions, NEW i \in 1..Len(s.outbox[j]), Holds(s, j, i, m.id)
        PROVE  FALSE
    <3>1. at(j, i) \in 1..Len(h.outbox[j]) /\ Holds(h, j, at(j, i), m.id)
      BY <1>10, <2>5
    <3> HIDE DEF at
    <3>2. j = k /\ at(j, i) = 1
      BY <1>1, <2>1, <2>2, <3>1 DEF Rest, Single
    <3>3. i + 1 = 1 /\ i >= 1
      BY <3>2 DEF at
    <3> QED BY <3>3
  <2> QED BY <2>3, <2>4, <2>5
<1>17. Rest(s, n)
  BY <1>8, <1>11 DEF Rest
<1> QED BY <1>2, <1>3, <1>7, <1>8, <1>14, <1>15, <1>16, <1>17 DEF s, m

\* r is s after the tab has heard something.
Hearing(s, r) ==
  /\ DOMAIN r = Fields /\ r.tab = s.tab /\ r.near = s.near /\ r.inbox = s.inbox
  /\ r.outbox = s.outbox /\ r.session = s.session /\ r.sdk = s.sdk /\ r.calls = s.calls
  /\ r.told \in ToldType /\ r.told.by = s.tab.made /\ r.heard.of = r.heard.to

\* It is as good as before, but for the publications.
LEMMA HearingGood ==
  ASSUME NEW s, NEW n, Sound(s), Answered(s), Rest(s, n), Backed(s), NEW r, Hearing(s, r),
         r.counts \in [Publications -> Nat], Single(r, n)
  PROVE  Good(r, n)
<1>1. TabOK(r)
  BY DEF Hearing, Sound, TabOK
<1>2. \A j \in Sessions : MailOK(r, j)
  BY DEF Hearing, Sound, MailOK
<1>3. Sound(r)
  BY <1>1, <1>2 DEF Hearing, Sound
<1>4. Answered(r)
  BY DEF Hearing, Answered, Underway
<1>5. Informed(r)
  BY DEF Hearing, Rest, Informed
<1>6. Begun(r)
  BY DEF Hearing, Rest, Begun
<1>7. Timely(r)
  BY DEF Hearing, Rest, Timely
<1>8. Backed(r)
  BY DEF Hearing, Backed
<1> QED BY <1>3, <1>4, <1>5, <1>6, <1>7, <1>8 DEF Good, Rest

\* HandOn and Report, for the session whose handlers they are.
LEMMA ReportHearing ==
  ASSUME NEW s, Sound(s), NEW k \in Sessions, s.tab.handlers = k, s.tab.made = k
  PROVE  /\ Hearing(s, HandOn(s, k)) /\ HandOn(s, k).counts = s.counts
         /\ \A status \in Statuses :
              Hearing(s, Report(s, k, status)) /\ Report(s, k, status).counts = s.counts
<1> DEFINE x == HandOn(s, k)
<1>1. k # None /\ DOMAIN s = Fields /\ s.told \in ToldType /\ s.told.by = s.tab.made
  BY DEF None, Sessions, Sound, TabOK
<1>2. x = [s EXCEPT !.heard = [of |-> k, to |-> k]]
  BY <1>1 DEF HandOn
<1>3. Hearing(s, x) /\ x.counts = s.counts
  BY <1>1, <1>2 DEF Fields, Hearing
<1>4. ASSUME NEW status \in Statuses
      PROVE  Hearing(s, Report(s, k, status)) /\ Report(s, k, status).counts = s.counts
  <2> DEFINE v == [by |-> k, status |-> status]
             r == [x EXCEPT !.told = v]
  <2>1. Report(s, k, status) = r
    BY <1>1 DEF Report
  <2>2. v \in ToldType /\ v.by = k
    BY BridgeAssumption DEF ToldType, Sessions
  <2> HIDE DEF v, x
  <2>3. Hearing(s, r) /\ r.counts = s.counts
    BY <1>3, <2>2 DEF Fields, Hearing
  <2> QED BY <2>1, <2>3
<1> QED BY <1>3, <1>4

\* Deliver.
LEMMA DeliverGood ==
  ASSUME SetupOK, NEW h, NEW n \in Nat, Good(h, n), NEW k \in Sessions, k \in h.near,
         h.outbox[k] # <<>>
  PROVE  Good(Output(Taken(h, k), k, Head(h.outbox[k])), n)
<1> DEFINE s == Taken(h, k)
           m == Head(h.outbox[k])
           r == Output(s, k, m)
<1>1. /\ Sound(s) /\ Rest(s, n) /\ Backed(s) /\ TakenFrom(h, s, k) /\ m \in Outbound
      /\ m.type = "request" => AnsweredBut(s, k, m.request)
      /\ m.type # "request" => Answered(s)
      /\ m.type = "message" =>
           /\ s.counts[m.id] = 0 /\ m.id <= n
           /\ \A j \in Sessions : \A i \in 1..Len(s.outbox[j]) : ~Holds(s, j, i, m.id)
  BY TakenSound
<1> HIDE DEF s, m
<1>2. k = h.tab.current /\ h.tab.handlers = k /\ h.tab.made = k
  BY Current
<1>3. /\ k = s.tab.current /\ s.tab.handlers = k /\ s.tab.made = k /\ k \in s.near
      /\ k # None
  BY <1>1, <1>2 DEF TakenFrom, None, Sessions
<1>4. ~Local
  BY DEF Good, Sound, MailOK
<1>5. s.counts \in [Publications -> Nat] /\ Single(s, n) /\ DOMAIN s = Fields
  BY <1>1 DEF Sound, Rest
<1>6. m.type \in {"error", "status", "message", "reaped", "request"}
  BY <1>1 DEF Outbound, Plain
<1>7. CASE m.type = "error"
  <2>1. r = HandOn(s, k)
    BY <1>7 DEF Output
  <2>2. Hearing(s, r) /\ r.counts = s.counts
    BY <1>1, <1>3, <2>1, ReportHearing
  <2>3. Answered(s)
    BY <1>1, <1>7
  <2> HIDE DEF r
  <2>4. Single(r, n)
    BY <1>5, <2>2 DEF Single, Holds, Hearing
  <2> QED BY <1>1, <1>5, <2>2, <2>3, <2>4, HearingGood DEF r, s, m
<1>8. CASE m.type = "status"
  <2>1. r = Report(s, k, m.status)
    BY <1>8 DEF Output
  <2>2. m.status \in Statuses
    BY <1>1, <1>8 DEF Outbound, Plain
  <2>3. Hearing(s, r) /\ r.counts = s.counts
    BY <1>1, <1>3, <2>1, <2>2, ReportHearing
  <2>4. Answered(s)
    BY <1>1, <1>8
  <2> HIDE DEF r
  <2>5. Single(r, n)
    BY <1>5, <2>3 DEF Single, Holds, Hearing
  <2> QED BY <1>1, <1>5, <2>3, <2>4, <2>5, HearingGood DEF r, s, m
<1>9. CASE m.type = "message"
  <2> DEFINE x == HandOn(s, k)
             C == [s.counts EXCEPT ![m.id] = @ + 1]
  <2>1. m.id \in Publications
    BY <1>1, <1>9 DEF Outbound, Plain
  <2>2. Hearing(s, x) /\ x.counts = s.counts
    BY <1>1, <1>3, ReportHearing
  <2>3. r = [x EXCEPT !.counts[m.id] = @ + 1]
    BY <1>3, <1>9 DEF Output
  <2> HIDE DEF x
  <2>4. r = [x EXCEPT !.counts = C]
    BY <2>2, <2>3 DEF Hearing, Fields
  <2>5. C \in [Publications -> Nat] /\ C[m.id] = 1 /\ \A p \in Publications \ {m.id} : C[p] = s.counts[p]
    BY <1>1, <1>5, <1>9, <2>1
  <2> HIDE DEF C, r
  <2>6. Hearing(s, r) /\ r.counts = C
    BY <2>2, <2>4 DEF Hearing, Fields
  <2>7. r.outbox = s.outbox
    BY <2>6 DEF Hearing
  <2>9. ASSUME NEW p \in Publications
        PROVE  /\ C[p] <= 1 /\ (p > n => C[p] = 0)
               /\ \A j \in Sessions : \A i \in 1..Len(r.outbox[j]) : Holds(r, j, i, p) =>
                    /\ C[p] = 0 /\ p <= n
                    /\ \A l \in Sessions : \A y \in 1..Len(r.outbox[l]) :
                         Holds(r, l, y, p) => l = j /\ y = i
    <3>1. CASE p = m.id
      <4>1. \A j \in Sessions : \A i \in 1..Len(r.outbox[j]) : ~Holds(r, j, i, p)
        BY <1>1, <1>9, <2>7, <3>1 DEF Holds
      <4>2. C[p] = 1 /\ p <= n
        BY <1>1, <1>9, <2>5, <3>1
      <4> QED BY <4>1, <4>2 DEF Publications
    <3>2. CASE p # m.id
      <4>1. C[p] = s.counts[p]
        BY <2>5, <3>2
      <4> QED BY <1>5, <2>7, <4>1 DEF Single, Holds
    <3> QED BY <3>1, <3>2
  <2>10. Single(r, n)
    BY <2>6, <2>9 DEF Single
  <2>11. Answered(s)
    BY <1>1, <1>9
  <2> QED BY <1>1, <2>5, <2>6, <2>10, <2>11, HearingGood DEF r, s, m
<1>10. CASE m.type = "reaped"
  <2>1. r = WorkerFailed(s)
    BY <1>10 DEF Output
  <2>2. Good(s, n)
    BY <1>1, <1>10 DEF Good
  <2> QED BY <1>3, <1>4, <2>1, <2>2, WorkerFailedGood DEF s, m
<1>11. CASE m.type = "request"
  <2>1. r = ResolveTokenRequest(s, k, m.request)
    BY <1>11 DEF Output
  <2>2. m.request \in Requests /\ setup.provider # "none"
    BY <1>1, <1>11 DEF Outbound, Plain
  <2>3. Sound(r) /\ Calm(s, r, k) /\ Answered(r)
    BY <1>1, <1>3, <1>11, <2>1, <2>2, ResolveTokenRequestSound
  <2> HIDE DEF r
  <2>4. Rest(r, n)
    BY <1>1, <2>3, CalmRest
  <2>5. Backed(r)
    <3>1. r.tab = s.tab /\ r.near = s.near
      BY <2>3 DEF Calm
    <3> QED BY <1>1, <1>4, <3>1 DEF Backed
  <2>6. Good(r, n)
    BY <2>3, <2>4, <2>5 DEF Good
  <2> QED BY <2>6 DEF r, s, m
<1> QED BY <1>6, <1>7, <1>8, <1>9, <1>10, <1>11

\* isCurrentBackend, of a state record.
CallIsCurrent(h, c) == c.generation = h.tab.generation /\ c.current = h.tab.current

\* h without the call c of the provider.
Settled(h, c) == [h EXCEPT !.calls = @ \ {c}]
SettledFrom(h, s, c) ==
  /\ DOMAIN s = Fields /\ s.tab = h.tab /\ s.near = h.near /\ s.inbox = h.inbox
  /\ s.outbox = h.outbox /\ s.session = h.session /\ s.sdk = h.sdk /\ s.counts = h.counts
  /\ s.told = h.told /\ s.heard = h.heard /\ s.calls = h.calls \ {c}

\* The one request without an answer is the one the call was made for; if the
\* tab has another backend by then, nobody waits for it.
LEMMA SettledSound ==
  ASSUME NEW h, NEW n, Good(h, n), NEW c \in h.calls
  PROVE  LET s == Settled(h, c)
         IN /\ Sound(s) /\ Rest(s, n) /\ Backed(s) /\ SettledFrom(h, s, c)
            /\ c.of \in Sessions /\ c.request \in Requests /\ c.current = c.of
            /\ AnsweredBut(s, c.of, c.request)
            /\ ~CallIsCurrent(h, c) => Answered(s)
<1> DEFINE s == Settled(h, c)
<1>1. /\ Sound(h) /\ Rest(h, n) /\ Answered(h) /\ Backed(h) /\ DOMAIN h = Fields
      /\ CallOK(c) /\ c.of \in Sessions /\ c.request \in Requests /\ c.current = c.of
  BY DEF Good, Sound, CallOK, CallType
<1>2. SettledFrom(h, s, c)
  BY <1>1 DEF Settled, SettledFrom, Fields
<1> HIDE DEF s
<1>3. Sound(s)
  <2>1. TabOK(s)
    BY <1>1, <1>2 DEF Sound, TabOK, SettledFrom
  <2>2. \A j \in Sessions : MailOK(s, j)
    BY <1>1, <1>2 DEF Sound, MailOK, SettledFrom
  <2> QED BY <1>1, <1>2, <2>1, <2>2 DEF Sound, SettledFrom
<1>4. Rest(s, n) /\ Backed(s)
  <2>1. Informed(s)
    BY <1>1, <1>2 DEF Rest, Informed, SettledFrom
  <2>2. Begun(s)
    BY <1>1, <1>2 DEF Rest, Begun, SettledFrom
  <2>3. Timely(s)
    BY <1>1, <1>2 DEF Rest, Timely, SettledFrom
  <2>4. Single(s, n)
    BY <1>1, <1>2 DEF Rest, Single, Holds, SettledFrom
  <2>5. Backed(s)
    BY <1>1, <1>2 DEF Backed, SettledFrom
  <2> QED BY <2>1, <2>2, <2>3, <2>4, <2>5 DEF Rest
<1>5. ASSUME NEW j \in Sessions, s.sdk[j].need = "asked",
             ~(j = c.of /\ s.sdk[j].asked = c.request)
      PROVE  Underway(s, j, s.sdk[j].asked)
  <2>1. Underway(h, j, h.sdk[j].asked) /\ s.sdk = h.sdk
    BY <1>1, <1>2, <1>5 DEF Answered, SettledFrom
  <2> QED BY <1>2, <1>5, <2>1 DEF Underway, SettledFrom
<1>6. AnsweredBut(s, c.of, c.request)
  BY <1>5 DEF AnsweredBut
<1>7. ASSUME ~CallIsCurrent(h, c), NEW j \in Sessions, s.sdk[j].need = "asked"
      PROVE  Underway(s, j, s.sdk[j].asked)
  <2>1. h.sdk[j].need = "asked"
    BY <1>2, <1>7 DEF SettledFrom
  <2>2. h.session[j].client /\ j = h.tab.current
    BY <1>1, <2>1 DEF Sound, SessionOK
  <2>3. j # c.of
    <3> SUFFICES ASSUME j = c.of PROVE FALSE
      OBVIOUS
    <3>1. c.current = h.tab.current
      BY <1>1, <2>2
    <3>2. c.generation = h.tab.generation
      BY <1>1, <3>1 DEF Rest, Timely
    <3> QED BY <1>7, <3>1, <3>2 DEF CallIsCurrent
  <2> QED BY <1>5, <1>7, <2>3
<1>8. ~CallIsCurrent(h, c) => Answered(s)
  BY <1>7 DEF Answered
<1> QED BY <1>1, <1>2, <1>3, <1>4, <1>6, <1>8 DEF s

\* ProviderSettles.
LEMMA ProviderSettlesGood ==
  ASSUME SetupOK, NEW h, NEW n, Good(h, n), NEW c \in h.calls,
         NEW token \in {NoToken, <<c.of, c.request>>}
  PROVE  LET s == Settled(h, c)
         IN Good(IF CallIsCurrent(h, c) THEN PostToken(s, c.request, token) ELSE s, n)
<1> DEFINE s == Settled(h, c)
           k == c.of
           q == c.request
           r == PostToken(s, q, token)
<1>1. /\ Sound(s) /\ Rest(s, n) /\ Backed(s) /\ SettledFrom(h, s, c)
      /\ k \in Sessions /\ q \in Requests /\ c.current = k
      /\ AnsweredBut(s, k, q)
      /\ ~CallIsCurrent(h, c) => Answered(s)
  BY SettledSound
<1> HIDE DEF s
<1>2. CASE ~CallIsCurrent(h, c)
  <2>1. Good(s, n)
    BY <1>1, <1>2 DEF Good
  <2> QED BY <1>2, <2>1 DEF s
<1>3. CASE CallIsCurrent(h, c)
  <2>1. k = s.tab.current
    BY <1>1, <1>3 DEF CallIsCurrent, SettledFrom
  <2>2. token \in {NoToken, <<k, q>>}
    OBVIOUS
  <2> HIDE DEF k, q
  <2>3. Sound(r) /\ Calm(s, r, k) /\ Answered(r)
    BY <1>1, <2>1, <2>2, PostTokenSound
  <2> HIDE DEF r
  <2>4. Rest(r, n)
    BY <1>1, <2>3, CalmRest
  <2>5. Backed(r)
    <3>1. r.tab = s.tab /\ r.near = s.near
      BY <2>3 DEF Calm
    <3>2. \A j \in Sessions : r.session[j].client = s.session[j].client
      <4>1. r.session[k].client = s.session[k].client
        BY <2>3 DEF Calm
      <4>2. \A j \in Sessions \ {k} : r.session[j] = s.session[j]
        BY <2>3 DEF Calm
      <4> QED BY <4>1, <4>2
    <3> QED BY <1>1, <2>1, <3>1, <3>2 DEF Backed
  <2>6. Good(r, n)
    BY <2>3, <2>4, <2>5 DEF Good
  <2> QED BY <1>3, <2>6 DEF r, s, q
<1> QED BY <1>2, <1>3

\* Reaps: the port is closed, and its last word is on the way.
LEMMA ReapsGood ==
  ASSUME SetupOK, NEW h, NEW n, Good(h, n), NEW k \in Sessions, h.session[k].up, ~Local
  PROVE  LET s == Emit(h, k, [type |-> "reaped"])
         IN Good([Gone(s, k) EXCEPT !.outbox[k] = s.outbox[k]], n)
<1> DEFINE m == [type |-> "reaped"]
           s == Emit(h, k, m)
           g == Gone(s, k)
           r == [g EXCEPT !.outbox[k] = s.outbox[k]]
<1>1. /\ Sound(h) /\ Answered(h) /\ DOMAIN h = Fields /\ k \in h.near /\ h.heard.of = h.heard.to
  BY DEF Good, Sound, MailOK, TabOK
<1>2. m \in Outbound /\ m.type = "reaped"
  BY DEF Outbound
<1> HIDE DEF m
<1>3. Said(h, s, k, m)
  <2>1. s = [h EXCEPT !.outbox[k] = Append(@, m)]
    BY <1>1 DEF Emit
  <2> HIDE DEF s
  <2> QED BY <1>1, <2>1 DEF Said, Fields
<1> HIDE DEF s
<1>4. Sound(s)
  BY <1>1, <1>2, <1>3, SaidSound
<1>5. Good(s, n)
  <2>1. Calm(h, s, k)
    BY <1>1, <1>2, <1>3, SaidCalm
  <2>2. Answered(s)
    BY <1>1, <1>2, <1>3, SaidUnderway
  <2> QED BY <1>4, <2>1, <2>2, CalmGood
<1>6. /\ k = s.tab.current /\ s.tab.backend /\ s.near = {k}
  <2>1. k \in s.near
    BY <1>1, <1>3 DEF Said
  <2> QED BY <1>5, <2>1, Current
<1>7. /\ Sound(s) /\ Rest(s, n) /\ Answered(s) /\ Backed(s) /\ DOMAIN s = Fields
      /\ s.session \in [Sessions -> SessionType] /\ s.sdk \in [Sessions -> ClientType]
      /\ s.inbox = [j \in Sessions |-> s.inbox[j]] /\ s.outbox \in [Sessions -> Seq(Outbound)]
  BY <1>5 DEF Good, Sound
<1>8. /\ DOMAIN r = Fields /\ r.tab = s.tab /\ r.near = s.near /\ r.outbox = s.outbox
      /\ r.session = [s.session EXCEPT ![k] = NoSession]
      /\ r.sdk = [s.sdk EXCEPT ![k] = NoClient]
      /\ r.inbox = [s.inbox EXCEPT ![k] = <<>>]
      /\ r.calls = s.calls /\ r.counts = s.counts /\ r.told = s.told /\ r.heard = s.heard
  <2>1. /\ DOMAIN g = Fields /\ g.tab = s.tab /\ g.near = s.near
        /\ g.outbox = [s.outbox EXCEPT ![k] = <<>>]
        /\ g.session = [s.session EXCEPT ![k] = NoSession]
        /\ g.sdk = [s.sdk EXCEPT ![k] = NoClient]
        /\ g.inbox = [s.inbox EXCEPT ![k] = <<>>]
        /\ g.calls = s.calls /\ g.counts = s.counts /\ g.told = s.told /\ g.heard = s.heard
    BY <1>7 DEF Gone, Fields
  <2> DEFINE O == s.outbox
  <2>2. [[O EXCEPT ![k] = <<>>] EXCEPT ![k] = O[k]] = O
    BY <1>7
  <2> HIDE DEF g, O
  <2>3. r.outbox = [g.outbox EXCEPT ![k] = s.outbox[k]]
    BY <2>1 DEF Fields
  <2> QED BY <2>1, <2>2, <2>3 DEF Fields, O
<1> HIDE DEF r, g
<1>9. /\ r.session[k] = NoSession /\ r.sdk[k] = NoClient /\ r.inbox[k] = <<>>
      /\ \A j \in Sessions \ {k} : /\ r.session[j] = s.session[j] /\ r.sdk[j] = s.sdk[j]
                                   /\ r.inbox[j] = s.inbox[j]
      /\ r.inbox = [j \in Sessions |-> r.inbox[j]]
  BY <1>7, <1>8
<1>10. NoSession \in SessionType /\ NoClient \in ClientType /\ SessionOK(k, NoSession, NoClient, TRUE)
       /\ NoSession.up = FALSE /\ NoClient.need = "none" /\ NoSession.client = FALSE
  <2>1. Left(NoSession, NoClient, k)
    BY LeftWorker
  <2>2. SessionOK(k, NoSession, NoClient, TRUE)
    BY <2>1 DEF Left, SessionOK, NoSession
  <2> QED BY <2>1, <2>2 DEF Left, NoSession, NoClient
<1>11. Sound(r)
  <2>1. TabOK(r)
    BY <1>7, <1>8 DEF Sound, TabOK
  <2>2. r.session \in [Sessions -> SessionType] /\ r.sdk \in [Sessions -> ClientType]
    BY <1>7, <1>8, <1>10
  <2>3. \A j \in Sessions : SessionOK(j, r.session[j], r.sdk[j], j = r.tab.current)
    <3>1. SessionOK(k, r.session[k], r.sdk[k], k = r.tab.current)
      BY <1>6, <1>8, <1>9, <1>10
    <3>2. \A j \in Sessions \ {k} : SessionOK(j, r.session[j], r.sdk[j], j = r.tab.current)
      BY <1>7, <1>8, <1>9 DEF Sound
    <3> QED BY <3>1, <3>2
  <2>4. MailOK(r, k)
    <3>1. <<>> \in Seq(Inbound(k))
      OBVIOUS
    <3>2. ~r.session[k].up
      BY <1>9, <1>10
    <3>3. k \in r.near
      BY <1>6, <1>8
    <3> QED BY <1>9, <3>1, <3>2, <3>3 DEF MailOK
  <2>5. \A j \in Sessions \ {k} : MailOK(r, j)
    BY <1>7, <1>8, <1>9 DEF Sound, MailOK
  <2>6. r.counts \in [Publications -> Nat]
        /\ \A c \in r.calls : CallOK(c) /\ c.current <= r.tab.made
    BY <1>7, <1>8 DEF Sound
  <2>7. \A j \in Sessions : MailOK(r, j)
    BY <2>4, <2>5
  <2>8. DOMAIN r = Fields /\ r.outbox \in [Sessions -> Seq(Outbound)]
    BY <1>7, <1>8
  <2> QED BY <1>9, <2>1, <2>2, <2>3, <2>6, <2>7, <2>8 DEF Sound
<1>12. Answered(r)
  <2>1. \A j \in Sessions : s.sdk[j].need = "asked" => j = k
    BY <1>6, <1>7 DEF Sound, SessionOK
  <2> QED BY <1>9, <1>10, <2>1 DEF Answered
<1>13. Informed(r)
  BY <1>6, <1>8, <1>9, <1>10 DEF Informed
<1>14. Begun(r)
  <2>1. Len(<<>>) = 0 /\ 1..0 = {}
    OBVIOUS
  <2> QED BY <1>7, <1>9, <1>10, <2>1 DEF Rest, Begun
<1>15. Timely(r)
  BY <1>7, <1>8 DEF Rest, Timely
<1>16. Single(r, n)
  BY <1>7, <1>8 DEF Rest, Single, Holds
<1>17. Backed(r)
  <2>1. k # None
    BY DEF None, Sessions
  <2>2. r.tab.backend /\ r.tab.current = k /\ r.near = {k}
    BY <1>6, <1>8
  <2> QED BY <2>1, <2>2 DEF Backed
<1> QED BY <1>11, <1>12, <1>13, <1>14, <1>15, <1>16, <1>17 DEF Good, Rest, r, g, s, m

----------------------------------------------------------------------------
(* The steps of the specification.                                         *)

\* A state record is only its fields.
LEMMA SameGood ==
  ASSUME NEW s, NEW n, Good(s, n), NEW r, DOMAIN r = Fields,
         r.tab = s.tab, r.near = s.near, r.inbox = s.inbox, r.outbox = s.outbox,
         r.session = s.session, r.sdk = s.sdk, r.calls = s.calls, r.told = s.told,
         r.heard = s.heard, r.counts = s.counts
  PROVE  Good(r, n)
<1>1. Sound(s) /\ Answered(s) /\ Rest(s, n) /\ Backed(s)
  BY DEF Good
<1>2. TabOK(r) /\ \A j \in Sessions : MailOK(r, j)
  BY <1>1 DEF Sound, TabOK, MailOK
<1>3. Sound(r)
  BY <1>1, <1>2 DEF Sound
<1>4. Answered(r)
  BY <1>1 DEF Answered, Underway
<1>5. Informed(r)
  BY <1>1 DEF Rest, Informed
<1>6. Begun(r)
  BY <1>1 DEF Rest, Begun
<1>7. Timely(r)
  BY <1>1 DEF Rest, Timely
<1>8. Single(r, n)
  BY <1>1 DEF Rest, Single, Holds
<1>9. Backed(r)
  BY <1>1 DEF Backed
<1> QED BY <1>3, <1>4, <1>5, <1>6, <1>7, <1>8, <1>9 DEF Good, Rest

\* What a step makes of the variables is as good as what it computes.
LEMMA BecomeGood ==
  ASSUME SetupOK, NEW s, NEW n, Good(s, n), Become(s)
  PROVE  (SetupOK /\ Good(Here, n))'
<1>1. setup' = setup
  BY DEF Become
<1>2. Good(Here', n)
  <2>1. DOMAIN Here' = Fields
    BY DEF Here, Fields
  <2>2. /\ Here'.tab = s.tab /\ Here'.near = s.near /\ Here'.inbox = s.inbox
        /\ Here'.outbox = s.outbox /\ Here'.session = s.session /\ Here'.sdk = s.sdk
        /\ Here'.calls = s.calls /\ Here'.told = s.told /\ Here'.heard = s.heard
        /\ Here'.counts = s.counts
    BY DEF Here, Become
  <2> QED BY <2>1, <2>2, SameGood
<1>3. Sound(Here)'
  <2>1. Sound(Here')
    BY <1>2 DEF Good
  <2>2. Outbound' = Outbound
    BY <1>1 DEF Outbound
  <2>3. Local' = Local
    BY <1>1 DEF Local
  <2>4. (\A k \in Sessions : SessionOK(k, Here.session[k], Here.sdk[k], k = Here.tab.current))'
    <3>1. \A k \in Sessions :
            SessionOK(k, Here'.session[k], Here'.sdk[k], k = Here'.tab.current)
      BY <2>1 DEF Sound
    <3> QED BY <1>1, <3>1 DEF SessionOK, Local
  <2>5. (\A k \in Sessions : MailOK(Here, k))'
    <3>1. \A k \in Sessions : MailOK(Here', k)
      BY <2>1 DEF Sound
    <3> QED BY <1>1, <3>1 DEF MailOK, Local
  <2>6. (\A c \in Here.calls : CallOK(c) /\ c.current <= Here.tab.made)'
    <3>1. \A c \in Here'.calls : CallOK(c) /\ c.current <= Here'.tab.made
      BY <2>1 DEF Sound
    <3> QED BY <1>1, <3>1 DEF CallOK
  <2>7. (DOMAIN Here = Fields /\ TabOK(Here))'
    BY <2>1 DEF Sound
  <2>8. (/\ Here.session \in [Sessions -> SessionType] /\ Here.sdk \in [Sessions -> ClientType]
         /\ Here.inbox = [k \in Sessions |-> Here.inbox[k]]
         /\ Here.counts \in [Publications -> Nat])'
    BY <2>1 DEF Sound
  <2>9. (Here.outbox \in [Sessions -> Seq(Outbound)])'
    <3>1. Here'.outbox \in [Sessions -> Seq(Outbound)]
      BY <2>1 DEF Sound
    <3> QED BY <2>2, <3>1
  <2> QED BY <2>4, <2>5, <2>6, <2>7, <2>8, <2>9 DEF Sound
<1>4. Answered(Here)'
  BY <1>1, <1>2 DEF Good
<1>5. Rest(Here, n)'
  BY <1>1, <1>2 DEF Good
<1>6. Backed(Here)'
  BY <1>1, <1>2 DEF Good, Backed, Local
<1>7. SetupOK'
  BY <1>1 DEF SetupOK
<1> QED BY <1>3, <1>4, <1>5, <1>6, <1>7 DEF Good

\* The inductive invariant.
Inv == SetupOK /\ Good(Here, events) /\ moves \in Nat /\ events \in 0..MaxEvents

\* The fields of the state record are the variables.
LEMMA HereIs ==
  /\ Here.tab = tab /\ Here.near = near /\ Here.inbox = inbox /\ Here.outbox = outbox
  /\ Here.session = session /\ Here.sdk = sdk /\ Here.calls = calls /\ Here.told = told
  /\ Here.heard = heard /\ Here.counts = counts
BY DEF Here

\* More events than publications.
LEMMA Later ==
  ASSUME NEW s, NEW n \in Nat, Good(s, n)
  PROVE  Good(s, n + 1)
<1>1. Single(s, n)
  BY DEF Good, Rest
<1>2. \A p \in Publications : p \in Nat /\ (p > n + 1 => p > n) /\ (p <= n => p <= n + 1)
  BY DEF Publications
<1>3. Single(s, n + 1)
  BY <1>1, <1>2 DEF Single
<1> QED BY <1>3 DEF Good, Rest

\* A step that is no event.
LEMMA StepInv ==
  ASSUME Inv, NEW s, Good(s, events), Step(s) \/ Move(s)
  PROVE  Inv'
<1>1. Become(s) /\ events' = events /\ moves' \in Nat
  BY DEF Step, Move, Inv
<1>2. (SetupOK /\ Good(Here, events))'
  <2> DEFINE n == events
  <2>1. SetupOK /\ Good(s, n)
    BY DEF Inv
  <2>2. Good(s, events')
    BY <1>1
  <2>3. ASSUME NEW CONSTANT e, e = events', Good(s, e)
        PROVE  SetupOK' /\ Good(Here, e)'
    BY <1>1, <2>1, <2>3, BecomeGood
  <2> QED BY <2>2, <2>3
<1> QED BY <1>1, <1>2 DEF Inv

\* A step of the server, the worker or an old client.
LEMMA EventInv ==
  ASSUME Inv, NEW s, Good(s, events) \/ Good(s, events + 1), Event(s)
  PROVE  Inv'
<1>1. /\ Become(s) /\ events' = events + 1 /\ moves' \in Nat /\ events' \in 0..MaxEvents
      /\ events \in Nat
  BY BridgeAssumption DEF Event, Inv
<1>2. (SetupOK /\ Good(Here, events))'
  <2>1. SetupOK
    BY DEF Inv
  <2>2. Good(s, events')
    <3>1. CASE Good(s, events)
      <4>1. ASSUME NEW CONSTANT e, e = events, Good(s, e)
            PROVE  Good(s, e + 1)
        BY <1>1, <4>1, Later
      <4> QED BY <1>1, <3>1, <4>1
    <3>2. CASE Good(s, events + 1)
      BY <1>1, <3>2
    <3> QED BY <3>1, <3>2
  <2>3. ASSUME NEW CONSTANT e, e = events', Good(s, e)
        PROVE  SetupOK' /\ Good(Here, e)'
    BY <1>1, <2>1, <2>3, BecomeGood
  <2> QED BY <2>2, <2>3
<1> QED BY <1>1, <1>2 DEF Inv

\* Start, StartThrows and StartShared.
LEMMA StartsInv ==
  ASSUME Inv, Start \/ StartThrows \/ StartShared
  PROVE  Inv'
<1> DEFINE k == tab.made + 1
<1>1. SetupOK /\ Good(Here, events)
  BY DEF Inv
<1>2. Prepared(k) = PreparedFrom(Here, k)
  BY DEF Prepared, PreparedFrom
<1>3. CASE Start
  <2>1. ~Here.tab.backend /\ k \in Sessions /\ NextUp(Here, k)
    BY <1>3, HereIs DEF Start, NextUp
  <2>2. Step(Opened(Post(MadeFrom(Here, k), [type |-> "init"])))
    BY <1>2, <1>3 DEF Start, Opened, MadeFrom
  <2> HIDE DEF k
  <2>3. Good(Opened(Post(MadeFrom(Here, k), [type |-> "init"])), events)
    BY <1>1, <2>1, StartGood
  <2> QED BY <2>2, <2>3, StepInv
<1>4. CASE StartThrows
  <2>1. ~Here.tab.backend /\ k \in Sessions /\ NextUp(Here, k)
    BY <1>4, HereIs DEF StartThrows, NextUp
  <2> DEFINE f == [PreparedFrom(Here, k) EXCEPT !.tab.dial = "failed"]
             g == [f EXCEPT !.tab.current = k, !.session[k].up = TRUE, !.session[k].lifecycle = 1]
  <2>2. Step(IF Local THEN g ELSE f)
    BY <1>2, <1>4 DEF StartThrows
  <2> HIDE DEF k
  <2>3. CASE Local
    <3>1. Good(g, events)
      BY ZenonT(40), <1>1, <2>1, <2>3, ClientThrowsGood
    <3> HIDE DEF f, g
    <3> QED BY <2>2, <2>3, <3>1, StepInv
  <2>4. CASE ~Local
    <3>1. Good(f, events)
      BY <1>1, <2>1, <2>4, FactoryThrowsGood
    <3> HIDE DEF f, g
    <3> QED BY <2>2, <2>4, <3>1, StepInv
  <2> QED BY <2>3, <2>4
<1>5. CASE StartShared
  BY <1>1, <1>5, StepInv DEF StartShared
<1> QED BY <1>3, <1>4, <1>5

\* A call of the bus is posted, whoever the backend is.
LEMMA PostGood ==
  ASSUME SetupOK, NEW s, NEW n, Good(s, n), s.tab.backend, NEW A \in SUBSET Topics, NEW m,
         m \in [type : {"publish"}] \cup [type : {"subscribe", "unsubscribe"}, topic : Topics],
         Tells(m, s.tab.asked, A)
  PROVE  Good(Post(Asking(s, A), m), n)
<1> DEFINE k == s.tab.current
<1>1. k \in Sessions
  <2>1. k # None /\ s.near = {k} /\ s.near \subseteq Sessions
    BY DEF Good, Backed, Sound, TabOK
  <2> QED BY <2>1
<1>2. m \in Inbound(k) /\ m.type \notin {"init", "token"}
  BY DEF Inbound
<1> HIDE DEF k
<1>3. k = s.tab.current
  BY DEF k
<1> QED BY <1>1, <1>2, <1>3, PostLocalGood, PostWorkerGood

\* Subscribe and Unsubscribe.
LEMMA TopicsInv ==
  ASSUME Inv, NEW t \in Topics, Subscribe(t) \/ Unsubscribe(t)
  PROVE  Inv'
<1>1. SetupOK /\ Good(Here, events) /\ tab.asked \in SUBSET Topics /\ DOMAIN Here = Fields
  BY HereIs DEF Inv, Good, Sound, TabOK, TabType
<1>2. CASE Subscribe(t)
  <2> DEFINE A == tab.asked \cup {t}
             m == [type |-> "subscribe", topic |-> t]
  <2>1. Here.tab.backend /\ Move(Post(Asking(Here, A), m))
    <3>1. [Here EXCEPT !.tab.asked = @ \cup {t}] = Asking(Here, A)
      BY HereIs DEF Asking, Here
    <3> QED BY <1>2, <3>1, HereIs DEF Subscribe
  <2>2. A \in SUBSET Topics /\ Tells(m, Here.tab.asked, A)
    BY <1>1, HereIs DEF Tells, About
  <2>3. m \in [type : {"publish"}] \cup [type : {"subscribe", "unsubscribe"}, topic : Topics]
    OBVIOUS
  <2> HIDE DEF A, m
  <2>4. Good(Post(Asking(Here, A), m), events)
    BY <1>1, <2>1, <2>2, <2>3, PostGood
  <2> QED BY <2>1, <2>4, StepInv
<1>3. CASE Unsubscribe(t)
  <2> DEFINE A == tab.asked \ {t}
             m == [type |-> "unsubscribe", topic |-> t]
  <2>1. Here.tab.backend /\ Move(Post(Asking(Here, A), m))
    <3>1. [Here EXCEPT !.tab.asked = @ \ {t}] = Asking(Here, A)
      BY HereIs DEF Asking, Here
    <3> QED BY <1>3, <3>1, HereIs DEF Unsubscribe
  <2>2. A \in SUBSET Topics /\ Tells(m, Here.tab.asked, A)
    BY <1>1, HereIs DEF Tells, About
  <2>3. m \in [type : {"publish"}] \cup [type : {"subscribe", "unsubscribe"}, topic : Topics]
    OBVIOUS
  <2> HIDE DEF A, m
  <2>4. Good(Post(Asking(Here, A), m), events)
    BY <1>1, <2>1, <2>2, <2>3, PostGood
  <2> QED BY <2>1, <2>4, StepInv
<1> QED BY <1>2, <1>3

\* Publish and Stop.
LEMMA PublishStopInv ==
  ASSUME Inv, Publish \/ Stop
  PROVE  Inv'
<1>1. /\ SetupOK /\ Good(Here, events) /\ tab.asked \in SUBSET Topics /\ DOMAIN Here = Fields
      /\ tab \in TabType
  BY HereIs DEF Inv, Good, Sound, TabOK, TabType
<1>2. CASE Publish
  <2> DEFINE A == tab.asked
             m == [type |-> "publish"]
  <2>1. Asking(Here, A) = Here
    <3>1. [tab EXCEPT !.asked = A] = tab
      BY <1>1 DEF TabType
    <3> QED BY <3>1, HereIs DEF Asking, Here
  <2>2. Here.tab.backend /\ Move(Post(Asking(Here, A), m))
    BY <1>2, <2>1, HereIs DEF Publish
  <2>3. A \in SUBSET Topics /\ Tells(m, Here.tab.asked, A)
    BY <1>1, HereIs DEF Tells, About
  <2>4. m \in [type : {"publish"}] \cup [type : {"subscribe", "unsubscribe"}, topic : Topics]
    OBVIOUS
  <2> HIDE DEF A, m
  <2>5. Good(Post(Asking(Here, A), m), events)
    BY <1>1, <2>2, <2>3, <2>4, PostGood
  <2> QED BY <2>2, <2>5, StepInv
<1>3. CASE Stop
  <2>1. Here.tab.backend /\ Move(StopFrom(Here))
    BY <1>3, HereIs DEF Stop, StopFrom
  <2>2. Good(StopFrom(Here), events)
    BY <1>1, <2>1, StopGood
  <2> QED BY <2>1, <2>2, StepInv
<1> QED BY <1>2, <1>3

\* Receive and Deliver.
LEMMA MessagesInv ==
  ASSUME Inv, NEW k \in Sessions, Receive(k) \/ Deliver(k)
  PROVE  Inv'
<1>1. SetupOK /\ Good(Here, events) /\ events \in Nat
  BY BridgeAssumption DEF Inv
<1>2. CASE Receive(k)
  <2> DEFINE r == Handle([Here EXCEPT !.inbox[k] = Tail(@)], k, Head(Here.inbox[k]))
  <2>1. Here.session[k].up /\ Here.inbox[k] # <<>> /\ Step(r)
    BY <1>2, HereIs DEF Receive
  <2>2. Good(r, events)
    BY <1>1, <2>1, ReceiveGood
  <2> HIDE DEF r
  <2> QED BY <2>1, <2>2, StepInv
<1>3. CASE Deliver(k)
  <2> DEFINE r == Output(Taken(Here, k), k, Head(Here.outbox[k]))
  <2>1. k \in Here.near /\ Here.outbox[k] # <<>> /\ Step(r)
    BY <1>3, HereIs DEF Deliver, Taken
  <2>2. Good(r, events)
    BY <1>1, <2>1, DeliverGood
  <2> HIDE DEF r
  <2> QED BY <2>1, <2>2, StepInv
<1> QED BY <1>2, <1>3

\* ProviderSettles.
LEMMA ProviderSettlesInv ==
  ASSUME Inv, NEW c, ProviderSettles(c)
  PROVE  Inv'
<1>1. SetupOK /\ Good(Here, events) /\ c \in Here.calls
  BY HereIs DEF Inv, ProviderSettles
<1>2. IsCurrentBackend(c) <=> CallIsCurrent(Here, c)
  BY HereIs DEF IsCurrentBackend, CallIsCurrent
<1> DEFINE r(token) == IF CallIsCurrent(Here, c) THEN PostToken(Settled(Here, c), c.request, token)
                       ELSE Settled(Here, c)
<1>3. PICK token \in {NoToken, <<c.of, c.request>>} : Step(r(token))
  BY <1>2 DEF ProviderSettles, Settled
<1>4. Good(r(token), events)
  BY <1>1, ProviderSettlesGood
<1> HIDE DEF r
<1> QED BY <1>3, <1>4, StepInv

\* The client connects, is refused a token, or loses its connection.
LEMMA ClientInv ==
  ASSUME Inv, NEW k \in Sessions,
         Connects(k) \/ AsksAgain(k) \/ Loses(k) \/ Disconnects(k)
  PROVE  Inv'
<1>1. SetupOK /\ Good(Here, events)
  BY DEF Inv
<1>2. Here.session[k].client
  BY HereIs DEF Connects, AsksAgain, Loses, Disconnects, Running
<1>3. CASE Connects(k)
  <2> DEFINE s == [Here EXCEPT !.sdk[k].state = "connected", !.sdk[k].need = "none"]
             m == Status("connected")
             r == FromClient(FromClient(s, k, m), k, m)
  <2>1. (setup.provider = "none" \/ Here.sdk[k].token # NoToken) /\ Step(r)
    BY <1>3, HereIs DEF Connects
  <2>2. Good(r, events)
    BY ZenonT(40), <1>1, <1>2, <2>1, ConnectsGood
  <2> HIDE DEF r
  <2> QED BY <2>1, <2>2, StepInv
<1>4. CASE AsksAgain(k)
  <2> DEFINE r == RequestToken(FromClient(Here, k, Error), k)
  <2>1. /\ Here.sdk[k].need = "refused" /\ Here.session[k].next <= MaxRequests
        /\ Step(r)
    BY <1>4, HereIs DEF AsksAgain
  <2>2. Good(r, events)
    BY <1>1, <1>2, <2>1, AsksAgainGood
  <2> HIDE DEF r
  <2> QED BY <2>1, <2>2, StepInv
<1>5. CASE Loses(k)
  <2> DEFINE T == {Here.sdk[k].token} \cup
                    (IF Here.session[k].next <= MaxRequests THEN {NoToken} ELSE {})
             r(token) == Dial([Here EXCEPT !.sdk[k].token = token], k)
  <2>1. Here.sdk[k].state = "connected" /\ \E token \in T : Event(r(token))
    BY <1>5, HereIs DEF Loses
  <2>2. PICK token \in T : Event(r(token))
    BY <2>1
  <2>3. Good(r(token), events)
    BY <1>1, <1>2, <2>1, <2>2, LosesGood
  <2> HIDE DEF r
  <2> QED BY <2>2, <2>3, EventInv
<1>6. CASE Disconnects(k)
  <2> DEFINE s == [Here EXCEPT !.sdk[k].state = "off", !.sdk[k].need = "none"]
             m == Status("disconnected")
             r == FromClient(FromClient(s, k, m), k, m)
  <2>1. Here.sdk[k].need # "asked" /\ Event(r)
    BY <1>6, HereIs DEF Disconnects
  <2>2. Good(r, events)
    BY ZenonT(40), <1>1, <1>2, <2>1, DisconnectsGood
  <2> HIDE DEF r
  <2> QED BY <2>1, <2>2, EventInv
<1> QED BY <1>3, <1>4, <1>5, <1>6

\* The listeners of a client that was stopped change nothing.
LEMMA OldClientIsMute ==
  ASSUME NEW k \in Sessions, OldClientTells(k)
  PROVE  Event(Here)
<1>1. Here.session[k].lifecycle = 2
  BY HereIs DEF OldClientTells
<1>2. PICK m \in Reports : Event(FromClient(Here, k, m))
  BY DEF OldClientTells
<1>3. FromClient(Here, k, m) = Here
  BY <1>1 DEF FromClient
<1> QED BY <1>2, <1>3

\* A client that may have been stopped, and a worker that is going.
LEMMA LateInv ==
  ASSUME Inv, NEW k \in Sessions,
         PublishSettles(k) \/ OldClientAsks(k) \/ OldClientTells(k) \/ Reaps(k)
  PROVE  Inv'
<1>1. SetupOK /\ Good(Here, events) /\ Here.session[k].up
  BY HereIs DEF Inv, PublishSettles, OldClientAsks, OldClientTells, Reaps
<1>2. CASE PublishSettles(k)
  <2> DEFINE s == [Here EXCEPT !.sdk[k].flying = @ - 1]
             r == FromClient(s, k, Error)
  <2>1. Here.sdk[k].flying > 0 /\ (Step(s) \/ Step(r))
    BY <1>2, HereIs DEF PublishSettles
  <2>2. Good(s, events) /\ Good(r, events)
    BY <1>1, <2>1, PublishSettlesGood
  <2> HIDE DEF s, r
  <2> QED BY <2>1, <2>2, StepInv
<1>3. CASE OldClientAsks(k)
  <2> DEFINE r == RequestToken(Here, k)
  <2>1. Here.session[k].lifecycle = 2 /\ Event(r)
    BY <1>3, HereIs DEF OldClientAsks
  <2>2. Good(r, events)
    BY <1>1, <2>1, OldClientAsksGood
  <2> HIDE DEF r
  <2> QED BY <2>1, <2>2, EventInv
<1>4. CASE Reaps(k)
  <2> DEFINE s == Emit(Here, k, [type |-> "reaped"])
             r == [Gone(s, k) EXCEPT !.outbox[k] = s.outbox[k]]
  <2>1. ~Local /\ Event(r)
    BY <1>4 DEF Reaps, Local
  <2>2. Good(r, events)
    BY <1>1, <2>1, ReapsGood
  <2> HIDE DEF r
  <2> QED BY <2>1, <2>2, EventInv
<1>5. CASE OldClientTells(k)
  <2>1. Event(Here)
    BY <1>5, OldClientIsMute
  <2> QED BY <1>1, <2>1, EventInv
<1> QED BY <1>2, <1>3, <1>4, <1>5

\* Publication and ServerUnsubscribes.
LEMMA ServerInv ==
  ASSUME Inv, NEW k \in Sessions, NEW t \in Topics, Publication(k, t) \/ ServerUnsubscribes(k, t)
  PROVE  Inv'
<1>1. SetupOK /\ Good(Here, events) /\ events \in Nat
  BY BridgeAssumption DEF Inv
<1>2. Here.session[k].client
  BY HereIs DEF Publication, ServerUnsubscribes, Running
<1>3. CASE Publication(k, t)
  <2>1. Published(k, t) = PublishedFrom(Here, events, k, t)
    BY HereIs DEF Published, PublishedFrom
  <2>2. events < MaxEvents /\ Event(Published(k, t))
    BY <1>3 DEF Publication, Event
  <2>3. ASSUME NEW CONSTANT n, n = events
        PROVE  Good(PublishedFrom(Here, n, k, t), n + 1)
    BY <1>1, <1>2, <2>2, <2>3, PublicationGood
  <2>4. Good(PublishedFrom(Here, events, k, t), events + 1)
    BY <2>3
  <2> QED BY <2>1, <2>2, <2>4, EventInv
<1>4. CASE ServerUnsubscribes(k, t)
  <2> DEFINE r == [Here EXCEPT !.sdk[k].on = @ \ {t}, !.session[k].subs = @ \ {t},
                               !.sdk[k].ended = @ \cup {t}]
  <2>1. Event(r)
    BY <1>4 DEF ServerUnsubscribes
  <2>2. Good(r, events)
    BY ZenonT(40), <1>1, <1>2, ServerUnsubscribesGood
  <2> HIDE DEF r
  <2> QED BY <2>1, <2>2, EventInv
<1> QED BY <1>3, <1>4

\* Breaks.
LEMMA BreaksInv ==
  ASSUME Inv, Breaks
  PROVE  Inv'
<1>1. SetupOK /\ Good(Here, events) /\ ~Local /\ Here.tab.backend
  BY HereIs DEF Inv, Breaks
<1>2. Here.tab.current \in Sessions /\ Here.tab.current \in Here.near
  BY <1>1 DEF Good, Backed, Sound, TabOK
<1>3. Good(WorkerFailed(Here), events)
  BY <1>1, <1>2, WorkerFailedGood
<1>4. Event(WorkerFailed(Here))
  BY DEF Breaks
<1> QED BY <1>3, <1>4, EventInv

\* Every step keeps the invariant.
LEMMA StepsInv ==
  ASSUME Inv, [Next]_vars
  PROVE  Inv'
<1>1. CASE UNCHANGED vars
  <2>1. Become(Here)
    BY <1>1, HereIs DEF Become, vars
  <2>2. Step(Here)
    BY <1>1, <2>1 DEF Step, vars
  <2> QED BY <2>2, StepInv DEF Inv
<1>2. CASE Start \/ StartShared \/ StartThrows
  BY <1>2, StartsInv
<1>3. CASE Publish \/ Stop
  BY <1>3, PublishStopInv
<1>4. CASE \E t \in Topics : Subscribe(t) \/ Unsubscribe(t)
  BY <1>4, TopicsInv
<1>5. CASE System
  BY <1>5, MessagesInv, ProviderSettlesInv DEF System
<1>6. CASE Breaks
  BY <1>6, BreaksInv
<1>7. ASSUME NEW k \in Sessions,
             Connects(k) \/ AsksAgain(k) \/ Loses(k) \/ Disconnects(k)
      PROVE  Inv'
  BY <1>7, ClientInv
<1>8. ASSUME NEW k \in Sessions,
             PublishSettles(k) \/ OldClientAsks(k) \/ OldClientTells(k) \/ Reaps(k)
      PROVE  Inv'
  BY <1>8, LateInv
<1>9. ASSUME NEW k \in Sessions, NEW t \in Topics, Publication(k, t) \/ ServerUnsubscribes(k, t)
      PROVE  Inv'
  BY <1>9, ServerInv
<1> QED BY <1>1, <1>2, <1>3, <1>4, <1>5, <1>6, <1>7, <1>8, <1>9 DEF Next

\* Nothing is under way before the first start().
LEMMA InitInv == Init => Inv
<1> SUFFICES ASSUME Init PROVE Inv
  OBVIOUS
<1>1. SetupOK
  BY BridgeAssumption DEF Init, SetupOK
<1>2. /\ Here.tab = [backend |-> FALSE, current |-> None, generation |-> 0, handlers |-> None,
                     made |-> 0, asked |-> {}, dial |-> "ok"]
      /\ Here.near = {} /\ Here.calls = {}
      /\ Here.inbox = [k \in Sessions |-> <<>>] /\ Here.outbox = [k \in Sessions |-> <<>>]
      /\ Here.session = [k \in Sessions |-> NoSession] /\ Here.sdk = [k \in Sessions |-> NoClient]
      /\ Here.told = [by |-> 0, status |-> "none"] /\ Here.heard = [of |-> None, to |-> None]
      /\ Here.counts = [p \in Publications |-> 0] /\ DOMAIN Here = Fields
      /\ moves = 0 /\ events = 0
  BY DEF Init, Here, Fields
<1> DEFINE s == Here
<1> HIDE DEF s
<1>3. NoSession \in SessionType /\ NoClient \in ClientType /\ NoClient.need = "none"
      /\ NoSession.up = FALSE
  <2>2. NoSession \in SessionType
    BY BridgeAssumption DEF NoSession, SessionType, Requests
  <2>3. NoClient \in ClientType
    BY BridgeAssumption DEF NoClient, ClientType, None, NoToken, Tokens
  <2> QED BY <2>2, <2>3 DEF NoClient, NoSession
<1>4. TabOK(Here)
  <2>1. Here.tab \in TabType
    BY <1>2, BridgeAssumption DEF TabType, None
  <2>2. Here.told \in ToldType
    BY <1>2, BridgeAssumption DEF ToldType
  <2> QED BY <1>2, <2>1, <2>2 DEF TabOK, None
<1>5. ASSUME NEW k \in Sessions
      PROVE  /\ SessionOK(k, Here.session[k], Here.sdk[k], k = Here.tab.current)
             /\ MailOK(Here, k) /\ Here.inbox[k] = <<>> /\ Here.outbox[k] = <<>>
             /\ Here.session[k] = NoSession /\ Here.sdk[k] = NoClient
  <2>1. Here.session[k] = NoSession /\ Here.sdk[k] = NoClient /\ Here.inbox[k] = <<>>
        /\ Here.outbox[k] = <<>>
    BY <1>2
  <2>2. SessionOK(k, NoSession, NoClient, FALSE)
    BY LeftWorker DEF Left
  <2>4. SessionOK(k, Here.session[k], Here.sdk[k], k = Here.tab.current)
    BY <2>1, <2>2 DEF SessionOK, NoSession
  <2>5. <<>> \in Seq(Inbound(k))
    OBVIOUS
  <2>6. MailOK(Here, k)
    BY <1>3, <2>1, <2>5 DEF MailOK
  <2> QED BY <2>1, <2>4, <2>6
<1>6. Sound(Here)
  <2>1. Here.session \in [Sessions -> SessionType] /\ Here.sdk \in [Sessions -> ClientType]
    BY <1>2, <1>3
  <2>2. Here.outbox \in [Sessions -> Seq(Outbound)] /\ Here.inbox = [k \in Sessions |-> Here.inbox[k]]
    <3>1. <<>> \in Seq(Outbound)
      OBVIOUS
    <3> QED BY <1>2, <3>1
  <2>3. Here.counts \in [Publications -> Nat]
    BY <1>2
  <2>4. \A c \in Here.calls : CallOK(c) /\ c.current <= Here.tab.made
    BY <1>2
  <2>5. DOMAIN Here = Fields
    BY <1>2
  <2> QED BY <1>4, <1>5, <2>1, <2>2, <2>3, <2>4, <2>5 DEF Sound
<1>7. Len(<<>>) = 0 /\ 1..0 = {}
  OBVIOUS
<1>8. Answered(Here)
  BY <1>3, <1>5 DEF Answered
<1>9. Informed(Here)
  BY <1>3, <1>5 DEF Informed
<1>10. Begun(Here)
  BY <1>3, <1>5, <1>7 DEF Begun
<1>11. Timely(Here)
  BY <1>2 DEF Timely
<1>12. Single(Here, 0)
  <2>1. \A p \in Publications : Here.counts[p] = 0
    BY <1>2
  <2> QED BY <1>5, <1>7, <2>1 DEF Single
<1>13. Backed(Here)
  BY <1>2 DEF Backed
<1>14. Good(Here, 0)
  BY <1>6, <1>8, <1>9, <1>10, <1>11, <1>12, <1>13 DEF Good, Rest
<1> QED BY <1>1, <1>2, <1>14, BridgeAssumption DEF Inv

\* What the invariant says of the variables.
LEMMA InvFacts ==
  ASSUME Inv
  PROVE  /\ tab \in TabType /\ near \subseteq Sessions
         /\ session \in [Sessions -> SessionType] /\ sdk \in [Sessions -> ClientType]
         /\ told \in ToldType /\ heard.of = heard.to /\ counts \in [Publications -> Nat]
         /\ \A k \in Sessions :
              SessionOK(k, session[k], sdk[k], k = tab.current) /\ MailOK(Here, k)
         /\ \A c \in calls : CallOK(c)
         /\ \A p \in Publications : counts[p] <= 1
         /\ outbox \in [Sessions -> Seq(Outbound)]
         /\ Answered(Here) /\ Informed(Here)
<1>1. Good(Here, events)
  BY DEF Inv
<1>2. Sound(Here) /\ Answered(Here) /\ Informed(Here) /\ Single(Here, events)
  BY <1>1 DEF Good, Rest
<1>3. TabOK(Here)
  BY <1>2 DEF Sound
<1>4. tab \in TabType /\ near \subseteq Sessions /\ told \in ToldType /\ heard.of = heard.to
  BY <1>3, HereIs DEF TabOK
<1>5. /\ session \in [Sessions -> SessionType] /\ sdk \in [Sessions -> ClientType]
      /\ counts \in [Publications -> Nat] /\ outbox \in [Sessions -> Seq(Outbound)]
      /\ \A c \in calls : CallOK(c)
  BY <1>2, HereIs DEF Sound
<1>6. \A k \in Sessions : SessionOK(k, session[k], sdk[k], k = tab.current) /\ MailOK(Here, k)
  BY <1>2, HereIs DEF Sound
<1>7. \A p \in Publications : counts[p] <= 1
  BY <1>2, HereIs DEF Single
<1> QED BY <1>2, <1>4, <1>5, <1>6, <1>7

\* The type invariant, with a session that is down leaving nothing behind.
LEMMA InvTypes == Inv => TypeOK
<1> SUFFICES ASSUME Inv PROVE TypeOK
  OBVIOUS
<1>1. setup \in [backend : Backends, provider : Providers]
  BY DEF Inv, SetupOK
<1>2. tab \in [backend : BOOLEAN, current : 0..MaxSessions, generation : Nat,
              handlers : 0..MaxSessions, made : 0..MaxSessions, asked : SUBSET Topics,
              dial : {"ok", "failed"}]
      /\ near \subseteq Sessions
  BY InvFacts DEF TabType
<1>3. session \in [Sessions -> [up : BOOLEAN, client : BOOLEAN, lifecycle : 0..2,
                               subs : SUBSET Topics, pending : SUBSET (1..MaxRequests),
                               next : 1..(MaxRequests + 1)]]
  BY InvFacts DEF SessionType, Requests
<1>4. sdk \in [Sessions -> [state : {"off", "connecting", "connected"},
                           need : {"none", "asked", "got", "refused"}, asked : 0..MaxRequests,
                           token : Tokens, on : SUBSET Topics, ears : [Topics -> 0..1],
                           ended : SUBSET Topics, flying : Nat]]
  BY InvFacts DEF ClientType
<1>5. \A c \in calls : c.of \in Sessions /\ c.current \in 0..MaxSessions
  <2>1. \A c \in calls : c.of \in Sessions /\ c.current \in Sessions
    BY InvFacts DEF CallOK, CallType
  <2> QED BY <2>1, BridgeAssumption DEF Sessions
<1>6. told.by \in 0..MaxSessions
  BY InvFacts DEF ToldType
<1>7. counts \in [Publications -> 0..2]
  <2>1. counts \in [Publications -> Nat] /\ \A p \in Publications : counts[p] <= 1
    BY InvFacts
  <2>2. \A p \in Publications : counts[p] \in 0..2
    BY <2>1
  <2> QED BY <2>1, <2>2
<1>8. \A k \in Sessions : session[k].up \/ (session[k] = NoSession /\ inbox[k] = <<>>)
  <2> TAKE k \in Sessions
  <2>1. SessionOK(k, session[k], sdk[k], k = tab.current) /\ MailOK(Here, k)
    BY InvFacts
  <2> QED BY <2>1, HereIs DEF SessionOK, MailOK
<1>9. \A k \in Sessions \ near : outbox[k] = <<>>
  <2>1. \A k \in Sessions : MailOK(Here, k)
    BY InvFacts
  <2> QED BY <2>1, HereIs DEF MailOK
<1> QED BY <1>1, <1>2, <1>3, <1>4, <1>5, <1>6, <1>7, <1>8, <1>9 DEF TypeOK

\* Nothing is in the mail of a quiet session.
LEMMA QuietMail ==
  ASSUME Inv, NEW k \in Sessions, Quiet(k)
  PROVE  /\ \A i \in 1..Len(Here.inbox[k]) : FALSE
         /\ \A i \in 1..Len(Here.outbox[k]) : FALSE
         /\ Here.calls = {}
<1>1. MailOK(Here, k) /\ outbox \in [Sessions -> Seq(Outbound)]
  BY InvFacts
<1>2. inbox[k] \in Seq(Inbound(k)) /\ outbox[k] \in Seq(Outbound)
  BY <1>1, HereIs DEF MailOK
<1>3. DOMAIN inbox[k] = 1..Len(inbox[k]) /\ DOMAIN outbox[k] = 1..Len(outbox[k])
  BY <1>2, LenProperties
<1>4. DOMAIN inbox[k] = {} /\ DOMAIN outbox[k] = {} /\ calls = {}
  BY DEF Quiet, Messages
<1> QED BY <1>3, <1>4, HereIs

\* The properties of the runs follow.
LEMMA InvProperties == Inv => CredentialsArrive /\ HandedOnOnce /\ SubscriptionsAgree
<1> SUFFICES ASSUME Inv PROVE CredentialsArrive /\ HandedOnOnce /\ SubscriptionsAgree
  OBVIOUS
<1>1. TokensAreOwn
  BY InvFacts DEF TokensAreOwn, SessionOK
<1>2. NoneStranded
  <2> SUFFICES ASSUME NEW k \in Sessions, Quiet(k), sdk[k].need = "asked" PROVE FALSE
    BY DEF NoneStranded
  <2>1. Underway(Here, k, Here.sdk[k].asked)
    BY InvFacts, HereIs DEF Answered
  <2> QED BY <2>1, QuietMail DEF Underway
<1>3. HandedOnOnce
  BY InvFacts DEF HandedOnOnce
<1>4. SubscriptionsAgree
  <2> SUFFICES ASSUME NEW k \in Sessions, k = tab.current, Running(k), Quiet(k)
               PROVE  /\ session[k].subs = tab.asked \ sdk[k].ended
                      /\ session[k].subs = sdk[k].on
                      /\ \A t \in session[k].subs : sdk[k].ears[t] = 1
    BY DEF SubscriptionsAgree
  <2>1. SessionOK(k, session[k], sdk[k], k = tab.current)
        /\ session[k] \in SessionType /\ tab \in TabType
    BY InvFacts
  <2>2. session[k].subs \subseteq Topics /\ tab.asked \subseteq Topics
    BY <2>1 DEF SessionType, TabType
  <2>3. \A t \in Topics : t \in session[k].subs <=> t \in tab.asked \ sdk[k].ended
    <3> TAKE t \in Topics
    <3>1. Follows(Here.inbox[k], t, tab.asked, session[k].subs, sdk[k].ended)
      BY InvFacts, HereIs DEF Informed, Running
    <3> QED BY <3>1, QuietMail DEF Follows
  <2>4. session[k].subs = tab.asked \ sdk[k].ended
    BY <2>2, <2>3
  <2>5. session[k].subs = sdk[k].on
    BY <2>1 DEF SessionOK
  <2>6. \A t \in session[k].subs : sdk[k].ears[t] = 1
    BY <2>1 DEF SessionOK
  <2> QED BY <2>4, <2>5, <2>6
<1> QED BY <1>1, <1>2, <1>3, <1>4 DEF CredentialsArrive

\* The invariant holds in every state.
LEMMA Invariant == Spec => []Inv
<1>1. Inv /\ [Next]_vars => Inv'
  BY StepsInv
<1> QED BY InitInv, <1>1, PTL DEF Spec

\* Every variable keeps its type, each topic has one set of listeners at most,
\* and a session that is down or left behind leaves no message (Bridge, and
\* resetBackend of src/src/centrifuge.ts).
THEOREM TypeCorrect == Spec => []TypeOK
BY Invariant, InvTypes, PTL

\* Whatever the provider does, and however often the transport is stopped,
\* fails or is started again, a client dials only with a token fetched for its
\* own last request, and no client is left waiting for one (requestToken,
\* resolveToken, resolveTokenRequest and isCurrentBackend).
THEOREM CredentialsAlwaysArrive == Spec => []CredentialsArrive
<1>1. Inv => CredentialsArrive
  BY InvProperties
<1> QED BY Invariant, <1>1, PTL

\* Nothing from a session that was stopped reaches the handlers of the next,
\* and no publication reaches them twice (handleOutput, onWorkerFailed, the
\* publication listeners of the session).
THEOREM HandedOnOnceOnly == Spec => []HandedOnOnce
<1>1. Inv => HandedOnOnce
  BY InvProperties
<1> QED BY Invariant, <1>1, PTL

\* A quiet session tracks exactly the topics the bus asked its transport for,
\* but for those the server ended (subscribe and unsubscribe on both sides).
THEOREM SubscriptionsAlwaysAgree == Spec => []SubscriptionsAgree
<1>1. Inv => SubscriptionsAgree
  BY InvProperties
<1> QED BY Invariant, <1>1, PTL

----------------------------------------------------------------------------
(* The transport is a link: what statuses the tab hears, and in what order. *)

Farewell(m) == m.type = "status" /\ m.status = "disconnected"
News(m) == m.type = "status" /\ m.status # "disconnected"

\* Session k has said its last status, and the tab has heard it or will.
Parting(s, k) ==
  \/ s.told.status = "disconnected"
  \/ \E i \in 1..Len(s.outbox[k]) : Farewell(s.outbox[k][i])

\* The client of session k is off for good, or its worker is gone.
Over(s, k) == s.session[k].up => s.session[k].client /\ s.sdk[k].state = "off"

\* Of the current session, nothing follows its "disconnected".
OrderedAt(s, k) ==
  /\ s.told.status # "error"
  /\ \A i \in 1..Len(s.outbox[k]) : News(s.outbox[k][i]) =>
       /\ s.told.status # "disconnected"
       /\ \A j \in 1..i : ~Farewell(s.outbox[k][j])
  /\ Parting(s, k) => Over(s, k)
Ordered(s) == s.tab.current # None => OrderedAt(s, s.tab.current)

\* A state record, with as much of its type as functions on it need.
Shaped(s) ==
  /\ DOMAIN s = Fields /\ DOMAIN s.session = Sessions /\ DOMAIN s.sdk = Sessions
  /\ \A j \in Sessions : /\ DOMAIN s.session[j] = DOMAIN NoSession
                         /\ DOMAIN s.sdk[j] = DOMAIN NoClient
  /\ s.outbox \in [Sessions -> Seq(Outbound)]

\* From s to r no session says a status, and none starts again.
Mute(s, r) ==
  /\ Shaped(r) /\ r.tab = s.tab /\ r.told = s.told
  /\ \A j \in Sessions :
       /\ r.session[j].up = s.session[j].up /\ r.session[j].client = s.session[j].client
       /\ r.sdk[j].state = s.sdk[j].state
       /\ Grown(s.outbox[j], r.outbox[j], {"error", "request", "message", "reaped"})

\* What is sound has the shape.
LEMMA SoundShaped ==
  ASSUME NEW s, Sound(s)
  PROVE  Shaped(s)
BY DEF Sound, Shaped, SessionType, ClientType, NoSession, NoClient

\* Nothing said is mute.
LEMMA MuteSame ==
  ASSUME NEW s, Shaped(s), NEW r, Shaped(r), r.tab = s.tab, r.told = s.told,
         r.outbox = s.outbox,
         \A j \in Sessions :
           /\ r.session[j].up = s.session[j].up /\ r.session[j].client = s.session[j].client
           /\ r.sdk[j].state = s.sdk[j].state
  PROVE  Mute(s, r)
<1>1. ASSUME NEW j \in Sessions
      PROVE  Grown(s.outbox[j], r.outbox[j], {"error", "request", "message", "reaped"})
  BY GrownSame DEF Shaped
<1> QED BY <1>1 DEF Mute

\* Mute upon mute is mute.
LEMMA MuteTwice ==
  ASSUME NEW s, NEW r, NEW x, Shaped(s), Mute(s, r), Mute(r, x)
  PROVE  Mute(s, x)
<1>1. ASSUME NEW j \in Sessions
      PROVE  Grown(s.outbox[j], x.outbox[j], {"error", "request", "message", "reaped"})
  <2>1. /\ s.outbox[j] \in Seq(Outbound) /\ r.outbox[j] \in Seq(Outbound)
        /\ x.outbox[j] \in Seq(Outbound)
    BY DEF Shaped, Mute
  <2> QED BY <2>1, GrownTwice DEF Mute
<1> QED BY <1>1 DEF Mute

\* What is mute keeps the order.
LEMMA MuteOrdered ==
  ASSUME NEW s, NEW r, Shaped(s), Mute(s, r), s.tab.current \in Sessions \cup {None}, Ordered(s)
  PROVE  Ordered(r)
<1> DEFINE k == s.tab.current
           q == s.outbox[k]
           o == r.outbox[k]
<1> SUFFICES ASSUME k # None PROVE OrderedAt(r, k)
  BY DEF Ordered, Mute
<1>1. k \in Sessions /\ OrderedAt(s, k)
  BY DEF Ordered
<1>2. Len(q) \in Nat /\ Len(o) \in Nat
  <2>1. q \in Seq(Outbound) /\ o \in Seq(Outbound)
    BY <1>1 DEF Shaped, Mute
  <2> QED BY <2>1, LenProperties
<1>3. /\ Len(q) <= Len(o) /\ \A i \in 1..Len(q) : o[i] = q[i]
      /\ \A i \in 1..Len(o) : i > Len(q) => ~Farewell(o[i]) /\ ~News(o[i])
  BY <1>1 DEF Mute, Grown, Farewell, News
<1>4. /\ \A i \in 1..Len(o) : News(o[i]) \/ Farewell(o[i]) => i \in 1..Len(q)
  BY <1>2, <1>3
<1>5. r.told = s.told /\ (Over(r, k) <=> Over(s, k))
  BY <1>1 DEF Mute, Over
<1>6. Parting(r, k) => Over(r, k)
  <2> HIDE DEF k, q
  <2> QED BY <1>1, <1>3, <1>4, <1>5 DEF OrderedAt, Parting, q
<1>7. ASSUME NEW i \in 1..Len(o), News(o[i])
      PROVE  s.told.status # "disconnected" /\ \A j \in 1..i : ~Farewell(o[j])
  <2>1. i \in 1..Len(q) /\ News(q[i])
    BY <1>3, <1>4, <1>7
  <2>2. s.told.status # "disconnected" /\ \A j \in 1..i : ~Farewell(q[j])
    BY <1>1, <2>1 DEF OrderedAt
  <2>3. \A j \in 1..i : o[j] = q[j]
    BY <1>2, <1>3, <2>1
  <2> QED BY <2>2, <2>3
<1>8. s.told.status # "error"
  BY <1>1 DEF OrderedAt
<1> QED BY <1>5, <1>6, <1>7, <1>8 DEF OrderedAt

\* Answers to requests are mute.
LEMMA SettleTokenMute ==
  ASSUME NEW s, Shaped(s), NEW k \in Sessions, NEW r, NEW token
  PROVE  Mute(s, SettleToken(s, k, r, token))
<1> DEFINE x == SettleToken(s, k, r, token)
<1>1. CASE r \notin s.session[k].pending
  <2>1. x = s
    BY <1>1 DEF SettleToken
  <2> QED BY <2>1, MuteSame
<1>2. CASE r \in s.session[k].pending
  <2>1. /\ DOMAIN x = Fields /\ x.tab = s.tab /\ x.told = s.told /\ x.outbox = s.outbox
        /\ x.session = [s.session EXCEPT ![k].pending = @ \ {r}]
        /\ x.sdk = [s.sdk EXCEPT ![k].need = IF token = NoToken THEN "refused" ELSE "got",
                                 ![k].token = token]
    BY <1>2 DEF SettleToken, Shaped, Fields
  <2> HIDE DEF x
  <2>2. Shaped(x)
    BY <2>1 DEF Shaped
  <2>3. ASSUME NEW j \in Sessions
        PROVE  /\ x.session[j].up = s.session[j].up /\ x.session[j].client = s.session[j].client
               /\ x.sdk[j].state = s.sdk[j].state
    BY <2>1 DEF Shaped, NoSession, NoClient
  <2> QED BY <2>1, <2>2, <2>3, MuteSame DEF x
<1> QED BY <1>1, <1>2

\* So is a message to a worker.
LEMMA SendMute ==
  ASSUME NEW s, Shaped(s), NEW k, NEW m
  PROVE  Mute(s, Send(s, k, m))
<1> DEFINE x == Send(s, k, m)
<1>1. /\ DOMAIN x = Fields /\ x.tab = s.tab /\ x.told = s.told /\ x.outbox = s.outbox
      /\ x.session = s.session /\ x.sdk = s.sdk
  BY DEF Send, Shaped, Fields
<1> HIDE DEF x
<1>2. Shaped(x)
  BY <1>1 DEF Shaped
<1>3. Mute(s, x)
  BY <1>1, <1>2, MuteSame
<1> QED BY <1>3 DEF x

\* So is an answer, wherever the session is.
LEMMA PostTokenMute ==
  ASSUME NEW s, Shaped(s), s.tab.current \in Sessions \cup {None}, NEW r, NEW token
  PROVE  Mute(s, PostToken(s, r, token))
<1> DEFINE k == s.tab.current
<1>1. CASE k = None
  <2>1. PostToken(s, r, token) = s
    BY <1>1 DEF PostToken
  <2> QED BY <2>1, MuteSame
<1>2. CASE k # None /\ Local
  <2>1. PostToken(s, r, token) = SettleToken(s, k, r, token)
    BY <1>2 DEF PostToken
  <2> QED BY <1>2, <2>1, SettleTokenMute
<1>3. CASE k # None /\ ~Local
  <2>1. PostToken(s, r, token)
          = Send(s, k, [type |-> "token", request |-> r, token |-> token])
    BY <1>3 DEF PostToken
  <2> QED BY <2>1, SendMute
<1> QED BY <1>1, <1>2, <1>3

\* The provider says nothing either.
LEMMA ResolveTokenRequestMute ==
  ASSUME SetupOK, NEW s, Shaped(s), s.tab.current \in Sessions \cup {None}, NEW k, NEW r,
         setup.provider # "none"
  PROVE  Mute(s, ResolveTokenRequest(s, k, r))
<1> DEFINE x == ResolveTokenRequest(s, k, r)
<1>1. CASE setup.provider = "throws"
  <2>1. x = PostToken(s, r, NoToken)
    BY <1>1 DEF ResolveTokenRequest
  <2> QED BY <2>1, PostTokenMute
<1>2. CASE setup.provider = "promise"
  <2>1. /\ DOMAIN x = Fields /\ x.tab = s.tab /\ x.told = s.told /\ x.outbox = s.outbox
        /\ x.session = s.session /\ x.sdk = s.sdk
    BY <1>2 DEF ResolveTokenRequest, Shaped, Fields
  <2> HIDE DEF x
  <2>2. Shaped(x)
    BY <2>1 DEF Shaped
  <2>3. Mute(s, x)
    BY <2>1, <2>2, MuteSame
  <2> QED BY <2>3 DEF x
<1> QED BY <1>1, <1>2 DEF SetupOK

\* A message of a worker that is no status.
LEMMA AppendMute ==
  ASSUME NEW s, Shaped(s), NEW k \in Sessions, NEW m \in Outbound,
         m.type \in {"error", "request", "message", "reaped"}
  PROVE  Mute(s, [s EXCEPT !.outbox[k] = Append(@, m)])
<1> DEFINE x == [s EXCEPT !.outbox[k] = Append(@, m)]
<1>1. /\ DOMAIN x = Fields /\ x.tab = s.tab /\ x.told = s.told
      /\ x.outbox = [s.outbox EXCEPT ![k] = Append(@, m)]
      /\ x.session = s.session /\ x.sdk = s.sdk
  BY DEF Shaped, Fields
<1> HIDE DEF x
<1>2. s.outbox[k] \in Seq(Outbound) /\ s.outbox \in [Sessions -> Seq(Outbound)]
  BY DEF Shaped
<1>3. Append(s.outbox[k], m) \in Seq(Outbound)
  BY <1>2, AppendProperties
<1>4. Shaped(x)
  BY <1>1, <1>2, <1>3 DEF Shaped
<1>5. ASSUME NEW j \in Sessions
      PROVE  Grown(s.outbox[j], x.outbox[j], {"error", "request", "message", "reaped"})
  <2>1. CASE j = k
    <3>1. x.outbox[j] = Append(s.outbox[j], m) /\ s.outbox[j] \in Seq(Outbound)
      BY <1>1, <1>2, <2>1
    <3> QED BY <3>1, GrownBy
  <2>2. CASE j # k
    <3>1. x.outbox[j] = s.outbox[j] /\ s.outbox[j] \in Seq(Outbound)
      BY <1>1, <1>2, <2>2
    <3> QED BY <3>1, GrownSame
  <2> QED BY <2>1, <2>2
<1>6. Mute(s, x)
  BY <1>1, <1>4, <1>5 DEF Mute
<1> QED BY <1>6 DEF x

\* An error or a publication is handed on, or is on its way.
LEMMA EmitMute ==
  ASSUME NEW s, Shaped(s), NEW k \in Sessions, NEW m \in Plain, m.type \in {"error", "message"}
  PROVE  Mute(s, Emit(s, k, m))
<1> DEFINE x == Emit(s, k, m)
<1>1. CASE Local
  <2>1. x = Output(s, k, m)
    BY <1>1 DEF Emit
  <2>2. /\ DOMAIN x = Fields /\ x.tab = s.tab /\ x.told = s.told /\ x.outbox = s.outbox
        /\ x.session = s.session /\ x.sdk = s.sdk
    <3>1. CASE m.type = "error"
      BY <2>1, <3>1 DEF Output, HandOn, Shaped, Fields
    <3>2. CASE m.type = "message"
      BY <2>1, <3>2 DEF Output, HandOn, Shaped, Fields
    <3> QED BY <3>1, <3>2
  <2> HIDE DEF x
  <2>3. Shaped(x)
    BY <2>2 DEF Shaped
  <2>4. Mute(s, x)
    BY <2>2, <2>3, MuteSame
  <2> QED BY <2>4 DEF x
<1>2. CASE ~Local /\ k \in s.near /\ s.session[k].up
  <2>1. x = [s EXCEPT !.outbox[k] = Append(@, m)]
    BY <1>2 DEF Emit
  <2>2. m \in Outbound
    BY DEF Outbound
  <2> QED BY <2>1, <2>2, AppendMute
<1>3. CASE ~Local /\ ~(k \in s.near /\ s.session[k].up)
  <2>1. x = s
    BY <1>3 DEF Emit
  <2> QED BY <2>1, MuteSame
<1> QED BY <1>1, <1>2, <1>3

\* A request for a credential is no status.
LEMMA EmitRequestMute ==
  ASSUME SetupOK, NEW s, Shaped(s), s.tab.current \in Sessions \cup {None}, NEW k \in Sessions,
         NEW r \in Requests, setup.provider # "none"
  PROVE  Mute(s, Emit(s, k, [type |-> "request", request |-> r]))
<1> DEFINE m == [type |-> "request", request |-> r]
           x == Emit(s, k, m)
<1>1. CASE Local
  <2>1. x = ResolveTokenRequest(s, k, r)
    BY <1>1 DEF Emit, Output
  <2> QED BY <2>1, ResolveTokenRequestMute
<1>2. CASE ~Local /\ k \in s.near /\ s.session[k].up
  <2>1. x = [s EXCEPT !.outbox[k] = Append(@, m)]
    BY <1>2 DEF Emit
  <2>2. m \in Outbound /\ m.type = "request"
    BY DEF Outbound
  <2> HIDE DEF m, x
  <2>3. Mute(s, x)
    BY <2>1, <2>2, AppendMute
  <2> QED BY <2>3 DEF m, x
<1>3. CASE ~Local /\ ~(k \in s.near /\ s.session[k].up)
  <2>1. x = s
    BY <1>3 DEF Emit
  <2> QED BY <2>1, MuteSame
<1> QED BY <1>1, <1>2, <1>3

\* requestToken.
LEMMA RequestTokenMute ==
  ASSUME SetupOK, NEW s, Shaped(s), s.tab.current \in Sessions \cup {None}, NEW k \in Sessions,
         s.session[k].lifecycle = 1 =>
           setup.provider # "none" /\ s.session[k].next \in Requests
  PROVE  Mute(s, RequestToken(s, k))
<1> DEFINE r == s.session[k].next
           a == [s EXCEPT !.session[k].pending = @ \cup {r}, !.session[k].next = r + 1,
                          !.sdk[k].need = "asked", !.sdk[k].asked = r]
           b == [s EXCEPT !.sdk[k].need = "refused"]
<1>1. CASE s.session[k].lifecycle # 1
  <2>1. RequestToken(s, k) = b
    BY <1>1 DEF RequestToken
  <2>2. /\ DOMAIN b = Fields /\ b.tab = s.tab /\ b.told = s.told /\ b.outbox = s.outbox
        /\ b.session = s.session /\ b.sdk = [s.sdk EXCEPT ![k].need = "refused"]
    BY DEF Shaped, Fields
  <2> HIDE DEF b
  <2>3. Shaped(b)
    BY <2>2 DEF Shaped
  <2>4. ASSUME NEW j \in Sessions PROVE b.sdk[j].state = s.sdk[j].state
    BY <2>2 DEF Shaped, NoClient
  <2> QED BY <2>1, <2>2, <2>3, <2>4, MuteSame
<1>2. CASE s.session[k].lifecycle = 1
  <2>1. RequestToken(s, k) = Emit(a, k, [type |-> "request", request |-> r])
    BY <1>2 DEF RequestToken
  <2>2. /\ DOMAIN a = Fields /\ a.tab = s.tab /\ a.told = s.told /\ a.outbox = s.outbox
        /\ a.session = [s.session EXCEPT ![k].pending = @ \cup {r}, ![k].next = r + 1]
        /\ a.sdk = [s.sdk EXCEPT ![k].need = "asked", ![k].asked = r]
    BY DEF Shaped, Fields
  <2> HIDE DEF a
  <2>3. Shaped(a)
    BY <2>2 DEF Shaped
  <2>4. ASSUME NEW j \in Sessions
        PROVE  /\ a.session[j].up = s.session[j].up /\ a.session[j].client = s.session[j].client
               /\ a.sdk[j].state = s.sdk[j].state
    BY <2>2 DEF Shaped, NoSession, NoClient
  <2>5. Mute(s, a)
    BY <2>2, <2>3, <2>4, MuteSame
  <2>6. Mute(a, Emit(a, k, [type |-> "request", request |-> r]))
    BY <1>2, <2>2, <2>3, EmitRequestMute
  <2> QED BY <2>1, <2>5, <2>6, MuteTwice
<1> QED BY <1>1, <1>2

\* What comes from a client and is no status.
LEMMA FromClientMute ==
  ASSUME NEW s, Shaped(s), NEW k \in Sessions, NEW m \in Plain, m.type \in {"error", "message"}
  PROVE  Mute(s, FromClient(s, k, m))
<1>1. Mute(s, s)
  BY MuteSame
<1> QED BY <1>1, EmitMute DEF FromClient

\* subscribe of the session.
LEMMA SubscribeMute ==
  ASSUME NEW s, Shaped(s), NEW k \in Sessions, NEW t
  PROVE  Mute(s, SessionSubscribe(s, k, t))
<1> DEFINE a == [s EXCEPT !.sdk[k].ended = @ \ {t}]
           x == SessionSubscribe(s, k, t)
<1>1. CASE ~s.session[k].client
  <2>1. x = Emit(s, k, Error)
    BY <1>1 DEF SessionSubscribe
  <2> QED BY <2>1, EmitMute, ErrorPlain
<1>2. /\ DOMAIN a = Fields /\ a.tab = s.tab /\ a.told = s.told /\ a.outbox = s.outbox
      /\ a.session = s.session /\ a.sdk = [s.sdk EXCEPT ![k].ended = @ \ {t}]
  BY DEF Shaped, Fields
<1> HIDE DEF a
<1>3. Shaped(a)
  BY <1>2 DEF Shaped
<1>4. ASSUME NEW j \in Sessions PROVE a.sdk[j].state = s.sdk[j].state
  BY <1>2 DEF Shaped, NoClient
<1>5. Mute(s, a)
  BY <1>2, <1>3, <1>4, MuteSame
<1>6. CASE s.session[k].client /\ t \in s.session[k].subs
  <2>1. x = [a EXCEPT !.sdk[k].on = @ \cup {t}]
    BY <1>6 DEF SessionSubscribe, a
  <2>2. /\ DOMAIN x = Fields /\ x.tab = a.tab /\ x.told = a.told /\ x.outbox = a.outbox
        /\ x.session = a.session /\ x.sdk = [a.sdk EXCEPT ![k].on = @ \cup {t}]
    BY <1>3, <2>1 DEF Shaped, Fields
  <2> HIDE DEF x
  <2>3. Shaped(x)
    BY <1>3, <2>2 DEF Shaped
  <2>4. ASSUME NEW j \in Sessions PROVE x.sdk[j].state = a.sdk[j].state
    BY <1>3, <2>2 DEF Shaped, NoClient
  <2>5. Mute(a, x)
    BY <1>3, <2>2, <2>3, <2>4, MuteSame
  <2> QED BY <1>5, <2>5, MuteTwice DEF x
<1>7. CASE s.session[k].client /\ t \notin s.session[k].subs
  <2>1. x = Listen(a, k, t)
    BY <1>7 DEF SessionSubscribe, a
  <2>2. /\ DOMAIN x = Fields /\ x.tab = a.tab /\ x.told = a.told /\ x.outbox = a.outbox
        /\ x.session = [a.session EXCEPT ![k].subs = @ \cup {t}]
        /\ x.sdk = [a.sdk EXCEPT ![k].ears[t] = 1, ![k].on = @ \cup {t}]
    BY <1>3, <2>1 DEF Listen, Shaped, Fields
  <2> HIDE DEF x
  <2>3. Shaped(x)
    BY <1>3, <2>2 DEF Shaped
  <2>4. ASSUME NEW j \in Sessions
        PROVE  /\ x.session[j].up = a.session[j].up /\ x.session[j].client = a.session[j].client
               /\ x.sdk[j].state = a.sdk[j].state
    BY <1>3, <2>2 DEF Shaped, NoSession, NoClient
  <2>5. Mute(a, x)
    BY <1>3, <2>2, <2>3, <2>4, MuteSame
  <2> QED BY <1>5, <2>5, MuteTwice DEF x
<1> QED BY <1>1, <1>6, <1>7

\* unsubscribe of the session.
LEMMA UnsubscribeMute ==
  ASSUME NEW s, Shaped(s), NEW k \in Sessions, NEW t
  PROVE  Mute(s, SessionUnsubscribe(s, k, t))
<1> DEFINE x == SessionUnsubscribe(s, k, t)
<1>1. /\ DOMAIN x = Fields /\ x.tab = s.tab /\ x.told = s.told /\ x.outbox = s.outbox
      /\ x.session = [s.session EXCEPT ![k].subs = @ \ {t}]
      /\ x.sdk = [s.sdk EXCEPT ![k].ears[t] = 0, ![k].on = @ \ {t}]
  BY DEF SessionUnsubscribe, Shaped, Fields
<1> HIDE DEF x
<1>2. Shaped(x)
  BY <1>1 DEF Shaped
<1>3. ASSUME NEW j \in Sessions
      PROVE  /\ x.session[j].up = s.session[j].up /\ x.session[j].client = s.session[j].client
             /\ x.sdk[j].state = s.sdk[j].state
  BY <1>1 DEF Shaped, NoSession, NoClient
<1>4. Mute(s, x)
  BY <1>1, <1>2, <1>3, MuteSame
<1> QED BY <1>4 DEF x

\* A field of the client other than its state.
LEMMA FieldMute ==
  ASSUME NEW s, Shaped(s), NEW k \in Sessions, NEW n
  PROVE  Mute(s, [s EXCEPT !.sdk[k].flying = n])
<1> DEFINE x == [s EXCEPT !.sdk[k].flying = n]
<1>1. /\ DOMAIN x = Fields /\ x.tab = s.tab /\ x.told = s.told /\ x.outbox = s.outbox
      /\ x.session = s.session /\ x.sdk = [s.sdk EXCEPT ![k].flying = n]
  BY DEF Shaped, Fields
<1> HIDE DEF x
<1>2. Shaped(x)
  BY <1>1 DEF Shaped
<1>3. ASSUME NEW j \in Sessions PROVE x.sdk[j].state = s.sdk[j].state
  BY <1>1 DEF Shaped, NoClient
<1>4. Mute(s, x)
  BY <1>1, <1>2, <1>3, MuteSame
<1> QED BY <1>4 DEF x

\* Every message of the bus but INIT and STOP.
LEMMA HandleMute ==
  ASSUME NEW s, Shaped(s), NEW k \in Sessions, NEW m,
         m.type \in {"subscribe", "unsubscribe", "publish", "token"}
  PROVE  Mute(s, Handle(s, k, m))
<1>1. CASE m.type = "subscribe"
  <2>1. Handle(s, k, m) = SessionSubscribe(s, k, m.topic)
    BY <1>1 DEF Handle
  <2> QED BY <2>1, SubscribeMute
<1>2. CASE m.type = "unsubscribe"
  <2>1. Handle(s, k, m) = SessionUnsubscribe(s, k, m.topic)
    BY <1>2 DEF Handle
  <2> QED BY <2>1, UnsubscribeMute
<1>3. CASE m.type = "publish"
  <2>1. Handle(s, k, m) = SessionPublish(s, k)
    BY <1>3 DEF Handle
  <2>2. Mute(s, SessionPublish(s, k))
    BY EmitMute, ErrorPlain, FieldMute DEF SessionPublish
  <2> QED BY <2>1, <2>2
<1>4. CASE m.type = "token"
  <2>1. Handle(s, k, m) = SettleToken(s, k, m.request, m.token)
    BY <1>4 DEF Handle
  <2> QED BY <2>1, SettleTokenMute
<1> QED BY <1>1, <1>2, <1>3, <1>4

----------------------------------------------------------------------------
(* Statuses.                                                               *)

\* The tab has the handlers of session k, and heard of nobody else since.
Owns(s, k) ==
  s.tab.current = k /\ s.tab.handlers = k /\ s.told \in ToldType /\ s.told.by = k

\* The current session k has said a status.
Spoken(s, r, k, status) ==
  /\ Shaped(r) /\ r.tab = s.tab /\ r.session = s.session /\ r.sdk = s.sdk
  /\ \/ r.told = s.told /\ r.outbox = s.outbox /\ ~Local
     \/ r.told = s.told /\ r.outbox = [s.outbox EXCEPT ![k] = Append(@, Status(status))] /\ ~Local
     \/ r.told = [s.told EXCEPT !.status = status] /\ r.outbox = s.outbox /\ Local

\* A status goes to the handlers at once, or to the end of the outbox.
LEMMA EmitSpoken ==
  ASSUME NEW s, Shaped(s), NEW k \in Sessions, Owns(s, k), NEW status \in Statuses
  PROVE  Spoken(s, Emit(s, k, Status(status)), k, status)
<1> DEFINE m == Status(status)
           x == Emit(s, k, m)
<1>1. m \in Outbound /\ m.type = "status" /\ m.status = status
  BY StatusPlain DEF Outbound
<1>2. CASE Local
  <2>1. k # None
    BY DEF None, Sessions
  <2>2. x = Report(s, k, status)
    BY <1>1, <1>2 DEF Emit, Output
  <2> DEFINE a == [s EXCEPT !.heard = [of |-> k, to |-> s.tab.handlers]]
             v == [by |-> k, status |-> status]
  <2>3. x = [a EXCEPT !.told = v]
    BY <2>1, <2>2 DEF Report, HandOn, Owns
  <2>4. v = [s.told EXCEPT !.status = status]
    BY DEF Owns, ToldType
  <2> HIDE DEF v
  <2>5. /\ DOMAIN x = Fields /\ x.tab = s.tab /\ x.told = v /\ x.outbox = s.outbox
        /\ x.session = s.session /\ x.sdk = s.sdk
    BY <2>3 DEF Shaped, Fields
  <2> HIDE DEF x
  <2>6. Shaped(x)
    BY <2>5 DEF Shaped
  <2> QED BY <1>2, <2>4, <2>5, <2>6 DEF Spoken, x
<1>3. CASE ~Local /\ k \in s.near /\ s.session[k].up
  <2> HIDE DEF m
  <2>1. x = [s EXCEPT !.outbox[k] = Append(@, m)]
    BY <1>3 DEF Emit
  <2>2. /\ DOMAIN x = Fields /\ x.tab = s.tab /\ x.told = s.told
        /\ x.outbox = [s.outbox EXCEPT ![k] = Append(@, m)]
        /\ x.session = s.session /\ x.sdk = s.sdk
    BY <2>1 DEF Shaped, Fields
  <2> HIDE DEF x
  <2>3. s.outbox[k] \in Seq(Outbound) /\ s.outbox \in [Sessions -> Seq(Outbound)]
    BY DEF Shaped
  <2>4. Append(s.outbox[k], m) \in Seq(Outbound)
    BY <1>1, <2>3, AppendProperties
  <2>5. Shaped(x)
    BY <2>2, <2>3, <2>4 DEF Shaped
  <2> QED BY <1>3, <2>2, <2>5 DEF Spoken, x, m
<1>4. CASE ~Local /\ ~(k \in s.near /\ s.session[k].up)
  <2>1. x = s
    BY <1>4 DEF Emit
  <2> QED BY <1>4, <2>1 DEF Spoken
<1> QED BY <1>2, <1>3, <1>4

\* Before the last status any may follow; after it only the same.
LEMMA SpokenOrdered ==
  ASSUME NEW s, Shaped(s), NEW k \in Sessions, Owns(s, k), OrderedAt(s, k), NEW r,
         NEW status \in Statuses, Spoken(s, r, k, status),
         IF status = "disconnected" THEN Over(s, k) /\ (Local => s.outbox[k] = <<>>)
         ELSE ~Parting(s, k)
  PROVE  /\ OrderedAt(r, k) /\ Owns(r, k) /\ (Local => r.outbox = s.outbox)
         /\ status # "disconnected" => ~Parting(r, k)
<1> DEFINE m == Status(status)
           q == s.outbox[k]
           o == r.outbox[k]
<1>1. m.type = "status" /\ m.status = status /\ m \in Outbound
  BY StatusPlain DEF Outbound
<1> HIDE DEF m
<1>2. r.told \in ToldType /\ r.told.by = k
  BY DEF Owns, Spoken, ToldType
<1>3. r.tab = s.tab /\ (Over(r, k) <=> Over(s, k)) /\ (Local => r.outbox = s.outbox)
  BY DEF Spoken, Over
<1>4. Owns(r, k)
  BY <1>2, <1>3 DEF Owns
<1>5. s.outbox \in [Sessions -> Seq(Outbound)] /\ q \in Seq(Outbound) /\ Len(q) \in Nat
  BY LenProperties DEF Shaped
<1>6. CASE r.told = s.told /\ r.outbox = s.outbox
  BY <1>3, <1>4, <1>6 DEF OrderedAt, Parting
<1>7. CASE /\ r.told = [s.told EXCEPT !.status = status] /\ r.outbox = s.outbox /\ Local
  <2>1. r.told.status = status /\ status # "error"
    BY <1>7 DEF Owns, ToldType, Statuses
  <2>2. CASE status = "disconnected"
    <3>1. Len(o) = 0 /\ 1..0 = {}
      BY <1>7, <2>2
    <3>2. Over(r, k)
      BY <1>3, <2>2
    <3> QED BY <1>3, <1>4, <2>1, <2>2, <3>1, <3>2 DEF OrderedAt
  <2>3. CASE status # "disconnected"
    <3>1. ~Parting(r, k)
      BY <1>7, <2>1, <2>3 DEF Parting
    <3> QED BY <1>3, <1>4, <1>7, <2>1, <2>3, <3>1 DEF OrderedAt
  <2> QED BY <2>2, <2>3
<1>8. CASE r.told = s.told /\ r.outbox = [s.outbox EXCEPT ![k] = Append(@, m)]
  <2>1. o = Append(q, m)
    BY <1>5, <1>8
  <2> HIDE DEF q, o
  <2>2. /\ Len(o) = Len(q) + 1 /\ o[Len(q) + 1] = m /\ \A i \in 1..Len(q) : o[i] = q[i]
    BY <1>1, <1>5, <2>1, AppendProperties
  <2>3. \A i \in 1..Len(o) : i \in 1..Len(q) \/ i = Len(q) + 1
    BY <1>5, <2>2
  <2>4. \A i \in 1..Len(q) : i \in 1..Len(o) /\ \A j \in 1..i : j \in 1..Len(q)
    BY <1>5, <2>2
  <2>5. Len(q) + 1 \in 1..Len(o) /\ \A j \in 1..(Len(q) + 1) : j \in 1..Len(o)
    BY <1>5, <2>2
  <2>6. /\ s.told.status # "error"
        /\ \A i \in 1..Len(q) : News(q[i]) =>
             /\ s.told.status # "disconnected"
             /\ \A j \in 1..i : ~Farewell(q[j])
        /\ Parting(s, k) => Over(s, k)
        /\ Parting(s, k) <=> \/ s.told.status = "disconnected"
                             \/ \E i \in 1..Len(q) : Farewell(q[i])
    BY DEF OrderedAt, Parting, q
  <2>7. CASE status = "disconnected"
    <3>1. Over(r, k) /\ ~News(m)
      BY <1>1, <1>3, <2>7 DEF News
    <3>2. ASSUME NEW i \in 1..Len(o), News(o[i])
          PROVE  s.told.status # "disconnected" /\ \A j \in 1..i : ~Farewell(o[j])
      <4>1. i \in 1..Len(q) /\ News(q[i])
        BY <2>2, <2>3, <3>1, <3>2
      <4> QED BY <2>2, <2>4, <2>6, <4>1
    <3> QED BY <1>3, <1>4, <1>8, <2>6, <2>7, <3>1, <3>2 DEF OrderedAt, o
  <2>8. CASE status # "disconnected"
    <3>1. /\ ~Farewell(m) /\ s.told.status # "disconnected"
          /\ \A i \in 1..Len(q) : ~Farewell(q[i])
      BY <1>1, <2>6, <2>8 DEF Farewell
    <3>2. \A i \in 1..Len(o) : ~Farewell(o[i])
      BY <2>2, <2>3, <3>1
    <3>3. ~Parting(r, k)
      BY <1>8, <3>1, <3>2 DEF Parting, o
    <3>4. \A i \in 1..Len(o) : \A j \in 1..i : j \in 1..Len(o)
      BY <1>5, <2>2
    <3> QED BY <1>3, <1>4, <1>8, <2>6, <2>8, <3>1, <3>2, <3>3, <3>4 DEF OrderedAt, o
  <2> QED BY <2>7, <2>8
<1> QED BY <1>6, <1>7, <1>8 DEF Spoken, m

\* The client of session k changes its state.
StateSet(s, x, k, state) ==
  /\ Shaped(x) /\ x.tab = s.tab /\ x.told = s.told /\ x.outbox = s.outbox
  /\ x.sdk[k].state = state
  /\ state = "off" => x.session[k].client

\* It may go off at any time, and come back only before its last status.
LEMMA StateOrdered ==
  ASSUME NEW s, NEW k \in Sessions, Owns(s, k), OrderedAt(s, k), NEW x, NEW state,
         StateSet(s, x, k, state), state # "off" => ~Parting(s, k)
  PROVE  /\ OrderedAt(x, k) /\ Owns(x, k) /\ (Parting(x, k) <=> Parting(s, k))
         /\ state = "off" => Over(x, k)
BY DEF StateSet, OrderedAt, Parting, Owns, Over

\* From s to r the tab has heard of a status at most, and the order is kept.
Hears(s, r, status) ==
  /\ r.tab = s.tab /\ Ordered(r)
  /\ r.told = s.told \/ r.told = [s.told EXCEPT !.status = status]

\* A status reported in a state with another client than s has.
LEMMA SpokenHears ==
  ASSUME NEW s, NEW k \in Sessions, Owns(s, k), NEW x, x.tab = s.tab, x.told = s.told,
         NEW r, NEW status, Spoken(x, r, k, status), OrderedAt(r, k)
  PROVE  Hears(s, r, status)
BY DEF Spoken, Hears, Owns, Ordered

\* The client dials.
LEMMA DialHears ==
  ASSUME SetupOK, NEW s, Shaped(s), NEW k \in Sessions, Owns(s, k), OrderedAt(s, k),
         ~Parting(s, k), s.session[k].lifecycle = 1,
         setup.provider # "none" /\ s.sdk[k].token = NoToken => s.session[k].next \in Requests
  PROVE  Hears(s, Dial(s, k), "connecting")
<1> DEFINE x == [s EXCEPT !.sdk[k].state = "connecting"]
           y == FromClient(x, k, Status("connecting"))
           r == Dial(s, k)
<1>1. /\ DOMAIN x = Fields /\ x.tab = s.tab /\ x.told = s.told /\ x.outbox = s.outbox
      /\ x.session = s.session /\ x.sdk = [s.sdk EXCEPT ![k].state = "connecting"]
  BY DEF Shaped, Fields
<1>2. r = IF setup.provider = "none" \/ y.sdk[k].token # NoToken THEN y ELSE RequestToken(y, k)
  BY DEF Dial
<1> HIDE DEF x, r
<1>3. Shaped(x) /\ x.sdk[k].state = "connecting" /\ x.sdk[k].token = s.sdk[k].token
  BY <1>1 DEF Shaped, NoClient
<1>4. StateSet(s, x, k, "connecting")
  BY <1>1, <1>3 DEF StateSet
<1>5. OrderedAt(x, k) /\ Owns(x, k) /\ ~Parting(x, k)
  BY <1>4, StateOrdered
<1>6. y = Emit(x, k, Status("connecting"))
  BY <1>1 DEF FromClient
<1> HIDE DEF y
<1>7. "connecting" \in Statuses
  BY DEF Statuses
<1>8. Spoken(x, y, k, "connecting")
  BY <1>3, <1>5, <1>6, <1>7, EmitSpoken
<1>9. OrderedAt(y, k) /\ Owns(y, k)
  BY <1>3, <1>5, <1>7, <1>8, SpokenOrdered
<1>10. Hears(s, y, "connecting")
  BY <1>1, <1>8, <1>9, SpokenHears
<1>11. CASE setup.provider = "none" \/ y.sdk[k].token # NoToken
  BY <1>2, <1>10, <1>11 DEF r
<1>12. CASE ~(setup.provider = "none" \/ y.sdk[k].token # NoToken)
  <2>1. Shaped(y) /\ y.sdk[k].token = s.sdk[k].token /\ y.session = s.session
        /\ y.tab.current = k
    BY <1>1, <1>3, <1>8, <1>9 DEF Spoken, Owns
  <2>2. Mute(y, RequestToken(y, k))
    BY <1>12, <2>1, RequestTokenMute
  <2>3. Ordered(RequestToken(y, k))
    BY <1>10, <2>1, <2>2, MuteOrdered DEF Hears
  <2> QED BY <1>2, <1>10, <1>12, <2>2, <2>3 DEF Hears, Mute, r
<1> QED BY <1>11, <1>12

\* initialize: INIT comes before any status.
LEMMA InitializeHears ==
  ASSUME SetupOK, NEW s, Shaped(s), NEW k \in Sessions, Owns(s, k), OrderedAt(s, k),
         s.session[k].up, ~s.session[k].client, s.session[k].lifecycle = 0,
         s.session[k].next = 1
  PROVE  Hears(s, Initialize(s, k), "connecting")
<1> DEFINE x == [s EXCEPT !.session[k].client = TRUE, !.session[k].lifecycle = @ + 1]
<1>1. Initialize(s, k) = Dial(x, k)
  BY DEF Initialize
<1>2. /\ DOMAIN x = Fields /\ x.tab = s.tab /\ x.told = s.told /\ x.outbox = s.outbox
      /\ x.session = [s.session EXCEPT ![k].client = TRUE, ![k].lifecycle = @ + 1]
      /\ x.sdk = s.sdk
  BY DEF Shaped, Fields
<1> HIDE DEF x
<1>3. Shaped(x) /\ x.session[k].lifecycle = 1 /\ x.session[k].next = 1
  BY <1>2 DEF Shaped, NoSession
<1>4. ~Parting(s, k)
  BY DEF OrderedAt, Over
<1>5. ~Parting(x, k) /\ OrderedAt(x, k) /\ Owns(x, k)
  BY <1>2, <1>4 DEF Parting, OrderedAt, Owns
<1>6. 1 \in Requests
  BY BridgeAssumption DEF Requests
<1>7. Hears(x, Dial(x, k), "connecting")
  BY <1>3, <1>5, <1>6, DialHears
<1> QED BY <1>1, <1>2, <1>7 DEF Hears

----------------------------------------------------------------------------
(* Every action keeps the order.                                           *)

\* There is a current session or none.
LEMMA CurrentRange ==
  ASSUME NEW s, Sound(s)
  PROVE  s.tab.current \in Sessions \cup {None}
BY BridgeAssumption DEF Sound, TabOK, TabType, Sessions, None

\* The current session has the handlers.
LEMMA CurrentOwns ==
  ASSUME NEW s, Sound(s), NEW k \in Sessions, s.tab.current = k
  PROVE  Owns(s, k)
<1>1. k # None
  BY DEF Sessions, None
<1> QED BY <1>1 DEF Owns, Sound, TabOK

\* The tab hears of nothing, or of a status that a link may report.
Reported(s, r) ==
  /\ r.tab = s.tab /\ Ordered(r)
  /\ \/ r.told = s.told
     \/ /\ s.tab.backend /\ s.told.status # "error"
        /\ \E status \in Statuses : /\ r.told = [s.told EXCEPT !.status = status]
                                    /\ status # "disconnected" => s.told.status # "disconnected"

\* What is mute reports nothing.
LEMMA MuteReported ==
  ASSUME NEW s, Sound(s), Ordered(s), NEW r, Mute(s, r)
  PROVE  Reported(s, r)
<1>1. Ordered(r)
  BY CurrentRange, MuteOrdered, SoundShaped
<1> QED BY <1>1 DEF Mute, Reported

\* What is heard of a session that runs.
LEMMA HearsReported ==
  ASSUME NEW s, NEW k \in Sessions, OrderedAt(s, k), s.tab.backend, NEW r,
         NEW status \in Statuses, Hears(s, r, status),
         status # "disconnected" => ~Parting(s, k)
  PROVE  Reported(s, r)
BY DEF Hears, Reported, OrderedAt, Parting

\* A client says the same status twice.
LEMMA TwiceHears ==
  ASSUME NEW s, Shaped(s), NEW k \in Sessions, Owns(s, k), OrderedAt(s, k),
         s.session[k].lifecycle = 1, NEW status \in Statuses,
         IF status = "disconnected" THEN Over(s, k) /\ (Local => s.outbox[k] = <<>>)
         ELSE ~Parting(s, k)
  PROVE  LET m == Status(status)
         IN Hears(s, FromClient(FromClient(s, k, m), k, m), status)
<1> DEFINE m == Status(status)
           x == FromClient(s, k, m)
           r == FromClient(x, k, m)
<1>1. x = Emit(s, k, m)
  BY DEF FromClient
<1> HIDE DEF x
<1>2. Spoken(s, x, k, status)
  BY <1>1, EmitSpoken
<1>3. /\ OrderedAt(x, k) /\ Owns(x, k) /\ (Local => x.outbox = s.outbox)
      /\ status # "disconnected" => ~Parting(x, k)
  BY <1>2, SpokenOrdered
<1>4. Shaped(x) /\ x.session = s.session /\ x.sdk = s.sdk /\ x.tab = s.tab
  BY <1>2 DEF Spoken
<1>5. r = Emit(x, k, m)
  BY <1>4 DEF FromClient
<1> HIDE DEF r
<1>6. Spoken(x, r, k, status)
  BY <1>3, <1>4, <1>5, EmitSpoken
<1>7. OrderedAt(r, k)
  BY <1>3, <1>4, <1>6, SpokenOrdered DEF Over
<1>8. x.told = s.told \/ x.told = [s.told EXCEPT !.status = status]
  BY <1>2 DEF Spoken
<1>9. r.told = x.told \/ r.told = [x.told EXCEPT !.status = status]
  BY <1>6 DEF Spoken
<1>10. r.told = s.told \/ r.told = [s.told EXCEPT !.status = status]
  BY <1>8, <1>9 DEF Owns, ToldType
<1>11. r.tab = s.tab /\ s.tab.current = k
  BY <1>4, <1>6 DEF Spoken, Owns
<1> QED BY <1>7, <1>10, <1>11 DEF Hears, Ordered, r, x

\* A session that runs is the current one, and its order is kept.
LEMMA RunsOrdered ==
  ASSUME SetupOK, NEW h, NEW n, Good(h, n), Ordered(h), NEW k \in Sessions, h.session[k].client
  PROVE  /\ Shaped(h) /\ Owns(h, k) /\ OrderedAt(h, k) /\ h.tab.backend
         /\ h.session[k].lifecycle = 1 /\ h.session[k].up
         /\ h.sdk[k].state # "off" => ~Parting(h, k)
<1>1. k = h.tab.current /\ h.tab.backend /\ Sound(h) /\ k # None
  BY Runs DEF Good, Sessions, None
<1>2. OrderedAt(h, k) /\ Owns(h, k) /\ Shaped(h)
  BY <1>1, CurrentOwns, SoundShaped DEF Ordered
<1>3. h.session[k].lifecycle = 1 /\ h.session[k].up
  BY <1>1, InUse
<1> QED BY <1>1, <1>2, <1>3 DEF OrderedAt, Over

\* A client in another state.
LEMMA ClientStateSet ==
  ASSUME NEW h, Sound(h), NEW k \in Sessions, h.session[k].client, NEW D \in ClientType, NEW x,
         ClientOnly(h, x, k, D)
  PROVE  StateSet(h, x, k, D.state) /\ x.session = h.session /\ x.sdk[k] = D
<1>1. /\ DOMAIN h = Fields /\ h.sdk \in [Sessions -> ClientType]
      /\ Shaped(h)
  BY SoundShaped DEF Sound
<1>2. /\ DOMAIN x = Fields /\ x.tab = h.tab /\ x.told = h.told /\ x.outbox = h.outbox
      /\ x.session = h.session /\ x.sdk = [h.sdk EXCEPT ![k] = D]
  BY <1>1 DEF ClientOnly, Fields
<1>3. x.sdk[k] = D
  BY <1>1, <1>2
<1>4. DOMAIN D = DOMAIN NoClient
  BY DEF ClientType, NoClient
<1>5. Shaped(x)
  BY <1>1, <1>2, <1>4 DEF Shaped
<1> QED BY <1>2, <1>3, <1>5 DEF StateSet

\* Connects: it was connecting, so its last status is yet to come.
LEMMA ConnectsReported ==
  ASSUME SetupOK, NEW h, NEW n, Good(h, n), Ordered(h), NEW k \in Sessions, h.session[k].client,
         h.sdk[k].state = "connecting"
  PROVE  LET s == [h EXCEPT !.sdk[k].state = "connected", !.sdk[k].need = "none"]
             m == Status("connected")
         IN Reported(h, FromClient(FromClient(s, k, m), k, m))
<1> DEFINE s == [h EXCEPT !.sdk[k].state = "connected", !.sdk[k].need = "none"]
           m == Status("connected")
           D == [h.sdk[k] EXCEPT !.state = "connected", !.need = "none"]
           r == FromClient(FromClient(s, k, m), k, m)
<1>1. /\ Shaped(h) /\ Owns(h, k) /\ OrderedAt(h, k) /\ h.tab.backend
      /\ h.session[k].lifecycle = 1 /\ ~Parting(h, k)
  BY RunsOrdered
<1>2. Sound(h) /\ DOMAIN h = Fields /\ h.sdk \in [Sessions -> ClientType]
  BY DEF Good, Sound
<1>3. D \in ClientType /\ D.state = "connected"
  BY <1>2 DEF ClientType
<1>4. ClientOnly(h, s, k, D)
  BY ZenonT(40), <1>2, StateNeed
<1> HIDE DEF s, D
<1>5. StateSet(h, s, k, "connected") /\ s.session = h.session
  BY <1>2, <1>3, <1>4, ClientStateSet
<1>6. OrderedAt(s, k) /\ Owns(s, k) /\ ~Parting(s, k) /\ Shaped(s)
  BY <1>1, <1>5, StateOrdered DEF StateSet
<1>7. "connected" \in Statuses
  BY DEF Statuses
<1>8. Hears(s, r, "connected")
  BY <1>1, <1>5, <1>6, <1>7, TwiceHears
<1> HIDE DEF r
<1>9. Hears(h, r, "connected")
  BY <1>5, <1>8 DEF Hears, StateSet
<1>10. Reported(h, r)
  BY <1>1, <1>7, <1>9, HearsReported
<1> QED BY <1>10 DEF r, s

\* Disconnects: it is off, whatever it said before.
LEMMA DisconnectsReported ==
  ASSUME SetupOK, NEW h, NEW n, Good(h, n), Ordered(h), NEW k \in Sessions, h.session[k].client
  PROVE  LET s == [h EXCEPT !.sdk[k].state = "off", !.sdk[k].need = "none"]
             m == Status("disconnected")
         IN Reported(h, FromClient(FromClient(s, k, m), k, m))
<1> DEFINE s == [h EXCEPT !.sdk[k].state = "off", !.sdk[k].need = "none"]
           m == Status("disconnected")
           D == [h.sdk[k] EXCEPT !.state = "off", !.need = "none"]
           r == FromClient(FromClient(s, k, m), k, m)
<1>1. /\ Shaped(h) /\ Owns(h, k) /\ OrderedAt(h, k) /\ h.tab.backend
      /\ h.session[k].lifecycle = 1
  BY RunsOrdered
<1>2. /\ Sound(h) /\ DOMAIN h = Fields /\ h.sdk \in [Sessions -> ClientType]
      /\ Local => h.outbox[k] = <<>>
  BY DEF Good, Sound, MailOK
<1>3. D \in ClientType /\ D.state = "off"
  BY <1>2 DEF ClientType
<1>4. ClientOnly(h, s, k, D)
  BY ZenonT(40), <1>2, StateNeed
<1> HIDE DEF s, D
<1>5. StateSet(h, s, k, "off") /\ s.session = h.session
  BY <1>2, <1>3, <1>4, ClientStateSet
<1>6. /\ OrderedAt(s, k) /\ Owns(s, k) /\ Over(s, k) /\ Shaped(s)
      /\ Local => s.outbox[k] = <<>>
  BY <1>1, <1>2, <1>5, StateOrdered DEF StateSet
<1>7. "disconnected" \in Statuses
  BY DEF Statuses
<1>8. Hears(s, r, "disconnected")
  BY <1>1, <1>5, <1>6, <1>7, TwiceHears
<1> HIDE DEF r
<1>9. Hears(h, r, "disconnected")
  BY <1>5, <1>8 DEF Hears, StateSet
<1>10. Reported(h, r)
  BY <1>1, <1>7, <1>9, HearsReported
<1> QED BY <1>10 DEF r, s

\* Loses: the client was connected, and dials.
LEMMA LosesReported ==
  ASSUME SetupOK, NEW h, NEW n, Good(h, n), Ordered(h), NEW k \in Sessions, h.session[k].client,
         h.sdk[k].state = "connected",
         NEW token \in {h.sdk[k].token} \cup
                         (IF h.session[k].next <= MaxRequests THEN {NoToken} ELSE {})
  PROVE  Reported(h, Dial([h EXCEPT !.sdk[k].token = token], k))
<1> DEFINE s == [h EXCEPT !.sdk[k].token = token]
           r == Dial(s, k)
           D0 == h.sdk[k]
           S == h.session[k]
<1>1. /\ Shaped(h) /\ Owns(h, k) /\ OrderedAt(h, k) /\ h.tab.backend
      /\ S.lifecycle = 1 /\ ~Parting(h, k)
  BY RunsOrdered
<1>2. /\ Sound(h) /\ S \in SessionType /\ SessionOK(k, S, D0, TRUE)
  BY InUse DEF Good
<1>3. /\ DOMAIN s = Fields /\ s.tab = h.tab /\ s.told = h.told /\ s.outbox = h.outbox
      /\ s.session = h.session /\ s.sdk = [h.sdk EXCEPT ![k].token = token]
  BY <1>1 DEF Shaped, Fields
<1> HIDE DEF s
<1>4. Shaped(s) /\ s.sdk[k].token = token
  BY <1>1, <1>3 DEF Shaped, NoClient
<1>5. OrderedAt(s, k) /\ Owns(s, k) /\ ~Parting(s, k)
  <2>1. s.sdk[k].state = "connected"
    BY <1>1, <1>3 DEF Shaped, NoClient
  <2> QED BY <1>1, <1>3, <2>1 DEF OrderedAt, Owns, Parting
<1>6. setup.provider # "none" /\ token = NoToken => S.next \in Requests
  <2>1. setup.provider # "none" => D0.token # NoToken
    BY <1>2 DEF SessionOK
  <2>2. S.next \in 1..(MaxRequests + 1)
    BY <1>2 DEF SessionType
  <2> QED BY <2>1, <2>2, BridgeAssumption DEF Requests
<1>7. "connecting" \in Statuses
  BY DEF Statuses
<1>8. Hears(s, r, "connecting")
  BY <1>1, <1>3, <1>4, <1>5, <1>6, DialHears
<1> HIDE DEF r
<1>9. Hears(h, r, "connecting")
  BY <1>3, <1>8 DEF Hears
<1>10. Reported(h, r)
  BY <1>1, <1>7, <1>9, HearsReported
<1> QED BY <1>10 DEF r, s

\* AsksAgain.
LEMMA AsksAgainReported ==
  ASSUME SetupOK, NEW h, NEW n, Good(h, n), Ordered(h), NEW k \in Sessions, h.session[k].client,
         h.sdk[k].need = "refused", h.session[k].next <= MaxRequests
  PROVE  Reported(h, RequestToken(FromClient(h, k, Error), k))
<1> DEFINE x == FromClient(h, k, Error)
           r == RequestToken(x, k)
           S == h.session[k]
<1>1. /\ Sound(h) /\ S \in SessionType /\ SessionOK(k, S, h.sdk[k], TRUE) /\ S.lifecycle = 1
  BY InUse DEF Good
<1>2. setup.provider # "none"
  BY <1>1 DEF SessionOK
<1>3. S.next \in Requests
  BY <1>1, BridgeAssumption DEF Requests, SessionType
<1>4. Shaped(h) /\ h.tab.current \in Sessions \cup {None}
  BY <1>1, SoundShaped, CurrentRange
<1>5. Mute(h, x) /\ x.session = h.session
  <2>1. x = Emit(h, k, Error)
    BY <1>1 DEF FromClient
  <2>2. Mute(h, x)
    BY <1>4, <2>1, EmitMute, ErrorPlain
  <2>3. x.session = h.session
    BY <1>1, <1>4, <2>1 DEF Emit, Output, HandOn, Error, Shaped, Fields
  <2> QED BY <2>2, <2>3
<1> HIDE DEF x
<1>6. Shaped(x) /\ x.tab = h.tab
  BY <1>5 DEF Mute
<1>7. Mute(x, r)
  BY <1>2, <1>3, <1>4, <1>5, <1>6, RequestTokenMute
<1> HIDE DEF r
<1>8. Mute(h, r)
  BY <1>4, <1>5, <1>7, MuteTwice
<1> QED BY <1>1, <1>8, MuteReported DEF r, x

\* OldClientAsks.
LEMMA OldClientAsksReported ==
  ASSUME SetupOK, NEW h, NEW n, Good(h, n), Ordered(h), NEW k \in Sessions,
         h.session[k].lifecycle = 2
  PROVE  Reported(h, RequestToken(h, k))
<1>1. Sound(h) /\ Shaped(h) /\ h.tab.current \in Sessions \cup {None}
  BY SoundShaped, CurrentRange DEF Good
<1>2. Mute(h, RequestToken(h, k))
  BY <1>1, RequestTokenMute
<1> QED BY <1>1, <1>2, MuteReported

\* PublishSettles.
LEMMA PublishSettlesReported ==
  ASSUME NEW h, NEW n, Good(h, n), Ordered(h), NEW k \in Sessions
  PROVE  LET s == [h EXCEPT !.sdk[k].flying = @ - 1]
         IN Reported(h, s) /\ Reported(h, FromClient(s, k, Error))
<1> DEFINE s == [h EXCEPT !.sdk[k].flying = @ - 1]
           r == FromClient(s, k, Error)
<1>1. Sound(h) /\ Shaped(h)
  BY SoundShaped DEF Good
<1>2. Mute(h, s)
  BY <1>1, FieldMute
<1> HIDE DEF s
<1>3. Shaped(s)
  BY <1>2 DEF Mute
<1>4. Mute(s, r)
  BY <1>3, FromClientMute, ErrorPlain
<1>5. Mute(h, r)
  BY <1>1, <1>2, <1>4, MuteTwice
<1>6. Reported(h, s) /\ Reported(h, r)
  BY <1>1, <1>2, <1>5, MuteReported
<1> QED BY <1>6 DEF s

\* ServerUnsubscribes: the tab is not told.
LEMMA ServerUnsubscribesReported ==
  ASSUME NEW h, NEW n, Good(h, n), Ordered(h), NEW k \in Sessions, NEW t \in Topics
  PROVE  Reported(h, [h EXCEPT !.sdk[k].on = @ \ {t}, !.session[k].subs = @ \ {t},
                               !.sdk[k].ended = @ \cup {t}])
<1> DEFINE r == [h EXCEPT !.sdk[k].on = @ \ {t}, !.session[k].subs = @ \ {t},
                          !.sdk[k].ended = @ \cup {t}]
<1>1. Sound(h) /\ Shaped(h)
  BY SoundShaped DEF Good
<1>2. /\ DOMAIN r = Fields /\ r.tab = h.tab /\ r.told = h.told /\ r.outbox = h.outbox
      /\ r.session = [h.session EXCEPT ![k].subs = @ \ {t}]
      /\ r.sdk = [h.sdk EXCEPT ![k].on = @ \ {t}, ![k].ended = @ \cup {t}]
  BY <1>1 DEF Shaped, Fields
<1> HIDE DEF r
<1>3. Shaped(r)
  BY <1>1, <1>2 DEF Shaped
<1>4. ASSUME NEW j \in Sessions
      PROVE  /\ r.session[j].up = h.session[j].up /\ r.session[j].client = h.session[j].client
             /\ r.sdk[j].state = h.sdk[j].state
  BY <1>1, <1>2 DEF Shaped, NoSession, NoClient
<1>5. Mute(h, r)
  BY <1>1, <1>2, <1>3, <1>4, MuteSame
<1>6. Reported(h, r)
  BY <1>1, <1>5, MuteReported
<1> QED BY <1>6 DEF r

\* Publication.
LEMMA PublicationReported ==
  ASSUME NEW h, NEW n \in Nat, Good(h, n), Ordered(h), NEW k \in Sessions, h.session[k].client,
         n < MaxEvents, NEW t \in Topics
  PROVE  Reported(h, PublishedFrom(h, n, k, t))
<1> DEFINE m == [type |-> "message", id |-> n + 1]
<1>1. /\ Sound(h) /\ Shaped(h) /\ h.session[k].subs = h.sdk[k].on
      /\ \A z \in h.session[k].subs : h.sdk[k].ears[z] = 1
  BY InUse, SoundShaped DEF Good
<1>2. n + 1 \in Publications
  BY BridgeAssumption DEF Publications
<1>3. m \in Plain /\ m.type = "message"
  BY <1>2 DEF Plain
<1> HIDE DEF m
<1>4. PublishedFrom(h, n, k, t) = FromClient(h, k, m)
  <2>1. CASE t \in h.session[k].subs
    <3>1. (IF t \in h.sdk[k].on THEN h.sdk[k].ears[t] ELSE 0) = 1
      BY <1>1, <2>1
    <3>2. Repeat(h, k, m, 1) = FromClient(h, k, m)
      BY DEF Repeat
    <3> QED BY <2>1, <3>1, <3>2 DEF PublishedFrom, m
  <2>2. CASE t \notin h.session[k].subs
    BY <2>2 DEF PublishedFrom, m
  <2> QED BY <2>1, <2>2
<1>5. Mute(h, FromClient(h, k, m))
  BY <1>1, <1>3, FromClientMute
<1> QED BY <1>1, <1>4, <1>5, MuteReported

\* ProviderSettles.
LEMMA ProviderSettlesReported ==
  ASSUME NEW h, NEW n, Good(h, n), Ordered(h), NEW c, NEW token
  PROVE  /\ Reported(h, Settled(h, c))
         /\ Reported(h, PostToken(Settled(h, c), c.request, token))
<1> DEFINE s == Settled(h, c)
           r == PostToken(s, c.request, token)
<1>1. Sound(h) /\ Shaped(h) /\ h.tab.current \in Sessions \cup {None}
  BY SoundShaped, CurrentRange DEF Good
<1>2. /\ DOMAIN s = Fields /\ s.tab = h.tab /\ s.told = h.told /\ s.outbox = h.outbox
      /\ s.session = h.session /\ s.sdk = h.sdk
  BY <1>1 DEF Settled, Shaped, Fields
<1> HIDE DEF s
<1>3. Shaped(s)
  BY <1>1, <1>2 DEF Shaped
<1>4. Mute(h, s)
  BY <1>1, <1>2, <1>3, MuteSame
<1>5. Mute(s, r)
  BY <1>1, <1>2, <1>3, PostTokenMute
<1>6. Mute(h, r)
  BY <1>1, <1>4, <1>5, MuteTwice
<1> QED BY <1>1, <1>4, <1>6, MuteReported DEF s

\* Receive.
LEMMA ReceiveReported ==
  ASSUME SetupOK, NEW h, NEW n, Good(h, n), Ordered(h), NEW k \in Sessions, h.session[k].up,
         h.inbox[k] # <<>>
  PROVE  Reported(h, Handle([h EXCEPT !.inbox[k] = Tail(@)], k, Head(h.inbox[k])))
<1> DEFINE s == [h EXCEPT !.inbox[k] = Tail(@)]
           m == Head(h.inbox[k])
           r == Handle(s, k, m)
<1>1. /\ Takes(s, n, k, m) /\ m \in Inbound(k) /\ s.tab.current = k /\ s.tab.backend
  BY ReceiveTakes
<1>2. Sound(h) /\ Shaped(h)
  BY SoundShaped DEF Good
<1>3. /\ DOMAIN s = Fields /\ s.tab = h.tab /\ s.told = h.told /\ s.outbox = h.outbox
      /\ s.session = h.session /\ s.sdk = h.sdk
  BY <1>2 DEF Shaped, Fields
<1> HIDE DEF s, m
<1>4. Shaped(s) /\ Sound(s)
  BY <1>1, SoundShaped DEF Takes
<1>5. Mute(h, s)
  BY <1>2, <1>3, <1>4, MuteSame
<1>6. CASE m.type = "init"
  <2>1. /\ OrderedAt(h, k) /\ h.tab.backend
        /\ s.session[k].lifecycle = 0 /\ s.session[k].up
    <3>1. k # None
      BY DEF Sessions, None
    <3> QED BY <1>1, <1>3, <1>6, <3>1 DEF Ordered, Takes
  <2>2. OrderedAt(s, k) /\ Owns(s, k)
    <3>1. OrderedAt(s, k)
      BY <1>3, <2>1 DEF OrderedAt, Parting, Over
    <3> QED BY <1>1, <1>4, <3>1, CurrentOwns
  <2>3. ~s.session[k].client /\ s.session[k].next = 1
    <3>1. SessionOK(k, s.session[k], s.sdk[k], k = s.tab.current)
      BY <1>4 DEF Sound
    <3>2. ~s.session[k].client
      BY <2>1, <3>1 DEF SessionOK
    <3> QED BY <2>1, <3>1, <3>2 DEF SessionOK
  <2>4. r = Initialize(s, k)
    BY <1>6 DEF Handle
  <2> HIDE DEF r
  <2>5. Hears(s, r, "connecting")
    BY <1>4, <2>1, <2>2, <2>3, <2>4, InitializeHears
  <2>6. Hears(h, r, "connecting") /\ "connecting" \in Statuses
    BY <1>3, <2>5 DEF Hears, Statuses
  <2>7. ~Parting(h, k)
    BY <1>3, <2>1, <2>3 DEF OrderedAt, Over
  <2>8. Reported(h, r)
    BY <2>1, <2>6, <2>7, HearsReported
  <2> QED BY <2>8 DEF r, s, m
<1>7. CASE m.type # "init"
  <2>1. m.type \in {"subscribe", "unsubscribe", "publish", "token"}
    BY <1>1, <1>7 DEF Inbound
  <2>2. Mute(s, r)
    BY <1>4, <2>1, HandleMute
  <2> HIDE DEF r
  <2>3. Reported(h, r)
    BY <1>2, <1>5, <2>2, MuteTwice, MuteReported
  <2> QED BY <2>3 DEF r, s, m
<1> QED BY <1>6, <1>7

\* Reaps: the session is gone, and says nothing after that.
LEMMA ReapsReported ==
  ASSUME SetupOK, NEW h, NEW n, Good(h, n), Ordered(h), NEW k \in Sessions, h.session[k].up,
         ~Local
  PROVE  LET s == Emit(h, k, [type |-> "reaped"])
         IN Reported(h, [Gone(s, k) EXCEPT !.outbox[k] = s.outbox[k]])
<1> DEFINE m == [type |-> "reaped"]
           s == Emit(h, k, m)
           g == Gone(s, k)
           r == [g EXCEPT !.outbox[k] = s.outbox[k]]
<1>1. /\ Sound(h) /\ Shaped(h) /\ k \in h.near /\ h.tab.current \in Sessions \cup {None}
  BY SoundShaped, CurrentRange DEF Good, Sound, MailOK
<1>2. m \in Outbound /\ m.type = "reaped"
  BY DEF Outbound
<1> HIDE DEF m
<1>3. Mute(h, s)
  <2>1. s = [h EXCEPT !.outbox[k] = Append(@, m)]
    BY <1>1 DEF Emit
  <2> HIDE DEF s
  <2> QED BY <1>1, <1>2, <2>1, AppendMute
<1> HIDE DEF s
<1>4. Ordered(s) /\ Shaped(s) /\ s.tab = h.tab /\ s.told = h.told
  BY <1>1, <1>3, MuteOrdered DEF Mute
<1>5. k = s.tab.current /\ k # None
  BY <1>1, <1>4, Current DEF Sessions, None
<1>6. /\ DOMAIN g = Fields /\ g.tab = s.tab /\ g.told = s.told
      /\ g.outbox = [s.outbox EXCEPT ![k] = <<>>]
      /\ g.session = [s.session EXCEPT ![k] = NoSession]
  BY <1>4 DEF Gone, Shaped, Fields
<1> HIDE DEF g
<1>7. /\ r.tab = s.tab /\ r.told = s.told /\ r.session = g.session
      /\ r.outbox = [g.outbox EXCEPT ![k] = s.outbox[k]]
  BY <1>6 DEF Fields
<1> HIDE DEF r
<1>8. r.outbox[k] = s.outbox[k] /\ ~r.session[k].up
  BY <1>4, <1>6, <1>7 DEF Shaped, NoSession
<1>9. OrderedAt(s, k)
  BY <1>4, <1>5 DEF Ordered
<1>10. OrderedAt(r, k)
  BY <1>7, <1>8, <1>9 DEF OrderedAt, Over
<1>11. Ordered(r)
  BY <1>5, <1>7, <1>10 DEF Ordered
<1>12. Reported(h, r)
  BY <1>4, <1>7, <1>11 DEF Reported
<1> QED BY <1>12 DEF r, g, s, m

\* What follows the first message is in order, and nothing new follows a last status.
LEMMA TakenOrdered ==
  ASSUME NEW h, NEW n, Good(h, n), NEW k \in Sessions, h.outbox[k] # <<>>, OrderedAt(h, k)
  PROVE  LET s == Taken(h, k)
             m == Head(h.outbox[k])
         IN /\ OrderedAt(s, k) /\ (Over(s, k) <=> Over(h, k))
            /\ News(m) => h.told.status # "disconnected"
            /\ Farewell(m) => Over(h, k) /\ \A i \in 1..Len(s.outbox[k]) : ~News(s.outbox[k][i])
<1> DEFINE s == Taken(h, k)
           q == h.outbox[k]
           m == Head(q)
           o == s.outbox[k]
<1>1. TakenFrom(h, s, k) /\ h.outbox \in [Sessions -> Seq(Outbound)]
  BY TakenSound DEF Good, Sound
<1> HIDE DEF s
<1>2. o = Tail(q) /\ q \in Seq(Outbound) /\ q # <<>> /\ s.told = h.told
      /\ (Over(s, k) <=> Over(h, k))
  BY <1>1 DEF TakenFrom, Over
<1>3. /\ Len(q) \in Nat /\ Len(o) = Len(q) - 1 /\ m = q[1] /\ 1 \in 1..Len(q)
      /\ \A i \in 1..Len(o) : o[i] = q[i + 1]
  BY <1>2, HeadTailProperties, LenProperties, EmptySeq
<1>4. /\ h.told.status # "error"
      /\ \A i \in 1..Len(q) : News(q[i]) =>
           /\ h.told.status # "disconnected"
           /\ \A j \in 1..i : ~Farewell(q[j])
      /\ Parting(h, k) => Over(h, k)
      /\ Parting(h, k) <=> \/ h.told.status = "disconnected"
                           \/ \E i \in 1..Len(q) : Farewell(q[i])
  BY DEF OrderedAt, Parting
<1>5. Parting(s, k) <=> \/ h.told.status = "disconnected"
                        \/ \E i \in 1..Len(o) : Farewell(o[i])
  BY <1>2 DEF Parting
<1> HIDE DEF q, o, m
<1>6. \A i \in 1..Len(o) : i + 1 \in 1..Len(q) /\ 1 \in 1..(i + 1)
                           /\ \A j \in 1..i : j + 1 \in 1..(i + 1) /\ j \in 1..Len(o)
  BY <1>3
<1>7. ASSUME NEW i \in 1..Len(o), News(o[i])
      PROVE  /\ h.told.status # "disconnected" /\ ~Farewell(m)
             /\ \A j \in 1..i : ~Farewell(o[j])
  <2>1. News(q[i + 1]) /\ i + 1 \in 1..Len(q)
    BY <1>3, <1>6, <1>7
  <2>2. h.told.status # "disconnected" /\ \A j \in 1..(i + 1) : ~Farewell(q[j])
    BY <1>4, <2>1
  <2> QED BY <1>3, <1>6, <2>2
<1>8. Parting(s, k) => Over(s, k)
  BY <1>2, <1>3, <1>4, <1>5, <1>6
<1>9. OrderedAt(s, k)
  BY <1>2, <1>4, <1>7, <1>8 DEF OrderedAt, o
<1>10. News(m) => h.told.status # "disconnected"
  BY <1>3, <1>4
<1>11. Farewell(m) => Over(h, k) /\ \A i \in 1..Len(o) : ~News(o[i])
  BY <1>3, <1>4, <1>7
<1> QED BY <1>2, <1>9, <1>10, <1>11 DEF s, q, o, m

\* Deliver, but for the end of the worker.
LEMMA DeliverReported ==
  ASSUME SetupOK, NEW h, NEW n, Good(h, n), Ordered(h), NEW k \in Sessions, k \in h.near,
         h.outbox[k] # <<>>, Head(h.outbox[k]).type # "reaped"
  PROVE  Reported(h, Output(Taken(h, k), k, Head(h.outbox[k])))
<1> DEFINE s == Taken(h, k)
           m == Head(h.outbox[k])
           r == Output(s, k, m)
<1>1. /\ Sound(s) /\ TakenFrom(h, s, k) /\ m \in Outbound
  BY TakenSound
<1>2. k = h.tab.current /\ h.tab.backend /\ k # None /\ h.tab.handlers = k
  BY Current DEF Sessions, None
<1>3. OrderedAt(h, k)
  BY <1>2 DEF Ordered
<1>4. /\ OrderedAt(s, k) /\ (Over(s, k) <=> Over(h, k))
      /\ News(m) => h.told.status # "disconnected"
      /\ Farewell(m) => Over(h, k) /\ \A i \in 1..Len(s.outbox[k]) : ~News(s.outbox[k][i])
  BY <1>3, TakenOrdered
<1> HIDE DEF s, m
<1>5. s.tab = h.tab /\ s.told = h.told /\ Shaped(s) /\ Ordered(s) /\ Owns(s, k)
  BY <1>1, <1>2, <1>4, SoundShaped, CurrentOwns DEF TakenFrom, Ordered
<1>6. m.type \in {"error", "status", "message", "request"}
  BY <1>1 DEF Outbound, Plain, m
<1>7. CASE m.type \in {"error", "message"}
  <2>1. /\ DOMAIN r = Fields /\ r.tab = s.tab /\ r.told = s.told /\ r.outbox = s.outbox
        /\ r.session = s.session /\ r.sdk = s.sdk
    BY <1>5, <1>7 DEF Output, HandOn, Shaped, Fields
  <2> HIDE DEF r
  <2>2. Shaped(r)
    BY <1>5, <2>1 DEF Shaped
  <2>3. Mute(s, r)
    BY <1>5, <2>1, <2>2, MuteSame
  <2>4. Reported(s, r)
    BY <1>1, <1>5, <2>3, MuteReported
  <2> QED BY <1>5, <2>4 DEF Reported, r, s, m
<1>8. CASE m.type = "request"
  <2>1. r = ResolveTokenRequest(s, k, m.request) /\ setup.provider # "none"
    BY <1>1, <1>8 DEF Output, Outbound, Plain
  <2>2. s.tab.current \in Sessions \cup {None}
    BY <1>2, <1>5
  <2> HIDE DEF r
  <2>3. Mute(s, r)
    BY <1>5, <2>1, <2>2, ResolveTokenRequestMute
  <2>4. Reported(s, r)
    BY <1>1, <1>5, <2>3, MuteReported
  <2> QED BY <1>5, <2>4 DEF Reported, r, s, m
<1>9. CASE m.type = "status"
  <2> DEFINE v == [by |-> k, status |-> m.status]
  <2>1. m.status \in Statuses /\ m.status # "error"
    BY <1>1, <1>9 DEF Outbound, Plain, Statuses
  <2>2. r = Report(s, k, m.status)
    BY <1>9 DEF Output
  <2>3. r = [[s EXCEPT !.heard = [of |-> k, to |-> k]] EXCEPT !.told = v]
    BY <1>2, <1>5, <2>2 DEF Report, HandOn
  <2>4. v = [h.told EXCEPT !.status = m.status] /\ v.status = m.status
    BY <1>5 DEF Owns, ToldType
  <2> HIDE DEF v, r
  <2>5. /\ r.tab = s.tab /\ r.told = v /\ r.outbox = s.outbox /\ r.session = s.session
        /\ r.sdk = s.sdk
    BY <1>5, <2>3 DEF Shaped, Fields
  <2>6. News(m) <=> m.status # "disconnected"
    BY <1>9 DEF News
  <2>7. Farewell(m) <=> m.status = "disconnected"
    BY <1>9 DEF Farewell
  <2>8. Over(r, k) <=> Over(h, k)
    BY <1>4, <2>5 DEF Over
  <2>9. Parting(r, k) => Over(r, k)
    <3>1. Parting(r, k) => m.status = "disconnected" \/ Parting(s, k)
      BY <2>4, <2>5 DEF Parting
    <3>2. Parting(s, k) => Over(s, k)
      BY <1>4 DEF OrderedAt
    <3> QED BY <1>4, <2>7, <2>8, <3>1, <3>2
  <2>10. \A i \in 1..Len(r.outbox[k]) : News(r.outbox[k][i]) =>
           /\ r.told.status # "disconnected" /\ \A j \in 1..i : ~Farewell(r.outbox[k][j])
    BY <1>4, <2>4, <2>5, <2>7 DEF OrderedAt
  <2>11. OrderedAt(r, k)
    BY <2>1, <2>4, <2>5, <2>9, <2>10 DEF OrderedAt
  <2>12. Ordered(r) /\ r.tab = h.tab
    BY <1>2, <1>5, <2>5, <2>11 DEF Ordered
  <2>13. h.told.status # "error"
    BY <1>3 DEF OrderedAt
  <2>14. Reported(h, r)
    BY <1>2, <1>4, <2>1, <2>4, <2>5, <2>6, <2>12, <2>13 DEF Reported
  <2> QED BY <2>14 DEF r, s, m
<1> QED BY <1>6, <1>7, <1>8, <1>9

\* The last message of a worker.
LEMMA DeliverFailed ==
  ASSUME SetupOK, NEW h, NEW n, Good(h, n), NEW k \in Sessions, k \in h.near,
         h.outbox[k] # <<>>, Head(h.outbox[k]).type = "reaped"
  PROVE  Failed(h, Output(Taken(h, k), k, Head(h.outbox[k])))
<1> DEFINE s == Taken(h, k)
           m == Head(h.outbox[k])
           r == Output(s, k, m)
<1>1. Good(s, n) /\ TakenFrom(h, s, k)
  BY TakenSound DEF Good
<1>2. ~Local
  BY DEF Good, Sound, MailOK
<1> HIDE DEF s, m
<1>3. s.tab = h.tab /\ s.told = h.told /\ k \in s.near
  BY <1>1 DEF TakenFrom
<1>4. m.type = "reaped"
  BY DEF m
<1>5. r = WorkerFailed(s)
  BY <1>4 DEF Output
<1> HIDE DEF r
<1>6. Failed(s, r)
  BY <1>1, <1>2, <1>3, <1>5, WorkerFailedGood
<1>7. Failed(h, r)
  BY <1>3, <1>6 DEF Failed
<1> QED BY <1>7 DEF r, s, m

\* A new link, that may already be dialing.
Starting(h, r) ==
  /\ ~h.tab.backend /\ r.tab.backend /\ r.tab.asked = {} /\ r.tab.dial = "ok" /\ Ordered(r)
  /\ \E status \in {"none", "connecting"} : r.told = [by |-> h.told.by + 1, status |-> status]

\* A link that could not be made.
Failing(h, r) ==
  /\ ~h.tab.backend /\ ~r.tab.backend /\ r.tab.asked = {} /\ r.tab.dial = "failed" /\ Ordered(r)
  /\ r.told = [by |-> h.told.by + 1, status |-> "none"]

\* With nothing said yet there is no order to keep.
LEMMA SilentOrdered ==
  ASSUME NEW r, r.told.status = "none",
         r.tab.current # None => r.outbox[r.tab.current] = <<>>
  PROVE  Ordered(r)
<1>1. 1..Len(<<>>) = {}
  OBVIOUS
<1> QED BY <1>1 DEF Ordered, OrderedAt, Parting

\* start().
LEMMA StartStarting ==
  ASSUME SetupOK, NEW h, NEW n, Good(h, n), ~h.tab.backend, NEW k \in Sessions,
         NextUp(h, k)
  PROVE  Starting(h, Opened(Post(MadeFrom(h, k), [type |-> "init"])))
<1> DEFINE m == [type |-> "init"]
           s == MadeFrom(h, k)
           p == Post(s, m)
           r == Opened(p)
<1>1. /\ Sound(h) /\ DOMAIN h = Fields /\ h.tab \in TabType /\ h.told.by = h.tab.made
  BY DEF Good, Sound, TabOK
<1>2. h.outbox[k] = <<>> /\ h.tab.asked = {}
  BY BeforeStart
<1>3. /\ Sound(s) /\ s.session[k].up /\ s.tab.current = k /\ s.tab.asked = {}
      /\ s.session[k].lifecycle = 0
  <2>1. Newborn(s, n, k, m)
    BY MadeSound
  <2> HIDE DEF s, m
  <2> QED BY <2>1 DEF Newborn, Takes
<1>4. s.told = [by |-> k, status |-> "none"] /\ s.outbox = h.outbox /\ s.tab.dial = "ok"
  BY <1>1 DEF MadeFrom, PreparedFrom, Fields, TabType
<1> HIDE DEF s
<1>5. Ordered(s) /\ k # None
  BY <1>2, <1>3, <1>4, SilentOrdered DEF Sessions, None
<1>6. Shaped(s) /\ Owns(s, k) /\ OrderedAt(s, k)
  BY <1>3, <1>5, SoundShaped, CurrentOwns DEF Ordered
<1>7. Hears(s, p, "connecting") /\ DOMAIN p = Fields
  <2>1. CASE Local
    <3>1. p = Initialize(s, k)
      BY <1>3, <2>1 DEF Post, Handle
    <3>2. ~s.session[k].client /\ s.session[k].next = 1
      <4>1. SessionOK(k, s.session[k], s.sdk[k], k = s.tab.current)
        BY <1>3 DEF Sound
      <4>2. ~s.session[k].client
        BY <1>3, <4>1 DEF SessionOK
      <4> QED BY <1>3, <4>1, <4>2 DEF SessionOK
    <3>3. DOMAIN p = Fields
      <4>1. Newborn(MadeFrom(h, k), n, k, m) /\ m \in Inbound(k)
        BY MadeSound DEF Inbound
      <4>2. Takes(s, n, k, m)
        BY <4>1 DEF Newborn, s
      <4>3. Handled(s, Handle(s, k, m), n, k)
        BY <4>1, <4>2, HandleSound
      <4> QED BY <1>3, <2>1, <4>3 DEF Post, Handled, Sound
    <3> HIDE DEF p
    <3> QED BY <1>3, <1>6, <3>1, <3>2, <3>3, InitializeHears
  <2>2. CASE ~Local
    <3>1. p = Send(s, k, m)
      BY <1>3, <2>2 DEF Post
    <3> HIDE DEF p, m
    <3>2. Mute(s, p)
      BY <1>6, <3>1, SendMute
    <3>3. Ordered(p)
      BY <1>3, <1>5, <1>6, <3>2, MuteOrdered
    <3> QED BY <3>2, <3>3 DEF Hears, Mute, Shaped
  <2> QED BY <2>1, <2>2
<1> HIDE DEF p
<1>8. /\ r.tab = [p.tab EXCEPT !.backend = TRUE] /\ r.told = p.told /\ r.outbox = p.outbox
      /\ r.session = p.session /\ r.sdk = p.sdk
  BY <1>7 DEF Opened, Fields
<1> HIDE DEF r
<1>9. /\ r.tab.backend /\ r.tab.asked = {} /\ r.tab.dial = "ok"
      /\ r.tab.current = p.tab.current
  <2>1. p.tab = s.tab /\ s.tab \in TabType
    BY <1>3, <1>7 DEF Hears, Sound, TabOK
  <2> QED BY <1>3, <1>4, <1>8, <2>1 DEF TabType
<1>10. Ordered(r)
  <2>1. Ordered(p)
    BY <1>7 DEF Hears
  <2> QED BY <1>8, <1>9, <2>1 DEF Ordered, OrderedAt, Parting, Over
<1>11. \E status \in {"none", "connecting"} : r.told = [by |-> h.told.by + 1, status |-> status]
  <2>1. k = h.told.by + 1
    BY <1>1 DEF NextUp
  <2>2. p.told = s.told \/ p.told = [s.told EXCEPT !.status = "connecting"]
    BY <1>7 DEF Hears
  <2>3. [s.told EXCEPT !.status = "connecting"] = [by |-> k, status |-> "connecting"]
    BY <1>4
  <2> QED BY <1>4, <1>8, <2>1, <2>2, <2>3
<1>12. Starting(h, r)
  BY <1>9, <1>10, <1>11 DEF Starting
<1> QED BY <1>12 DEF r, p, s, m

\* start() throws.
LEMMA ThrowsFailing ==
  ASSUME SetupOK, NEW h, NEW n, Good(h, n), ~h.tab.backend, NEW k \in Sessions,
         NextUp(h, k)
  PROVE  LET z == [PreparedFrom(h, k) EXCEPT !.tab.dial = "failed"]
         IN /\ ~Local => Failing(h, z)
            /\ Local => Failing(h, [z EXCEPT !.tab.current = k, !.session[k].up = TRUE,
                                             !.session[k].lifecycle = 1])
<1> DEFINE z == [PreparedFrom(h, k) EXCEPT !.tab.dial = "failed"]
           r == [z EXCEPT !.tab.current = k, !.session[k].up = TRUE, !.session[k].lifecycle = 1]
<1>1. /\ DOMAIN h = Fields /\ h.tab \in TabType /\ k = h.told.by + 1
  BY DEF Good, Sound, TabOK, NextUp
<1>2. h.outbox[k] = <<>> /\ h.tab.asked = {}
  BY BeforeStart
<1>3. /\ DOMAIN z = Fields /\ z.told = [by |-> k, status |-> "none"] /\ z.outbox = h.outbox
      /\ z.tab = [[h.tab EXCEPT !.handlers = k, !.made = k, !.dial = "ok",
                                !.generation = IF Local THEN @ ELSE @ + 1]
                    EXCEPT !.dial = "failed"]
  BY <1>1 DEF PreparedFrom, Fields
<1> HIDE DEF z
<1>4. /\ z.tab.dial = "failed" /\ z.tab.asked = {} /\ ~z.tab.backend
      /\ z.tab.current = h.tab.current
      /\ DOMAIN z.tab = DOMAIN h.tab
  BY <1>1, <1>2, <1>3 DEF TabType
<1>5. ~Local => Failing(h, z)
  <2>1. ~Local => h.tab.current = None
    BY DEF Good, Backed
  <2>2. ~Local => Ordered(z)
    BY <1>3, <1>4, <2>1 DEF Ordered
  <2> QED BY <1>1, <1>3, <1>4, <2>2 DEF Failing
<1>6. /\ r.told = [by |-> k, status |-> "none"] /\ r.outbox = h.outbox
      /\ r.tab = [z.tab EXCEPT !.current = k]
  BY <1>3 DEF Fields
<1> HIDE DEF r
<1>7. /\ r.tab.dial = "failed" /\ r.tab.asked = {} /\ ~r.tab.backend /\ r.tab.current = k
  BY <1>1, <1>4, <1>6 DEF TabType
<1>8. Ordered(r)
  <2>1. r.told.status = "none" /\ r.outbox[r.tab.current] = <<>>
    BY <1>2, <1>6, <1>7
  <2> QED BY <2>1, SilentOrdered
<1>9. Failing(h, r)
  BY <1>1, <1>6, <1>7, <1>8 DEF Failing
<1> QED BY <1>5, <1>9 DEF r, z

\* Other topics are asked for.
Reasked(h, r, A) ==
  h.tab.backend /\ r.tab = [h.tab EXCEPT !.asked = A] /\ r.told = h.told /\ Ordered(r)

\* Subscribe, Unsubscribe and Publish.
LEMMA PostReasked ==
  ASSUME NEW h, NEW n, Good(h, n), Ordered(h), h.tab.backend, NEW A \in SUBSET Topics, NEW m,
         m.type \in {"publish", "subscribe", "unsubscribe"}
  PROVE  Reasked(h, Post(Asking(h, A), m), A)
<1> DEFINE s == Asking(h, A)
           k == s.tab.current
           r == Post(s, m)
<1>1. /\ Sound(h) /\ Shaped(h) /\ h.tab \in TabType /\ h.tab.current \in Sessions
  BY SoundShaped DEF Good, Backed, Sound, TabOK
<1>2. /\ DOMAIN s = Fields /\ s.told = h.told /\ s.outbox = h.outbox
      /\ s.session = h.session /\ s.sdk = h.sdk /\ s.tab = [h.tab EXCEPT !.asked = A]
  BY <1>1 DEF Asking, Shaped, Fields
<1> HIDE DEF s
<1>3. s.tab.current = h.tab.current
  BY <1>1, <1>2 DEF TabType
<1>4. Shaped(s) /\ Ordered(s) /\ k \in Sessions
  <2>1. Shaped(s)
    BY <1>1, <1>2 DEF Shaped
  <2>2. Ordered(s)
    BY <1>2, <1>3 DEF Ordered, OrderedAt, Parting, Over
  <2> QED BY <1>1, <1>3, <2>1, <2>2
<1> HIDE DEF k
<1>5. Mute(s, r)
  <2>1. CASE Local
    <3>1. r = Handle(s, k, m)
      BY <2>1 DEF Post, k
    <3> HIDE DEF r
    <3> QED BY <1>4, <3>1, HandleMute
  <2>2. CASE ~Local
    <3>1. r = Send(s, k, m)
      BY <2>2 DEF Post, k
    <3> HIDE DEF r
    <3> QED BY <1>4, <3>1, SendMute
  <2> QED BY <2>1, <2>2
<1> HIDE DEF r
<1>6. Ordered(r)
  BY <1>1, <1>3, <1>4, <1>5, MuteOrdered
<1> QED BY <1>2, <1>5, <1>6 DEF Reasked, Mute, r, s

----------------------------------------------------------------------------
(* The steps of the link.                                                  *)

\* What a step makes of the transport.
Outcome(h, r) ==
  \/ Reported(h, r) \/ Starting(h, r) \/ Failing(h, r) \/ Failed(h, r)
  \/ h.tab.backend /\ Quits(h, r)
  \/ \E t \in Topics : \/ Reasked(h, r, h.tab.asked \cup {t})
                       \/ Reasked(h, r, h.tab.asked \ {t})

\* The record of a worker.
Wired(live, phase, dial, subs) ==
  [kind |-> "worker", live |-> live, phase |-> phase, dial |-> dial, subs |-> subs]

\* Its fields, one by one.
LEMMA WiredFields ==
  ASSUME NEW live, NEW phase, NEW dial, NEW subs
  PROVE  LET l == Wired(live, phase, dial, subs)
         IN /\ l.kind = "worker" /\ l.live = live /\ l.phase = phase /\ l.dial = dial
            /\ l.subs = subs
BY DEF Wired

\* Setting its liveness.
LEMMA WiredLive ==
  ASSUME NEW live, NEW phase, NEW dial, NEW subs, NEW l, l = Wired(live, phase, dial, subs),
         NEW x
  PROVE  [l EXCEPT !.live = x] = Wired(x, phase, dial, subs)
BY DEF Wired

\* Setting its phase.
LEMMA WiredPhase ==
  ASSUME NEW live, NEW phase, NEW dial, NEW subs, NEW l, l = Wired(live, phase, dial, subs),
         NEW x
  PROVE  [l EXCEPT !.phase = x] = Wired(live, x, dial, subs)
BY DEF Wired

\* Setting the answer of its start().
LEMMA WiredDial ==
  ASSUME NEW live, NEW phase, NEW dial, NEW subs, NEW l, l = Wired(live, phase, dial, subs),
         NEW x
  PROVE  [l EXCEPT !.dial = x] = Wired(live, phase, x, subs)
BY DEF Wired

\* Setting its topics.
LEMMA WiredSubs ==
  ASSUME NEW live, NEW phase, NEW dial, NEW subs, NEW l, l = Wired(live, phase, dial, subs),
         NEW x
  PROVE  [l EXCEPT !.subs = x] = Wired(live, phase, dial, x)
BY DEF Wired

\* Setting several fields is setting one after the other.
LEMMA SetBoth ==
  ASSUME NEW l, NEW x, NEW y, NEW z, NEW w
  PROVE  /\ [l EXCEPT !.phase = x, !.dial = y] = [[l EXCEPT !.phase = x] EXCEPT !.dial = y]
         /\ [l EXCEPT !.live = x, !.phase = y] = [[l EXCEPT !.live = x] EXCEPT !.phase = y]
         /\ [l EXCEPT !.live = x, !.phase = y, !.dial = z]
              = [[[l EXCEPT !.live = x] EXCEPT !.phase = y] EXCEPT !.dial = z]
         /\ [l EXCEPT !.live = x, !.phase = y, !.dial = z, !.subs = w]
              = [[[[l EXCEPT !.live = x] EXCEPT !.phase = y] EXCEPT !.dial = z]
                   EXCEPT !.subs = w]
OBVIOUS

\* The record of a transport that never started.
LEMMA UnpluggedIs == Plug!Unplugged("worker") = Wired(FALSE, "closed", "ok", {})
BY DEF Plug!Unplugged, Wired

\* What the operations of the link make of the record of one with a worker.
Operated(l, yes, no, phase, dial, subs) ==
  (yes = TRUE) /\ (no = FALSE) /\ dial \in {"ok", "failed"} =>
      /\ l.kind = "worker" /\ l.live /\ l.phase = phase
      /\ Plug!Opened(l) = Wired(yes, "open", dial, subs)
      /\ Plug!Closed(l) = Wired(yes, "closed", dial, subs)
      /\ Plug!Broken(l) = Wired(no, "closed", dial, {})
      /\ Plug!Redialed(l) = Wired(yes, "dialing", dial, subs)
      /\ Plug!Stopped(l) = Wired(no, "closed", dial, {})

\* And what asking for other topics makes of it.
Retopiced(l, topics, yes, phase, dial, subs) ==
  /\ yes = TRUE => Plug!Subscribed(l, topics) = Wired(yes, phase, dial, subs \cup topics)
  /\ Plug!Unsubscribed(l, topics) = Wired(yes, phase, dial, subs \ topics)

\* They do.
LEMMA LiveOps ==
  ASSUME NEW yes, NEW no, NEW phase, NEW dial, NEW subs, NEW l,
         l = Wired(yes, phase, dial, subs)
  PROVE  Operated(l, yes, no, phase, dial, subs)
<1>1. l.kind = "worker" /\ l.live = yes /\ l.phase = phase /\ l.subs = subs /\ l.dial = dial
  BY WiredFields
<1>2. [[l EXCEPT !.phase = "open"] EXCEPT !.dial = dial] = Wired(yes, "open", dial, subs)
  <2>1. PICK m : m = [l EXCEPT !.phase = "open"]
    OBVIOUS
  <2>2. m = Wired(yes, "open", dial, subs)
    BY <2>1, WiredPhase
  <2>3. [m EXCEPT !.dial = dial] = Wired(yes, "open", dial, subs)
    BY <2>2, WiredDial
  <2> QED BY <2>1, <2>3
<1>3. [[[l EXCEPT !.live = yes] EXCEPT !.phase = "closed"] EXCEPT !.dial = dial]
        = Wired(yes, "closed", dial, subs)
  <2>1. PICK m : m = [l EXCEPT !.live = yes]
    OBVIOUS
  <2>2. m = Wired(yes, phase, dial, subs)
    BY <2>1, WiredLive
  <2>3. PICK n : n = [m EXCEPT !.phase = "closed"]
    OBVIOUS
  <2>4. n = Wired(yes, "closed", dial, subs)
    BY <2>2, <2>3, WiredPhase
  <2>5. [n EXCEPT !.dial = dial] = Wired(yes, "closed", dial, subs)
    BY <2>4, WiredDial
  <2> QED BY <2>1, <2>3, <2>5
<1>4. [[[[l EXCEPT !.live = no] EXCEPT !.phase = "closed"] EXCEPT !.dial = dial]
         EXCEPT !.subs = {}] = Wired(no, "closed", dial, {})
  <2>1. PICK m : m = [l EXCEPT !.live = no]
    OBVIOUS
  <2>2. m = Wired(no, phase, dial, subs)
    BY <2>1, WiredLive
  <2>3. PICK n : n = [m EXCEPT !.phase = "closed"]
    OBVIOUS
  <2>4. n = Wired(no, "closed", dial, subs)
    BY <2>2, <2>3, WiredPhase
  <2>5. PICK o : o = [n EXCEPT !.dial = dial]
    OBVIOUS
  <2>6. o = Wired(no, "closed", dial, subs)
    BY <2>4, <2>5, WiredDial
  <2>7. [o EXCEPT !.subs = {}] = Wired(no, "closed", dial, {})
    BY <2>6, WiredSubs
  <2> QED BY <2>1, <2>3, <2>5, <2>7
<1>5. [l EXCEPT !.phase = "dialing"] = Wired(yes, "dialing", dial, subs)
  BY WiredPhase
<1>6. ASSUME NEW u, u = Wired(no, "closed", "ok", {})
      PROVE  [u EXCEPT !.dial = dial] = Wired(no, "closed", dial, {})
  BY <1>6, WiredDial
<1>7. SUFFICES ASSUME yes = TRUE, no = FALSE, dial \in {"ok", "failed"}
               PROVE  /\ l.kind = "worker" /\ l.live /\ l.phase = phase
                      /\ Plug!Opened(l) = Wired(yes, "open", dial, subs)
                      /\ Plug!Closed(l) = Wired(yes, "closed", dial, subs)
                      /\ Plug!Broken(l) = Wired(no, "closed", dial, {})
                      /\ Plug!Redialed(l) = Wired(yes, "dialing", dial, subs)
                      /\ Plug!Stopped(l) = Wired(no, "closed", dial, {})
  BY DEF Operated
<1>8. Plug!Answer(l, "ok") = dial /\ Plug!Answer(l, "failed") = dial
  BY <1>1, <1>7 DEF Plug!Answer
<1>9. (l.live /\ l.kind = "worker") = yes
  BY <1>1, <1>7
<1>10. Plug!Opened(l) = [l EXCEPT !.phase = "open", !.dial = dial]
  BY <1>8 DEF Plug!Opened
<1>11. Plug!Closed(l) = [l EXCEPT !.live = yes, !.phase = "closed", !.dial = dial]
  BY <1>8, <1>9 DEF Plug!Closed
<1>12. Plug!Broken(l) = [l EXCEPT !.live = no, !.phase = "closed", !.dial = dial, !.subs = {}]
  BY <1>1, <1>7, <1>8 DEF Plug!Broken
<1>13. Plug!Redialed(l) = [l EXCEPT !.phase = "dialing"]
  BY DEF Plug!Redialed
<1>14. Plug!Stopped(l) = [Plug!Unplugged("worker") EXCEPT !.dial = dial]
  BY <1>1, <1>7 DEF Plug!Stopped
<1>15. Plug!Unplugged("worker") = Wired(no, "closed", "ok", {})
  BY <1>7, UnpluggedIs
<1>16. Plug!Opened(l) = Wired(yes, "open", dial, subs)
  BY <1>2, <1>10, SetBoth
<1>17. Plug!Closed(l) = Wired(yes, "closed", dial, subs)
  BY <1>3, <1>11, SetBoth
<1>18. Plug!Broken(l) = Wired(no, "closed", dial, {})
  BY <1>4, <1>12, SetBoth
<1>19. Plug!Redialed(l) = Wired(yes, "dialing", dial, subs)
  BY <1>5, <1>13
<1>20. Plug!Stopped(l) = Wired(no, "closed", dial, {})
  BY <1>6, <1>14, <1>15
<1> QED BY <1>1, <1>7, <1>16, <1>17, <1>18, <1>19, <1>20

\* Nor does asking for other topics change more than these.
LEMMA TopicOps ==
  ASSUME NEW yes, NEW phase, NEW dial, NEW subs, NEW topics, NEW l,
         l = Wired(yes, phase, dial, subs)
  PROVE  Retopiced(l, topics, yes, phase, dial, subs)
<1>1. l.live = yes /\ l.subs = subs
  BY WiredFields
<1>2. yes = TRUE => Plug!Subscribed(l, topics) = [l EXCEPT !.subs = subs \cup topics]
  BY <1>1 DEF Plug!Subscribed
<1>3. Plug!Unsubscribed(l, topics) = [l EXCEPT !.subs = subs \ topics]
  BY <1>1 DEF Plug!Unsubscribed
<1>4. ASSUME NEW x
      PROVE  [l EXCEPT !.subs = x] = Wired(yes, phase, dial, x)
  BY WiredSubs
<1> QED BY <1>2, <1>3, <1>4 DEF Retopiced

\* A start() without a worker makes one, or fails to.
LEMMA DeadOps ==
  ASSUME NEW yes, NEW no, NEW l
  PROVE  (yes = TRUE) /\ (no = FALSE) /\ l.kind = "worker" /\ ~l.live =>
           Plug!Started(l) = {Wired(yes, "dialing", "ok", {}), Wired(no, "closed", "failed", {})}
<1>1. ASSUME NEW u, u = Wired(no, "closed", "ok", {})
      PROVE  /\ [[u EXCEPT !.live = yes] EXCEPT !.phase = "dialing"]
                  = Wired(yes, "dialing", "ok", {})
             /\ [u EXCEPT !.dial = "failed"] = Wired(no, "closed", "failed", {})
  <2>1. PICK m : m = [u EXCEPT !.live = yes]
    OBVIOUS
  <2>2. m = Wired(yes, "closed", "ok", {})
    BY <1>1, <2>1, WiredLive
  <2>3. [m EXCEPT !.phase = "dialing"] = Wired(yes, "dialing", "ok", {})
    BY <2>2, WiredPhase
  <2>4. [u EXCEPT !.dial = "failed"] = Wired(no, "closed", "failed", {})
    BY <1>1, WiredDial
  <2> QED BY <2>1, <2>3, <2>4
<1>2. SUFFICES ASSUME yes = TRUE, no = FALSE, l.kind = "worker", ~l.live
               PROVE  Plug!Started(l) = {Wired(yes, "dialing", "ok", {}),
                                         Wired(no, "closed", "failed", {})}
  OBVIOUS
<1>3. PICK u : u = Plug!Unplugged("worker")
  OBVIOUS
<1>4. u = Wired(no, "closed", "ok", {})
  BY <1>2, <1>3, UnpluggedIs
<1>5. Plug!Started(l) = {[u EXCEPT !.live = yes, !.phase = "dialing"], [u EXCEPT !.dial = "failed"]}
  BY <1>2, <1>3 DEF Plug!Started
<1>6. [u EXCEPT !.live = yes, !.phase = "dialing"]
        = [[u EXCEPT !.live = yes] EXCEPT !.phase = "dialing"]
  BY SetBoth
<1> QED BY <1>1, <1>4, <1>5, <1>6

\* The link is such a record, now and after the step.
LEMMA LinkedIs ==
  ASSUME Inv, Inv'
  PROVE  /\ tab.backend => Linked = Wired(TRUE, Phase, tab.dial, tab.asked)
         /\ tab'.backend => Linked' = Wired(TRUE, Phase', tab'.dial, tab'.asked)
         /\ ~tab'.backend => Linked' = Wired(FALSE, Phase', tab'.dial, tab'.asked)
         /\ ~tab.backend => Linked.kind = "worker" /\ ~Linked.live
         /\ tab \in TabType /\ tab' \in TabType /\ told \in ToldType
         /\ told.by = tab.made
<1>1. tab \in TabType /\ told \in ToldType /\ told.by = tab.made
  BY HereIs DEF Inv, Good, Sound, TabOK
<1>2. (tab \in TabType)'
  BY DEF Inv, Good, Sound, TabOK, Here
<1>3. tab.backend \in BOOLEAN /\ tab'.backend \in BOOLEAN
  BY <1>1, <1>2 DEF TabType
<1> QED BY <1>1, <1>2, <1>3 DEF Linked, Wired

\* A link with a worker, and what its operations make of it.
LEMMA LiveLinked ==
  ASSUME Inv, Inv', tab.backend
  PROVE  /\ Linked.kind = "worker" /\ Linked.live /\ Linked.phase = Phase
         /\ Plug!Opened(Linked) = Wired(TRUE, "open", tab.dial, tab.asked)
         /\ Plug!Closed(Linked) = Wired(TRUE, "closed", tab.dial, tab.asked)
         /\ Plug!Broken(Linked) = Wired(FALSE, "closed", tab.dial, {})
         /\ Plug!Redialed(Linked) = Wired(TRUE, "dialing", tab.dial, tab.asked)
         /\ Plug!Stopped(Linked) = Wired(FALSE, "closed", tab.dial, {})
         /\ \A t : /\ Plug!Subscribed(Linked, {t})
                        = Wired(TRUE, Phase, tab.dial, tab.asked \cup {t})
                   /\ Plug!Unsubscribed(Linked, {t})
                        = Wired(TRUE, Phase, tab.dial, tab.asked \ {t})
<1>1. Linked = Wired(TRUE, Phase, tab.dial, tab.asked) /\ tab \in TabType
  BY LinkedIs
<1>2. PICK l, phase, dial, subs :
        l = Linked /\ phase = Phase /\ dial = tab.dial /\ subs = tab.asked
  OBVIOUS
<1>3. PICK yes, no : (yes = TRUE) /\ (no = FALSE)
  OBVIOUS
<1>4. l = Wired(yes, phase, dial, subs)
  BY <1>1, <1>2, <1>3
<1>5. dial \in {"ok", "failed"}
  BY <1>1, <1>2 DEF TabType
<1>6. Operated(l, yes, no, phase, dial, subs)
  BY <1>4, LiveOps
<1>7. /\ l.kind = "worker" /\ l.live /\ l.phase = phase
      /\ Plug!Opened(l) = Wired(yes, "open", dial, subs)
      /\ Plug!Closed(l) = Wired(yes, "closed", dial, subs)
      /\ Plug!Broken(l) = Wired(no, "closed", dial, {})
      /\ Plug!Redialed(l) = Wired(yes, "dialing", dial, subs)
      /\ Plug!Stopped(l) = Wired(no, "closed", dial, {})
  BY <1>3, <1>5, <1>6 DEF Operated
<1>8. ASSUME NEW t
      PROVE  /\ Plug!Subscribed(l, {t}) = Wired(yes, phase, dial, subs \cup {t})
             /\ Plug!Unsubscribed(l, {t}) = Wired(yes, phase, dial, subs \ {t})
  <2>1. PICK topics : topics = {t}
    OBVIOUS
  <2>2. Retopiced(l, topics, yes, phase, dial, subs)
    BY <1>4, TopicOps
  <2> QED BY <1>3, <2>1, <2>2 DEF Retopiced
<1> QED BY <1>2, <1>3, <1>7, <1>8

\* A status that is reported is a step of the link.
LEMMA ReportedLink ==
  ASSUME Inv, Inv', NEW r, Become(r), Reported(Here, r)
  PROVE  [Plug!Next]_(Plug!linkVars)
<1>1. tab' = tab /\ told' = r.told
  BY HereIs DEF Become, Reported
<1>2. CASE told' = told
  BY <1>1, <1>2 DEF Linked, Phase, Plug!linkVars
<1>3. CASE told' # told
  <2>1. PICK status \in Statuses :
          /\ told' = [told EXCEPT !.status = status] /\ tab.backend /\ told.status # "error"
          /\ status # "disconnected" => told.status # "disconnected"
    BY <1>1, <1>3, HereIs DEF Reported
  <2>2. /\ Linked = Wired(TRUE, Phase, tab.dial, tab.asked)
        /\ Linked' = Wired(TRUE, Phase', tab.dial, tab.asked)
        /\ tab \in TabType /\ told \in ToldType
    BY <1>1, <2>1, LinkedIs
  <2>4. told'.status = status /\ told.status # status
    BY <1>3, <2>1, <2>2 DEF ToldType
  <2>5. /\ Linked.kind = "worker" /\ Linked.live /\ Linked.phase = Phase
        /\ Plug!Opened(Linked) = Wired(TRUE, "open", tab.dial, tab.asked)
        /\ Plug!Closed(Linked) = Wired(TRUE, "closed", tab.dial, tab.asked)
        /\ Plug!Redialed(Linked) = Wired(TRUE, "dialing", tab.dial, tab.asked)
    BY <2>1, LiveLinked
  <2>6. Plug!Tell(status)
    BY <2>1 DEF Plug!Tell
  <2>7. Phase = IF told.status = "disconnected" THEN "closed"
                ELSE IF told.status = "connected" THEN "open" ELSE "dialing"
    BY <2>1 DEF Phase
  <2>8. Phase' = IF status = "disconnected" THEN "closed"
                 ELSE IF status = "connected" THEN "open" ELSE "dialing"
    BY <1>1, <2>1, <2>4 DEF Phase
  <2>9. CASE status = "connected"
    <3>1. Plug!Open
      BY <2>1, <2>2, <2>4, <2>5, <2>6, <2>7, <2>8, <2>9 DEF Plug!Open, Plug!CanOpen
    <3> QED BY <3>1 DEF Plug!Next
  <2>10. CASE status = "disconnected"
    <3>1. Plug!Close
      BY <2>2, <2>4, <2>5, <2>6, <2>7, <2>8, <2>10 DEF Plug!Close, Plug!CanClose
    <3> QED BY <3>1 DEF Plug!Next
  <2>11. CASE status = "connecting" /\ told.status = "connected"
    <3>1. Plug!Redial
      BY <2>2, <2>5, <2>6, <2>7, <2>8, <2>11 DEF Plug!Redial, Plug!CanRedial
    <3> QED BY <3>1 DEF Plug!Next
  <2>12. CASE status = "connecting" /\ told.status # "connected"
    <3>1. Plug!Dials
      BY <2>1, <2>2, <2>5, <2>6, <2>7, <2>8, <2>12 DEF Plug!Dials
    <3> QED BY <3>1 DEF Plug!Next
  <2> QED BY <2>9, <2>10, <2>11, <2>12 DEF Statuses
<1> QED BY <1>2, <1>3

\* So is a start().
LEMMA StartLink ==
  ASSUME Inv, Inv', NEW r, Become(r), Starting(Here, r) \/ Failing(Here, r)
  PROVE  [Plug!Next]_(Plug!linkVars)
<1>1. tab' = r.tab /\ told' = r.told /\ ~tab.backend /\ tab'.asked = {}
  BY HereIs DEF Become, Starting, Failing
<1>2. /\ Linked.kind = "worker" /\ ~Linked.live
      /\ tab'.backend => Linked' = Wired(TRUE, Phase', tab'.dial, tab'.asked)
      /\ ~tab'.backend => Linked' = Wired(FALSE, Phase', tab'.dial, tab'.asked)
      /\ tab \in TabType /\ tab' \in TabType
  BY <1>1, LinkedIs
<1>3. tab.backend \in BOOLEAN /\ tab'.backend \in BOOLEAN
  BY <1>2 DEF TabType
<1>4. Plug!Started(Linked) = {Wired(TRUE, "dialing", "ok", {}),
                              Wired(FALSE, "closed", "failed", {})}
  BY <1>2, DeadOps
<1>5. CASE Starting(Here, r)
  <2>1. tab'.backend = TRUE /\ tab'.dial = "ok"
    BY <1>1, <1>3, <1>5 DEF Starting
  <2>2. PICK status \in {"none", "connecting"} : told' = [by |-> told.by + 1, status |-> status]
    BY <1>1, <1>5, HereIs DEF Starting
  <2>3. Phase' = "dialing"
    BY <2>1, <2>2 DEF Phase
  <2>4. Linked' = Wired(TRUE, "dialing", "ok", {})
    BY <1>1, <1>2, <2>1, <2>3
  <2>5. Linked'.live
    BY <2>4 DEF Wired
  <2>6. Plug!Start
    BY <1>2, <1>4, <2>2, <2>4, <2>5 DEF Plug!Start
  <2> QED BY <2>6 DEF Plug!Next
<1>6. CASE Failing(Here, r)
  <2>1. tab'.backend = FALSE /\ tab'.dial = "failed"
    BY <1>1, <1>3, <1>6 DEF Failing
  <2>2. told' = [by |-> told.by + 1, status |-> "none"]
    BY <1>1, <1>6, HereIs DEF Failing
  <2>3. Phase' = "closed"
    BY <2>1 DEF Phase
  <2>4. Linked' = Wired(FALSE, "closed", "failed", {})
    BY <1>1, <1>2, <2>1, <2>3
  <2>5. ~Linked'.live
    BY <2>4 DEF Wired
  <2>6. Plug!Start
    BY <1>2, <1>4, <2>2, <2>4, <2>5 DEF Plug!Start
  <2> QED BY <2>6 DEF Plug!Next
<1> QED BY <1>5, <1>6

\* So is the end of a worker, and a stop().
LEMMA EndLink ==
  ASSUME Inv, Inv', NEW r, Become(r), Failed(Here, r) \/ (tab.backend /\ Quits(Here, r))
  PROVE  [Plug!Next]_(Plug!linkVars)
<1>1. tab' = r.tab /\ told' = r.told /\ tab.backend
  BY HereIs DEF Become, Failed
<1>2. /\ ~tab'.backend => Linked' = Wired(FALSE, Phase', tab'.dial, tab'.asked)
      /\ tab \in TabType
  BY LinkedIs
<1>4. /\ Linked.kind = "worker" /\ Linked.live
      /\ Plug!Broken(Linked) = Wired(FALSE, "closed", tab.dial, {})
      /\ Plug!Stopped(Linked) = Wired(FALSE, "closed", tab.dial, {})
  BY <1>1, LiveLinked
<1>5. ASSUME tab'.backend = FALSE, tab'.asked = {}, tab'.dial = tab.dial
      PROVE  Linked' = Wired(FALSE, "closed", tab.dial, {})
  <2>1. Phase' = "closed"
    BY <1>5 DEF Phase
  <2> QED BY <1>2, <1>5, <2>1
<1>6. CASE Failed(Here, r)
  <2>1. tab' = TabGone(tab) /\ told' = [told EXCEPT !.status = "error"]
    BY <1>1, <1>6, HereIs DEF Failed
  <2>2. tab'.backend = FALSE /\ tab'.asked = {} /\ tab'.dial = tab.dial
    BY <1>2, <2>1 DEF TabGone, TabType
  <2>3. Linked' = Plug!Broken(Linked)
    BY <1>4, <1>5, <2>2
  <2>4. Plug!Break
    BY <1>4, <2>1, <2>3 DEF Plug!Break, Plug!CanBreak, Plug!Tell
  <2> QED BY <2>4 DEF Plug!Next
<1>7. CASE Quits(Here, r)
  <2>1. /\ tab' = TabStopped(tab)
        /\ \E status \in {"none", "disconnected"} : told' = [told EXCEPT !.status = status]
    BY <1>1, <1>7, HereIs DEF Quits
  <2>2. tab'.backend = FALSE /\ tab'.asked = {} /\ tab'.dial = tab.dial
    BY <1>2, <2>1 DEF TabStopped, TabType
  <2>3. Linked' = Plug!Stopped(Linked)
    BY <1>4, <1>5, <2>2
  <2>4. Plug!Stop
    BY <2>1, <2>3 DEF Plug!Stop, Plug!Tell
  <2> QED BY <2>4 DEF Plug!Next
<1> QED BY <1>6, <1>7

\* So is asking for other topics.
LEMMA SubsLink ==
  ASSUME Inv, Inv', NEW r, Become(r), NEW t \in Topics,
         Reasked(Here, r, tab.asked \cup {t}) \/ Reasked(Here, r, tab.asked \ {t})
  PROVE  [Plug!Next]_(Plug!linkVars)
<1>1. /\ told' = told /\ tab.backend
      /\ tab' = [tab EXCEPT !.asked = tab.asked \cup {t}] \/
         tab' = [tab EXCEPT !.asked = tab.asked \ {t}]
  BY HereIs DEF Become, Reasked
<1>2. /\ tab'.backend => Linked' = Wired(TRUE, Phase', tab'.dial, tab'.asked)
      /\ tab \in TabType
  BY LinkedIs
<1>4. /\ Plug!Subscribed(Linked, {t}) = Wired(TRUE, Phase, tab.dial, tab.asked \cup {t})
      /\ Plug!Unsubscribed(Linked, {t}) = Wired(TRUE, Phase, tab.dial, tab.asked \ {t})
  BY <1>1, LiveLinked
<1>5. tab'.backend = tab.backend /\ tab'.dial = tab.dial
  BY <1>1, <1>2 DEF TabType
<1>6. Phase' = Phase
  BY <1>1, <1>5 DEF Phase
<1>7. CASE tab' = [tab EXCEPT !.asked = tab.asked \cup {t}]
  <2>1. tab'.asked = tab.asked \cup {t}
    BY <1>2, <1>7 DEF TabType
  <2>2. Plug!Subscribe(t)
    BY <1>1, <1>2, <1>4, <1>5, <1>6, <2>1 DEF Plug!Subscribe
  <2> QED BY <2>2 DEF Plug!Next
<1>8. CASE tab' = [tab EXCEPT !.asked = tab.asked \ {t}]
  <2>1. tab'.asked = tab.asked \ {t}
    BY <1>2, <1>8 DEF TabType
  <2>2. Plug!Unsubscribe(t)
    BY <1>1, <1>2, <1>4, <1>5, <1>6, <2>1 DEF Plug!Unsubscribe
  <2> QED BY <2>2 DEF Plug!Next
<1> QED BY <1>1, <1>7, <1>8

\* What a step makes of the state is ordered as what it computes.
LEMMA BecomeOrdered ==
  ASSUME NEW s, Become(s), Ordered(s)
  PROVE  Ordered(Here)'
<1>1. /\ Here'.tab = s.tab /\ Here'.told = s.told /\ Here'.outbox = s.outbox
      /\ Here'.session = s.session /\ Here'.sdk = s.sdk
  BY DEF Here, Become
<1>2. Ordered(Here')
  BY <1>1 DEF Ordered, OrderedAt, Parting, Over
<1> QED BY <1>2 DEF Ordered, OrderedAt, Parting, Over, News, Farewell, None

\* Without a session nothing has an order.
LEMMA GoneOrdered ==
  ASSUME NEW h, h.tab \in TabType, NEW r, Failed(h, r) \/ Quits(h, r)
  PROVE  Ordered(r)
<1>1. r.tab = TabGone(h.tab) \/ r.tab = TabStopped(h.tab)
  BY DEF Failed, Quits
<1>2. TabGone(h.tab).current = None
  BY TabGoneType
<1>3. TabStopped(h.tab).current = None
  BY TabStoppedType
<1> QED BY <1>1, <1>2, <1>3 DEF Ordered

\* Every outcome is ordered, and a step of the link or none.
LEMMA OutcomeLink ==
  ASSUME Inv, Inv', NEW r, Become(r), Outcome(Here, r)
  PROVE  Ordered(Here)' /\ [Plug!Next]_(Plug!linkVars)
<1>1. Here.tab = tab /\ Here.tab \in TabType
  BY HereIs DEF Inv, Good, Sound, TabOK
<1>2. CASE Reported(Here, r)
  BY <1>2, BecomeOrdered, ReportedLink DEF Reported
<1>3. CASE Starting(Here, r) \/ Failing(Here, r)
  <2>1. Ordered(r)
    BY <1>3 DEF Starting, Failing
  <2> QED BY <1>3, <2>1, BecomeOrdered, StartLink
<1>4. CASE Failed(Here, r) \/ (Here.tab.backend /\ Quits(Here, r))
  <2>1. Ordered(r)
    BY <1>1, <1>4, GoneOrdered
  <2> QED BY <1>1, <1>4, <2>1, BecomeOrdered, EndLink
<1>5. ASSUME NEW t \in Topics,
             Reasked(Here, r, Here.tab.asked \cup {t}) \/ Reasked(Here, r, Here.tab.asked \ {t})
      PROVE  Ordered(Here)' /\ [Plug!Next]_(Plug!linkVars)
  <2>1. Ordered(r)
    BY <1>5 DEF Reasked
  <2> QED BY <1>1, <1>5, <2>1, BecomeOrdered, SubsLink
<1> QED BY <1>2, <1>3, <1>4, <1>5 DEF Outcome

\* Some outcome.
Comes == \E r : Become(r) /\ Outcome(Here, r)

\* A step that computes it.
LEMMA ComesOf ==
  ASSUME NEW r, Step(r) \/ Move(r) \/ Event(r), Outcome(Here, r)
  PROVE  Comes
<1>1. Become(r)
  BY DEF Step, Move, Event
<1> QED BY <1>1 DEF Comes

\* Start, StartThrows and StartShared.
LEMMA StartsComes ==
  ASSUME Inv, Ordered(Here), Start \/ StartThrows \/ StartShared
  PROVE  Comes
<1> DEFINE k == tab.made + 1
<1>1. SetupOK /\ Good(Here, events)
  BY DEF Inv
<1>2. Prepared(k) = PreparedFrom(Here, k)
  BY DEF Prepared, PreparedFrom
<1>3. CASE Start
  <2>1. ~Here.tab.backend /\ k \in Sessions /\ NextUp(Here, k)
    BY <1>3, HereIs DEF Start, NextUp
  <2>2. Step(Opened(Post(MadeFrom(Here, k), [type |-> "init"])))
    BY <1>2, <1>3 DEF Start, Opened, MadeFrom
  <2> HIDE DEF k
  <2>3. Starting(Here, Opened(Post(MadeFrom(Here, k), [type |-> "init"])))
    BY <1>1, <2>1, StartStarting
  <2> QED BY <2>2, <2>3, ComesOf DEF Outcome
<1>4. CASE StartThrows
  <2>1. ~Here.tab.backend /\ k \in Sessions /\ NextUp(Here, k)
    BY <1>4, HereIs DEF StartThrows, NextUp
  <2> DEFINE f == [PreparedFrom(Here, k) EXCEPT !.tab.dial = "failed"]
             g == [f EXCEPT !.tab.current = k, !.session[k].up = TRUE, !.session[k].lifecycle = 1]
  <2>2. Step(IF Local THEN g ELSE f)
    BY <1>2, <1>4 DEF StartThrows
  <2> HIDE DEF k
  <2>3. (~Local => Failing(Here, f)) /\ (Local => Failing(Here, g))
    BY ZenonT(40), <1>1, <2>1, ThrowsFailing
  <2> HIDE DEF f, g
  <2>4. CASE Local
    BY <2>2, <2>3, <2>4, ComesOf DEF Outcome
  <2>5. CASE ~Local
    BY <2>2, <2>3, <2>5, ComesOf DEF Outcome
  <2> QED BY <2>4, <2>5
<1>5. CASE StartShared
  <2>1. Move(Here) /\ Reported(Here, Here)
    BY <1>5 DEF StartShared, Reported
  <2> QED BY <2>1, ComesOf DEF Outcome
<1> QED BY <1>3, <1>4, <1>5

\* Subscribe and Unsubscribe.
LEMMA TopicsComes ==
  ASSUME Inv, Ordered(Here), NEW t \in Topics, Subscribe(t) \/ Unsubscribe(t)
  PROVE  Comes
<1>1. /\ Good(Here, events) /\ tab.asked \in SUBSET Topics /\ DOMAIN Here = Fields
      /\ Here.tab.asked = tab.asked
  BY HereIs DEF Inv, Good, Sound, TabOK, TabType
<1>2. CASE Subscribe(t)
  <2> DEFINE A == tab.asked \cup {t}
             m == [type |-> "subscribe", topic |-> t]
  <2>1. Here.tab.backend /\ Move(Post(Asking(Here, A), m))
    <3>1. [Here EXCEPT !.tab.asked = @ \cup {t}] = Asking(Here, A)
      BY HereIs DEF Asking, Here
    <3> QED BY <1>2, <3>1, HereIs DEF Subscribe
  <2>2. A \in SUBSET Topics /\ A = Here.tab.asked \cup {t} /\ m.type = "subscribe"
    BY <1>1
  <2> HIDE DEF A, m
  <2>3. Reasked(Here, Post(Asking(Here, A), m), A)
    BY <1>1, <2>1, <2>2, PostReasked
  <2>4. Outcome(Here, Post(Asking(Here, A), m))
    BY <2>2, <2>3 DEF Outcome
  <2> QED BY <2>1, <2>4, ComesOf
<1>3. CASE Unsubscribe(t)
  <2> DEFINE A == tab.asked \ {t}
             m == [type |-> "unsubscribe", topic |-> t]
  <2>1. Here.tab.backend /\ Move(Post(Asking(Here, A), m))
    <3>1. [Here EXCEPT !.tab.asked = @ \ {t}] = Asking(Here, A)
      BY HereIs DEF Asking, Here
    <3> QED BY <1>3, <3>1, HereIs DEF Unsubscribe
  <2>2. A \in SUBSET Topics /\ A = Here.tab.asked \ {t} /\ m.type = "unsubscribe"
    BY <1>1
  <2> HIDE DEF A, m
  <2>3. Reasked(Here, Post(Asking(Here, A), m), A)
    BY <1>1, <2>1, <2>2, PostReasked
  <2>4. Outcome(Here, Post(Asking(Here, A), m))
    BY <2>2, <2>3 DEF Outcome
  <2> QED BY <2>1, <2>4, ComesOf
<1> QED BY <1>2, <1>3

\* Publish and Stop.
LEMMA PublishStopComes ==
  ASSUME Inv, Ordered(Here), Publish \/ Stop
  PROVE  Comes
<1>1. /\ SetupOK /\ Good(Here, events) /\ tab.asked \in SUBSET Topics /\ DOMAIN Here = Fields
      /\ tab \in TabType /\ Here.tab = tab
  BY HereIs DEF Inv, Good, Sound, TabOK, TabType
<1>2. CASE Publish
  <2> DEFINE A == tab.asked
             m == [type |-> "publish"]
  <2>1. [tab EXCEPT !.asked = A] = tab
    BY <1>1 DEF TabType
  <2>2. Asking(Here, A) = Here
    BY <2>1, HereIs DEF Asking, Here
  <2>3. Here.tab.backend /\ Move(Post(Asking(Here, A), m))
    BY <1>2, <2>2, HereIs DEF Publish
  <2>4. A \in SUBSET Topics /\ m.type = "publish" /\ [Here.tab EXCEPT !.asked = A] = Here.tab
    BY <1>1, <2>1
  <2> HIDE DEF A, m
  <2>5. Reasked(Here, Post(Asking(Here, A), m), A)
    BY <1>1, <2>3, <2>4, PostReasked
  <2>6. Reported(Here, Post(Asking(Here, A), m))
    BY <2>4, <2>5 DEF Reasked, Reported
  <2> QED BY <2>3, <2>6, ComesOf DEF Outcome
<1>3. CASE Stop
  <2>1. Here.tab.backend /\ Move(StopFrom(Here))
    BY <1>3, HereIs DEF Stop, StopFrom
  <2>2. Quits(Here, StopFrom(Here))
    BY <1>1, <2>1, StopGood
  <2> QED BY <2>1, <2>2, ComesOf DEF Outcome
<1> QED BY <1>2, <1>3

\* Receive and Deliver.
LEMMA MessagesComes ==
  ASSUME Inv, Ordered(Here), NEW k \in Sessions, Receive(k) \/ Deliver(k)
  PROVE  Comes
<1>1. SetupOK /\ Good(Here, events)
  BY DEF Inv
<1>2. CASE Receive(k)
  <2> DEFINE r == Handle([Here EXCEPT !.inbox[k] = Tail(@)], k, Head(Here.inbox[k]))
  <2>1. Here.session[k].up /\ Here.inbox[k] # <<>> /\ Step(r)
    BY <1>2, HereIs DEF Receive
  <2>2. Reported(Here, r)
    BY <1>1, <2>1, ReceiveReported
  <2> HIDE DEF r
  <2> QED BY <2>1, <2>2, ComesOf DEF Outcome
<1>3. CASE Deliver(k)
  <2> DEFINE r == Output(Taken(Here, k), k, Head(Here.outbox[k]))
  <2>1. k \in Here.near /\ Here.outbox[k] # <<>> /\ Step(r)
    BY <1>3, HereIs DEF Deliver, Taken
  <2>2. Reported(Here, r) \/ Failed(Here, r)
    BY <1>1, <2>1, DeliverReported, DeliverFailed
  <2> HIDE DEF r
  <2> QED BY <2>1, <2>2, ComesOf DEF Outcome
<1> QED BY <1>2, <1>3

\* ProviderSettles.
LEMMA ProviderSettlesComes ==
  ASSUME Inv, Ordered(Here), NEW c, ProviderSettles(c)
  PROVE  Comes
<1>1. Good(Here, events)
  BY DEF Inv
<1>2. IsCurrentBackend(c) <=> CallIsCurrent(Here, c)
  BY HereIs DEF IsCurrentBackend, CallIsCurrent
<1> DEFINE r(token) == IF CallIsCurrent(Here, c) THEN PostToken(Settled(Here, c), c.request, token)
                       ELSE Settled(Here, c)
<1>3. PICK token \in {NoToken, <<c.of, c.request>>} : Step(r(token))
  BY <1>2 DEF ProviderSettles, Settled
<1>4. Reported(Here, r(token))
  BY <1>1, ProviderSettlesReported
<1> HIDE DEF r
<1> QED BY <1>3, <1>4, ComesOf DEF Outcome

\* The client connects, is refused a token, or loses its connection.
LEMMA ClientComes ==
  ASSUME Inv, Ordered(Here), NEW k \in Sessions,
         Connects(k) \/ AsksAgain(k) \/ Loses(k) \/ Disconnects(k)
  PROVE  Comes
<1>1. SetupOK /\ Good(Here, events)
  BY DEF Inv
<1>2. Here.session[k].client
  BY HereIs DEF Connects, AsksAgain, Loses, Disconnects, Running
<1>3. CASE Connects(k)
  <2> DEFINE s == [Here EXCEPT !.sdk[k].state = "connected", !.sdk[k].need = "none"]
             m == Status("connected")
             r == FromClient(FromClient(s, k, m), k, m)
  <2>1. Here.sdk[k].state = "connecting" /\ Step(r)
    BY <1>3, HereIs DEF Connects
  <2>2. Reported(Here, r)
    BY ZenonT(40), <1>1, <1>2, <2>1, ConnectsReported
  <2> HIDE DEF r
  <2> QED BY <2>1, <2>2, ComesOf DEF Outcome
<1>4. CASE AsksAgain(k)
  <2> DEFINE r == RequestToken(FromClient(Here, k, Error), k)
  <2>1. /\ Here.sdk[k].need = "refused" /\ Here.session[k].next <= MaxRequests
        /\ Step(r)
    BY <1>4, HereIs DEF AsksAgain
  <2>2. Reported(Here, r)
    BY <1>1, <1>2, <2>1, AsksAgainReported
  <2> HIDE DEF r
  <2> QED BY <2>1, <2>2, ComesOf DEF Outcome
<1>5. CASE Loses(k)
  <2> DEFINE T == {Here.sdk[k].token} \cup
                    (IF Here.session[k].next <= MaxRequests THEN {NoToken} ELSE {})
             r(token) == Dial([Here EXCEPT !.sdk[k].token = token], k)
  <2>1. Here.sdk[k].state = "connected" /\ \E token \in T : Event(r(token))
    BY <1>5, HereIs DEF Loses
  <2>2. PICK token \in T : Event(r(token))
    BY <2>1
  <2>3. Reported(Here, r(token))
    BY <1>1, <1>2, <2>1, <2>2, LosesReported
  <2> HIDE DEF r
  <2> QED BY <2>2, <2>3, ComesOf DEF Outcome
<1>6. CASE Disconnects(k)
  <2> DEFINE s == [Here EXCEPT !.sdk[k].state = "off", !.sdk[k].need = "none"]
             m == Status("disconnected")
             r == FromClient(FromClient(s, k, m), k, m)
  <2>1. Event(r)
    BY <1>6, HereIs DEF Disconnects
  <2>2. Reported(Here, r)
    BY ZenonT(40), <1>1, <1>2, DisconnectsReported
  <2> HIDE DEF r
  <2> QED BY <2>1, <2>2, ComesOf DEF Outcome
<1> QED BY <1>3, <1>4, <1>5, <1>6

\* A client that may have been stopped, and a worker that is going.
LEMMA LateComes ==
  ASSUME Inv, Ordered(Here), NEW k \in Sessions,
         PublishSettles(k) \/ OldClientAsks(k) \/ OldClientTells(k) \/ Reaps(k)
  PROVE  Comes
<1>1. SetupOK /\ Good(Here, events) /\ Here.session[k].up
  BY HereIs DEF Inv, PublishSettles, OldClientAsks, OldClientTells, Reaps
<1>2. CASE PublishSettles(k)
  <2> DEFINE s == [Here EXCEPT !.sdk[k].flying = @ - 1]
             r == FromClient(s, k, Error)
  <2>1. Step(s) \/ Step(r)
    BY <1>2, HereIs DEF PublishSettles
  <2>2. Reported(Here, s) /\ Reported(Here, r)
    BY <1>1, PublishSettlesReported
  <2> HIDE DEF s, r
  <2> QED BY <2>1, <2>2, ComesOf DEF Outcome
<1>3. CASE OldClientAsks(k)
  <2> DEFINE r == RequestToken(Here, k)
  <2>1. Here.session[k].lifecycle = 2 /\ Event(r)
    BY <1>3, HereIs DEF OldClientAsks
  <2>2. Reported(Here, r)
    BY <1>1, <2>1, OldClientAsksReported
  <2> HIDE DEF r
  <2> QED BY <2>1, <2>2, ComesOf DEF Outcome
<1>4. CASE Reaps(k)
  <2> DEFINE s == Emit(Here, k, [type |-> "reaped"])
             r == [Gone(s, k) EXCEPT !.outbox[k] = s.outbox[k]]
  <2>1. ~Local /\ Event(r)
    BY <1>4 DEF Reaps, Local
  <2>2. Reported(Here, r)
    BY <1>1, <2>1, ReapsReported
  <2> HIDE DEF r
  <2> QED BY <2>1, <2>2, ComesOf DEF Outcome
<1>5. CASE OldClientTells(k)
  <2>1. Event(Here)
    BY <1>5, OldClientIsMute
  <2>2. Reported(Here, Here)
    BY DEF Reported
  <2> QED BY <2>1, <2>2, ComesOf DEF Outcome
<1> QED BY <1>2, <1>3, <1>4, <1>5

\* Publication and ServerUnsubscribes.
LEMMA ServerComes ==
  ASSUME Inv, Ordered(Here), NEW k \in Sessions, NEW t \in Topics,
         Publication(k, t) \/ ServerUnsubscribes(k, t)
  PROVE  Comes
<1>1. SetupOK /\ Good(Here, events) /\ events \in Nat
  BY BridgeAssumption DEF Inv
<1>2. Here.session[k].client
  BY HereIs DEF Publication, ServerUnsubscribes, Running
<1>3. CASE Publication(k, t)
  <2>1. Published(k, t) = PublishedFrom(Here, events, k, t)
    BY HereIs DEF Published, PublishedFrom
  <2>2. events < MaxEvents /\ Event(Published(k, t))
    BY <1>3 DEF Publication, Event
  <2>3. ASSUME NEW CONSTANT n, n = events
        PROVE  Reported(Here, PublishedFrom(Here, n, k, t))
    BY <1>1, <1>2, <2>2, <2>3, PublicationReported
  <2>4. Reported(Here, PublishedFrom(Here, events, k, t))
    BY <2>3
  <2> QED BY <2>1, <2>2, <2>4, ComesOf DEF Outcome
<1>4. CASE ServerUnsubscribes(k, t)
  <2> DEFINE r == [Here EXCEPT !.sdk[k].on = @ \ {t}, !.session[k].subs = @ \ {t},
                               !.sdk[k].ended = @ \cup {t}]
  <2>1. Event(r)
    BY <1>4 DEF ServerUnsubscribes
  <2>2. Reported(Here, r)
    BY ZenonT(40), <1>1, ServerUnsubscribesReported
  <2> HIDE DEF r
  <2> QED BY <2>1, <2>2, ComesOf DEF Outcome
<1> QED BY <1>3, <1>4

\* Breaks.
LEMMA BreaksComes ==
  ASSUME Inv, Breaks
  PROVE  Comes
<1>1. SetupOK /\ Good(Here, events) /\ ~Local /\ Here.tab.backend
  BY HereIs DEF Inv, Breaks
<1>2. Here.tab.current \in Sessions /\ Here.tab.current \in Here.near
  BY <1>1 DEF Good, Backed, Sound, TabOK
<1>3. Failed(Here, WorkerFailed(Here))
  BY <1>1, <1>2, WorkerFailedGood
<1>4. Event(WorkerFailed(Here))
  BY DEF Breaks
<1> QED BY <1>3, <1>4, ComesOf DEF Outcome

\* Every step keeps the order, and is a step of the link or none.
LEMMA StepsLink ==
  ASSUME Inv, Ordered(Here), [Next]_vars
  PROVE  Ordered(Here)' /\ [Plug!Next]_(Plug!linkVars)
<1>1. SUFFICES Comes
  <2>1. Inv'
    BY StepsInv
  <2> QED BY <2>1, OutcomeLink DEF Comes
<1>2. CASE UNCHANGED vars
  <2>1. Become(Here)
    BY <1>2, HereIs DEF Become, vars
  <2>2. Reported(Here, Here)
    BY DEF Reported
  <2> QED BY <2>1, <2>2 DEF Comes, Outcome
<1>3. CASE Start \/ StartShared \/ StartThrows
  BY <1>3, StartsComes
<1>4. CASE Publish \/ Stop
  BY <1>4, PublishStopComes
<1>5. CASE \E t \in Topics : Subscribe(t) \/ Unsubscribe(t)
  BY <1>5, TopicsComes
<1>6. CASE System
  BY <1>6, MessagesComes, ProviderSettlesComes DEF System
<1>7. CASE Breaks
  BY <1>7, BreaksComes
<1>8. ASSUME NEW k \in Sessions,
             Connects(k) \/ AsksAgain(k) \/ Loses(k) \/ Disconnects(k)
      PROVE  Comes
  BY <1>8, ClientComes
<1>9. ASSUME NEW k \in Sessions,
             PublishSettles(k) \/ OldClientAsks(k) \/ OldClientTells(k) \/ Reaps(k)
      PROVE  Comes
  BY <1>9, LateComes
<1>10. ASSUME NEW k \in Sessions, NEW t \in Topics, Publication(k, t) \/ ServerUnsubscribes(k, t)
       PROVE  Comes
  BY <1>10, ServerComes
<1> QED BY <1>2, <1>3, <1>4, <1>5, <1>6, <1>7, <1>8, <1>9, <1>10 DEF Next

\* The transport implements the link module DataBus assumes of a worker: however
\* late the messages of a session arrive, each status handed to the bus is of the
\* last start() and stands for a change of the link, and none follows the
\* "disconnected" or the failure of a session.
THEOREM BridgeIsLink == Spec => ImplementsLink
<1>1. Init => Ordered(Here) /\ Plug!Init
  <2> SUFFICES ASSUME Init PROVE Ordered(Here) /\ Plug!Init
    OBVIOUS
  <2>1. Here.tab.current = None
    BY HereIs DEF Init
  <2>2. Linked = Plug!Unplugged("worker")
    BY DEF Init, Linked, Phase, Plug!Unplugged
  <2> QED BY <2>1, <2>2 DEF Ordered, Init, Plug!Init
<1>2. Inv /\ Ordered(Here) /\ [Next]_vars
        => Inv' /\ Ordered(Here)' /\ [Plug!Next]_(Plug!linkVars)
  BY StepsInv, StepsLink
<1> QED BY <1>1, <1>2, InitInv, PTL DEF Spec, ImplementsLink, Plug!Spec
=============================================================================
