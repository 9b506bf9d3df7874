---------------------------- MODULE SocketProofs ----------------------------
(***************************************************************************)
(* Proofs about Socket, for any topics, any number of sockets, calls and   *)
(* events, and sockets that open again or do not.                          *)
(*                                                                         *)
(* First what the operators on a state do (AnswerDoes, ReadyDoes, ...),    *)
(* then the inductive invariant IInv.  A step of Socket is one of six: a   *)
(* new attempt, the end of the connection (Down), its opening (Up), a      *)
(* change of the topics (Asked), an event of a socket nothing depends on   *)
(* (Aside), or one that leaves the sockets alone; each keeps IInv, and     *)
(* each is a step of Link or none, which proves that Socket implements it. *)
(***************************************************************************)
EXTENDS Socket, FiniteSetTheorems, TLAPS

Fields == [socket : 0..MaxAttempts, active : BOOLEAN, handlers : 0..MaxAttempts,
           topics : SUBSET Topics, gate : 0..MaxAttempts, timer : 0..MaxAttempts]
Marks == [ready : States, completed : BOOLEAN, failed : BOOLEAN,
          promise : {"none", "pending", "ok", "failed"},
          armed : BOOLEAN, served : SUBSET Topics]
Snapshots == [ws : Fields, attempts : [Attempts -> Marks]]

\* What settles a start() forgets its functions and its timer, and changes
\* nothing else but its promise.
LEMMA AnswerDoes ==
  ASSUME NEW s \in Snapshots, NEW result \in {"ok", "failed"},
         NEW a, a = Answer(s, result)
  PROVE  /\ a \in Snapshots /\ a.ws.gate = None /\ a.ws.timer = None
         /\ a.ws.socket = s.ws.socket /\ a.ws.active = s.ws.active
         /\ a.ws.handlers = s.ws.handlers /\ a.ws.topics = s.ws.topics
         /\ \A k \in Attempts :
              /\ a.attempts[k].armed <=> s.attempts[k].armed /\ k # s.ws.timer
              /\ a.attempts[k].promise = IF k = s.ws.gate THEN result
                                         ELSE s.attempts[k].promise
              /\ a.attempts[k].ready = s.attempts[k].ready
              /\ a.attempts[k].completed = s.attempts[k].completed
              /\ a.attempts[k].failed = s.attempts[k].failed
              /\ a.attempts[k].served = s.attempts[k].served
<1>1. s.ws \in Fields /\ s.attempts \in [Attempts -> Marks]
  BY DEF Snapshots
<1>2. /\ a = [ws |-> a.ws, attempts |-> a.attempts]
      /\ a.ws = [s.ws EXCEPT !.gate = None, !.timer = None]
      /\ a.attempts = [k \in Attempts |->
           [[s.attempts[k] EXCEPT !.armed = @ /\ k # s.ws.timer] EXCEPT
              !.promise = IF k = s.ws.gate THEN result ELSE @]]
  BY <1>1 DEF Answer, ClearConnectTimer, Settled, Fields
<1>3. a.ws \in Fields
  <2>1. None \in 0..MaxAttempts
    BY SocketAssumption DEF None
  <2> QED BY <1>1, <1>2, <2>1 DEF Fields
<1>4. ASSUME NEW k \in Attempts
      PROVE  /\ a.attempts[k] \in Marks
             /\ a.attempts[k].armed <=> s.attempts[k].armed /\ k # s.ws.timer
             /\ a.attempts[k].promise = IF k = s.ws.gate THEN result
                                        ELSE s.attempts[k].promise
             /\ a.attempts[k].ready = s.attempts[k].ready
             /\ a.attempts[k].completed = s.attempts[k].completed
             /\ a.attempts[k].failed = s.attempts[k].failed
             /\ a.attempts[k].served = s.attempts[k].served
  <2> DEFINE m == s.attempts[k]
  <2>1. m \in Marks
    BY <1>1
  <2>2. a.attempts[k] = [[m EXCEPT !.armed = @ /\ k # s.ws.timer] EXCEPT
                           !.promise = IF k = s.ws.gate THEN result ELSE @]
    BY <1>2
  <2> HIDE DEF m
  <2>3. a.attempts[k] \in Marks
    BY <2>1, <2>2 DEF Marks
  <2> QED BY <2>1, <2>2, <2>3 DEF Marks, m
<1>5. a.attempts \in [Attempts -> Marks]
  BY <1>2, <1>4
<1>6. /\ a.ws.gate = None /\ a.ws.timer = None
      /\ a.ws.socket = s.ws.socket /\ a.ws.active = s.ws.active
      /\ a.ws.handlers = s.ws.handlers /\ a.ws.topics = s.ws.topics
  BY <1>1, <1>2 DEF Fields
<1>7. a \in Snapshots
  BY <1>2, <1>3, <1>5 DEF Snapshots
<1> QED BY <1>4, <1>6, <1>7

\* An event of a socket changes what the server knows of that socket.
LEMMA ReadyDoes ==
  ASSUME TypeOK, NEW k \in Attempts, NEW state \in States, NEW r, r = Ready(k, state)
  PROVE  /\ r \in Snapshots /\ r.ws = ws
         /\ r.attempts[k].ready = state /\ r.attempts[k].served = {}
         /\ \A j \in Attempts : /\ r.attempts[j].armed = attempts[j].armed
                                /\ r.attempts[j].completed = attempts[j].completed
                                /\ r.attempts[j].failed = attempts[j].failed
                                /\ r.attempts[j].promise = attempts[j].promise
                                /\ j # k => r.attempts[j] = attempts[j]
<1>1. ws \in Fields /\ attempts \in [Attempts -> Marks]
  BY DEF TypeOK, Fields, Marks
<1>2. r.ws = ws
  BY <1>1 DEF Ready, Here
<1>3. r.attempts = [attempts EXCEPT ![k] = [@ EXCEPT !.ready = state, !.served = {}]]
  BY <1>1 DEF Ready, Here
<1>4. r = [ws |-> r.ws, attempts |-> r.attempts]
  BY <1>1 DEF Ready, Here
<1>5. [attempts[k] EXCEPT !.ready = state, !.served = {}] \in Marks
  BY <1>1 DEF Marks
<1>6. r.attempts \in [Attempts -> Marks]
  BY <1>1, <1>3, <1>5
<1>7. /\ r.attempts[k].ready = state /\ r.attempts[k].served = {}
      /\ \A j \in Attempts : /\ r.attempts[j].armed = attempts[j].armed
                             /\ r.attempts[j].completed = attempts[j].completed
                             /\ r.attempts[j].failed = attempts[j].failed
                             /\ r.attempts[j].promise = attempts[j].promise
                             /\ j # k => r.attempts[j] = attempts[j]
  BY <1>1, <1>3 DEF Marks
<1>8. r \in Snapshots
  BY <1>1, <1>2, <1>4, <1>6 DEF Snapshots
<1> QED BY <1>2, <1>7, <1>8

\* A socket that is closed serves nothing and is not open.
LEMMA ShutDoes ==
  ASSUME NEW s \in Snapshots, NEW k \in Attempts, NEW r, r = Shut(s, k)
  PROVE  /\ r \in Snapshots /\ r.ws = s.ws
         /\ r.attempts[k].ready \in {"closing", "closed"}
         /\ \A j \in Attempts : /\ r.attempts[j].armed = s.attempts[j].armed
                                /\ r.attempts[j].completed = s.attempts[j].completed
                                /\ r.attempts[j].failed = s.attempts[j].failed
                                /\ r.attempts[j].promise = s.attempts[j].promise
<1> DEFINE state == IF s.attempts[k].ready = "closed" THEN "closed" ELSE "closing"
<1>1. s.ws \in Fields /\ s.attempts \in [Attempts -> Marks]
  BY DEF Snapshots
<1>2. r.ws = s.ws
  BY <1>1 DEF Shut, Snapshots
<1>3. r.attempts = [s.attempts EXCEPT ![k] = [@ EXCEPT !.ready = state, !.served = {}]]
  BY <1>1 DEF Shut, Snapshots
<1>4. r = [ws |-> r.ws, attempts |-> r.attempts]
  BY <1>1 DEF Shut, Snapshots
<1>5. [s.attempts[k] EXCEPT !.ready = state, !.served = {}] \in Marks
  BY <1>1 DEF Marks, States
<1>6. r.attempts \in [Attempts -> Marks]
  BY <1>1, <1>3, <1>5
<1>7. state \in {"closing", "closed"}
  OBVIOUS
<1> HIDE DEF state
<1>8. /\ r.attempts[k].ready \in {"closing", "closed"}
      /\ \A j \in Attempts : /\ r.attempts[j].armed = s.attempts[j].armed
                             /\ r.attempts[j].completed = s.attempts[j].completed
                             /\ r.attempts[j].failed = s.attempts[j].failed
                             /\ r.attempts[j].promise = s.attempts[j].promise
  BY <1>1, <1>3, <1>7 DEF Marks
<1>9. r \in Snapshots
  BY <1>1, <1>2, <1>4, <1>6 DEF Snapshots
<1> QED BY <1>2, <1>8, <1>9

----------------------------------------------------------------------------
Tried == {k \in Attempts : attempts[k].promise # "none"}

\* Attempts are numbered without gaps, and the last one is the one in use, if
\* there is one, and the one whose handlers hear of the statuses.
Numbered == /\ Tried = 1..Made /\ Made \in Nat /\ told.by = Made
            /\ ws.socket # None => ws.socket = Made

\* An active socket is the one the handlers are for, and has neither timed out
\* nor failed; until it has opened, its start() is pending.
ActiveIsMine ==
  ws.active => /\ ws.socket # None /\ ws.handlers = ws.socket
               /\ ~attempts[ws.socket].failed
               /\ ~attempts[ws.socket].completed => ws.gate = ws.socket

\* A start() is pending for the handshake of the active socket only.
GateIsActive ==
  ws.gate # None => /\ ws.active /\ ws.gate = ws.socket
                    /\ ~attempts[ws.gate].completed

\* An inactive socket that may become active again was open before, and its
\* end was reported.
EndIsTold ==
  ~ws.active /\ ws.socket # None /\ ~attempts[ws.socket].failed
    => /\ attempts[ws.socket].completed /\ attempts[ws.socket].ready # "connecting"
       /\ told.status \in {"disconnected", "error"}

\* A handshake that completed resolved its start().
CompletedIsOk == \A k \in Attempts : attempts[k].completed => attempts[k].promise = "ok"

IInv == /\ TypeOK /\ Numbered /\ ActiveIsMine /\ GateIsActive /\ EndIsTold
        /\ CompletedIsOk /\ ServedExactly /\ GivenUpIsSilent

----------------------------------------------------------------------------
(* Each step keeps the invariant.                                          *)

\* The attempts 1..n are n.
LEMMA Counted == ASSUME NEW n \in Nat PROVE Cardinality(1..n) = n
  BY FS_Interval

\* Nothing was tried, nothing is used.
LEMMA InitInv == ASSUME Init PROVE IInv
<1> USE SocketAssumption DEF Init
<1>1. TypeOK
  BY DEF TypeOK, Untried, States, Attempts, None
<1>2. Numbered
  <2>1. Tried = 1..0
    BY DEF Tried, Untried
  <2>2. Made = 0
    BY <2>1, Counted DEF Made, Tried
  <2> QED BY <2>1, <2>2 DEF Numbered
<1>3. ActiveIsMine /\ GateIsActive /\ EndIsTold /\ ServedExactly
  BY DEF ActiveIsMine, GateIsActive, EndIsTold, ServedExactly
<1>4. CompletedIsOk /\ GivenUpIsSilent
  BY DEF CompletedIsOk, GivenUpIsSilent, TimersAreLive, HeardByOwn, Untried, None
<1> QED BY <1>1, <1>2, <1>3, <1>4 DEF IInv

\* The number of the next attempt is fresh, and becomes the last one.
LEMMA NextNumber ==
  ASSUME Numbered, NEW k, k = Made + 1, k \in Attempts,
         NEW promise \in {"pending", "ok", "failed"}, attempts' \in [Attempts -> Marks],
         \A j \in Attempts : attempts'[j].promise = IF j = k THEN promise
                                                   ELSE attempts[j].promise
  PROVE  k \notin Tried /\ Tried' = 1..k /\ Made' = k
<1>1. Tried' = Tried \cup {k}
  BY DEF Tried
<1>2. Tried' = 1..k /\ k \notin Tried /\ k \in Nat
  BY <1>1 DEF Numbered
<1>3. Made' = Cardinality(Tried')
  BY DEF Made, Tried
<1> QED BY <1>2, <1>3, Counted

\* A new socket.
LEMMA StartInv == ASSUME IInv, Start PROVE IInv'
<1> DEFINE k == Made + 1
           dialing == [Untried EXCEPT !.ready = "connecting", !.promise = "pending",
                                      !.armed = timed]
<1>1. /\ ~ws.active /\ k \in Attempts
      /\ attempts' = [attempts EXCEPT ![k] = dialing]
      /\ ws' = [ws EXCEPT !.socket = k, !.active = TRUE, !.handlers = k, !.gate = k,
                          !.timer = IF timed THEN k ELSE @]
      /\ told' = [by |-> k, status |-> "none"]
      /\ UNCHANGED <<blobs, heard, timed, moves, events>>
  BY DEF Start, Tell
<1>2. /\ ws \in Fields /\ attempts \in [Attempts -> Marks] /\ timed \in BOOLEAN
      /\ k \in 1..MaxAttempts /\ k # None
  BY <1>1 DEF IInv, TypeOK, Fields, Marks, Attempts, None
<1>3. dialing \in Marks /\ dialing.armed = timed /\ dialing.promise = "pending"
      /\ ~dialing.completed /\ ~dialing.failed /\ dialing.ready = "connecting"
  BY <1>2 DEF Untried, Marks, States
<1> HIDE DEF dialing
<1>4. attempts' \in [Attempts -> Marks] /\ attempts'[k] = dialing
      /\ \A j \in Attempts : j # k => attempts'[j] = attempts[j]
  BY <1>1, <1>2, <1>3
<1>5. Tried' = 1..k /\ Made' = k
  BY <1>3, <1>4, <1>1, NextNumber DEF IInv
<1> HIDE DEF k
<1>6. /\ ws' \in Fields /\ ws'.socket = k /\ ws'.active = TRUE /\ ws'.handlers = k
      /\ ws'.gate = k /\ ws'.timer = IF timed THEN k ELSE ws.timer
  <2> DEFINE timer == IF timed THEN k ELSE ws.timer
  <2>1. timer \in 0..MaxAttempts /\ k \in 0..MaxAttempts
    BY <1>2 DEF Fields
  <2>2. ws' = [ws EXCEPT !.socket = k, !.active = TRUE, !.handlers = k, !.gate = k,
                         !.timer = timer]
    BY <1>1, <1>2 DEF Fields
  <2>3. timer = IF timed THEN k ELSE ws.timer
    OBVIOUS
  <2> HIDE DEF timer
  <2> QED BY <1>2, <2>1, <2>2, <2>3 DEF Fields
<1>7. ws.gate = None /\ \A j \in Attempts : attempts[j].promise # "pending"
  BY <1>1, <1>2 DEF IInv, GateIsActive, TypeOK, None, Attempts, Fields
<1>8. TypeOK'
  <2>1. \A j \in Attempts : attempts'[j].promise = "pending" <=> ws'.gate = j
    BY <1>3, <1>4, <1>6, <1>7
  <2>2. told' \in [by : 0..MaxAttempts, status : {"none", "connected", "disconnected", "error"}]
    BY <1>1, <1>2
  <2> QED BY <1>1, <1>4, <1>6, <2>1, <2>2 DEF IInv, TypeOK, Fields, Marks
<1>9. Numbered'
  BY <1>1, <1>2, <1>5, <1>6 DEF Numbered
<1>10. ActiveIsMine' /\ GateIsActive' /\ EndIsTold' /\ ServedExactly'
  BY <1>2, <1>3, <1>4, <1>6 DEF ActiveIsMine, GateIsActive, EndIsTold, ServedExactly, None
<1>11. CompletedIsOk'
  BY <1>3, <1>4 DEF CompletedIsOk, IInv
<1>12. GivenUpIsSilent'
  <2>1. \A j \in Attempts : ~attempts[j].armed
    BY <1>1 DEF IInv, GivenUpIsSilent, TimersAreLive
  <2>2. TimersAreLive'
    BY <1>2, <1>3, <1>4, <1>6, <2>1 DEF TimersAreLive, Mine
  <2> QED BY <1>1, <2>2 DEF IInv, GivenUpIsSilent, HeardByOwn
<1> QED BY <1>8, <1>9, <1>10, <1>11, <1>12 DEF IInv

\* An answer is given to an attempt that was counted.
LEMMA SameNumber ==
  ASSUME TypeOK, NEW result \in {"ok", "failed"},
         \A j \in Attempts : attempts'[j].promise = IF j = ws.gate THEN result
                                                   ELSE attempts[j].promise
  PROVE  Tried' = Tried /\ Made' = Made
<1>1. \A j \in Attempts : j = ws.gate => attempts[j].promise = "pending"
  BY DEF TypeOK
<1>2. Tried' = Tried
  BY <1>1 DEF Tried
<1> QED BY <1>2 DEF Made, Tried

\* The factory of sockets throws: the attempt counts, nothing is in use.
LEMMA StartThrowsInv == ASSUME IInv, StartThrows PROVE IInv'
<1> DEFINE k == Made + 1
<1>1. /\ ~ws.active /\ k \in Attempts
      /\ attempts' = [attempts EXCEPT ![k].promise = "ok"]
      /\ ws' = [ws EXCEPT !.socket = None, !.handlers = k]
      /\ told' = [by |-> k, status |-> "error"]
      /\ UNCHANGED <<blobs, heard, timed, moves, events>>
  BY DEF StartThrows, Tell
<1>2. /\ ws \in Fields /\ attempts \in [Attempts -> Marks]
      /\ k \in 1..MaxAttempts /\ k # None /\ None \in 0..MaxAttempts
  BY <1>1, SocketAssumption DEF IInv, TypeOK, Fields, Marks, Attempts, None
<1>3. /\ attempts' \in [Attempts -> Marks]
      /\ attempts'[k] = [attempts[k] EXCEPT !.promise = "ok"]
      /\ \A j \in Attempts : j # k => attempts'[j] = attempts[j]
  <2>1. [attempts[k] EXCEPT !.promise = "ok"] \in Marks
    BY <1>1, <1>2 DEF Marks
  <2> QED BY <1>1, <1>2, <2>1
<1>4. attempts'[k].promise = "ok" /\ attempts'[k].armed = attempts[k].armed
      /\ attempts'[k].completed = attempts[k].completed
  BY <1>1, <1>2, <1>3 DEF Marks
<1>5. k \notin Tried /\ Tried' = 1..k /\ Made' = k
  BY <1>3, <1>4, <1>1, NextNumber DEF IInv
<1> HIDE DEF k
<1>6. /\ ws' \in Fields /\ ws'.socket = None /\ ~ws'.active /\ ws'.gate = ws.gate
      /\ ws'.timer = ws.timer
  <2>1. k \in 0..MaxAttempts
    BY <1>2
  <2>2. /\ ws'.socket = None /\ ws'.active = ws.active /\ ws'.gate = ws.gate
        /\ ws'.timer = ws.timer /\ ws' \in Fields
    BY <1>1, <1>2, <2>1 DEF Fields
  <2> QED BY <1>1, <2>2
<1>7. ws.gate = None
  BY <1>1, <1>2 DEF IInv, GateIsActive
<1>8. TypeOK'
  <2>1. \A j \in Attempts : attempts'[j].promise = "pending" <=> ws'.gate = j
    BY <1>2, <1>3, <1>4, <1>6, <1>7 DEF IInv, TypeOK, Attempts
  <2>2. told' \in [by : 0..MaxAttempts, status : {"none", "connected", "disconnected", "error"}]
    BY <1>1, <1>2
  <2> QED BY <1>1, <1>3, <1>6, <2>1, <2>2 DEF IInv, TypeOK, Fields, Marks
<1>9. Numbered'
  BY <1>1, <1>2, <1>5, <1>6 DEF Numbered
<1>10. ActiveIsMine' /\ GateIsActive' /\ EndIsTold' /\ ServedExactly'
  BY <1>6, <1>7 DEF ActiveIsMine, GateIsActive, EndIsTold, ServedExactly
<1>11. CompletedIsOk'
  BY <1>3, <1>4 DEF CompletedIsOk, IInv
<1>12. GivenUpIsSilent'
  <2>1. \A j \in Attempts : ~attempts[j].armed
    BY <1>1 DEF IInv, GivenUpIsSilent, TimersAreLive
  <2>2. TimersAreLive'
    BY <1>3, <1>4, <2>1 DEF TimersAreLive
  <2> QED BY <1>1, <2>2 DEF IInv, GivenUpIsSilent, HeardByOwn
<1> QED BY <1>8, <1>9, <1>10, <1>11, <1>12 DEF IInv

\* Types of what most steps leave alone or count.
Others == /\ blobs \subseteq Attempts
          /\ heard \in [of : 0..MaxAttempts, to : 0..MaxAttempts, active : BOOLEAN]
          /\ timed \in BOOLEAN /\ moves \in 0..MaxMoves /\ events \in 0..MaxEvents

\* The connection ends: whoever waits for it is answered, its timer goes, and
\* the socket either is let go or cannot open unless its end was told.
Down(result, status) ==
  /\ ws' \in Fields /\ attempts' \in [Attempts -> Marks]
  /\ ~ws'.active /\ ws'.gate = None /\ told' = [by |-> told.by, status |-> status]
  /\ \A j \in Attempts : /\ ~attempts'[j].armed
                         /\ attempts'[j].completed = attempts[j].completed
                         /\ attempts'[j].promise = IF j = ws.gate THEN result
                                                    ELSE attempts[j].promise
  /\ \/ ws'.socket = None
     \/ /\ ws'.socket = ws.socket /\ status # "none"
        /\ \/ attempts'[ws.socket].failed
           \/ attempts'[ws.socket].completed /\ attempts'[ws.socket].ready # "connecting"

\* The end of a connection keeps the invariant.
LEMMA DownInv ==
  ASSUME IInv, NEW result \in {"ok", "failed"}, NEW status \in {"none", "disconnected", "error"},
         Down(result, status), Others', HeardByOwn'
  PROVE  IInv'
<1> USE DEF Down
<1>1. Tried' = Tried /\ Made' = Made
  BY SameNumber DEF IInv
<1>2. TypeOK'
  <2>1. \A j \in Attempts : attempts'[j].promise = "pending" <=> ws'.gate = j
    BY DEF IInv, TypeOK, Attempts, None
  <2>2. told' \in [by : 0..MaxAttempts, status : {"none", "connected", "disconnected", "error"}]
    BY DEF IInv, TypeOK
  <2> QED BY <2>1, <2>2 DEF TypeOK, Others, Fields, Marks
<1>3. Numbered'
  BY <1>1 DEF IInv, Numbered
<1>4. ActiveIsMine' /\ GateIsActive' /\ EndIsTold' /\ ServedExactly'
  BY DEF ActiveIsMine, GateIsActive, EndIsTold, ServedExactly
<1>5. CompletedIsOk'
  BY DEF IInv, CompletedIsOk, GateIsActive, None, Attempts
<1>6. GivenUpIsSilent'
  BY DEF GivenUpIsSilent, TimersAreLive
<1> QED BY <1>2, <1>3, <1>4, <1>5, <1>6 DEF IInv

\* The state a handler starts from.
LEMMA HereType == ASSUME TypeOK PROVE Here \in Snapshots
  BY DEF TypeOK, Here, Snapshots, Fields, Marks

\* The bounds count calls and events up to their limit.
LEMMA BoundsHold ==
  ASSUME TypeOK, Call \/ Event \/ UNCHANGED <<moves, events>>
  PROVE  moves' \in 0..MaxMoves /\ events' \in 0..MaxEvents
  BY SocketAssumption DEF TypeOK, Call, Event

\* What a status does not touch.
LEMMA OthersSame ==
  ASSUME IInv, Call \/ Event \/ UNCHANGED <<moves, events>>, UNCHANGED <<heard, blobs, timed>>
  PROVE  Others' /\ HeardByOwn'
<1>1. moves' \in 0..MaxMoves /\ events' \in 0..MaxEvents
  BY BoundsHold DEF IInv
<1> QED BY <1>1 DEF IInv, TypeOK, Others, GivenUpIsSilent, HeardByOwn

\* An answer leaves no timer armed.
LEMMA AnswerDisarms ==
  ASSUME IInv, NEW s \in Snapshots, NEW result \in {"ok", "failed"},
         s.ws.timer = ws.timer, s.ws.gate = ws.gate,
         \A j \in Attempts : /\ s.attempts[j].armed => attempts[j].armed
                             /\ s.attempts[j].promise = attempts[j].promise
                             /\ s.attempts[j].completed = attempts[j].completed,
         NEW a, a = Answer(s, result)
  PROVE  /\ a \in Snapshots /\ a.ws.gate = None
         /\ a.ws.socket = s.ws.socket /\ a.ws.active = s.ws.active
         /\ a.ws.handlers = s.ws.handlers /\ a.ws.topics = s.ws.topics
         /\ \A j \in Attempts :
              /\ ~a.attempts[j].armed
              /\ a.attempts[j].completed = attempts[j].completed
              /\ a.attempts[j].failed = s.attempts[j].failed
              /\ a.attempts[j].ready = s.attempts[j].ready
              /\ a.attempts[j].promise = IF j = ws.gate THEN result ELSE attempts[j].promise
<1>1. /\ a \in Snapshots /\ a.ws.gate = None
      /\ a.ws.socket = s.ws.socket /\ a.ws.active = s.ws.active
      /\ a.ws.handlers = s.ws.handlers /\ a.ws.topics = s.ws.topics
      /\ \A k \in Attempts :
           /\ a.attempts[k].armed <=> s.attempts[k].armed /\ k # s.ws.timer
           /\ a.attempts[k].promise = IF k = s.ws.gate THEN result ELSE s.attempts[k].promise
           /\ a.attempts[k].completed = s.attempts[k].completed
           /\ a.attempts[k].failed = s.attempts[k].failed
           /\ a.attempts[k].ready = s.attempts[k].ready
  BY AnswerDoes
<1>2. \A j \in Attempts : attempts[j].armed => ws.timer = j
  BY DEF IInv, GivenUpIsSilent, TimersAreLive
<1>3. \A j \in Attempts : ~a.attempts[j].armed
  BY <1>1, <1>2
<1> QED BY <1>1, <1>3

\* stop().
LEMMA StopIs == ASSUME IInv, Stop PROVE Down("ok", "none") /\ ws'.topics = {}
<1> DEFINE idle == [ws EXCEPT !.socket = None, !.active = FALSE, !.handlers = None,
                              !.topics = {}]
           base == [Here EXCEPT !.ws = idle]
           a == Answer(base, "ok")
           s == IF ws.active THEN Shut(a, ws.socket) ELSE a
<1>1. Become(s) /\ told' = [by |-> told.by, status |-> "none"] /\ Call
      /\ UNCHANGED <<heard, blobs, timed>>
  BY DEF Stop, Tell
<1>2. Here \in Snapshots /\ None \in 0..MaxAttempts
  BY HereType, SocketAssumption DEF IInv, None
<1>3. base = [ws |-> idle, attempts |-> attempts]
  BY DEF Here
<1>4. base \in Snapshots /\ base.attempts = attempts /\ base.ws.timer = ws.timer
      /\ base.ws.gate = ws.gate /\ base.ws.socket = None /\ ~base.ws.active
      /\ base.ws.topics = {}
  BY <1>2, <1>3 DEF Here, Snapshots, Fields
<1> HIDE DEF base
<1>5. /\ a \in Snapshots /\ a.ws.gate = None
      /\ a.ws.socket = None /\ ~a.ws.active /\ a.ws.topics = {}
      /\ \A j \in Attempts :
           /\ ~a.attempts[j].armed
           /\ a.attempts[j].completed = attempts[j].completed
           /\ a.attempts[j].promise = IF j = ws.gate THEN "ok" ELSE attempts[j].promise
  BY <1>4, AnswerDisarms
<1> HIDE DEF a
<1>6. s \in Snapshots /\ s.ws = a.ws
      /\ \A j \in Attempts : /\ s.attempts[j].armed = a.attempts[j].armed
                              /\ s.attempts[j].completed = a.attempts[j].completed
                              /\ s.attempts[j].promise = a.attempts[j].promise
  <2>1. CASE ws.active
    <3>1. ws.socket \in Attempts
      BY <2>1 DEF IInv, ActiveIsMine, TypeOK, None, Attempts
    <3> QED BY <2>1, <1>5, <3>1, ShutDoes
  <2>2. CASE ~ws.active
    BY <2>2, <1>5
  <2> QED BY <2>1, <2>2
<1> HIDE DEF s
<1>7. ws' = s.ws /\ attempts' = s.attempts
  BY <1>1 DEF Become
<1>8. ws' \in Fields /\ attempts' \in [Attempts -> Marks]
  BY <1>6, <1>7 DEF Snapshots
<1>9. /\ ~ws'.active /\ ws'.gate = None /\ ws'.socket = None /\ ws'.topics = {}
      /\ \A j \in Attempts :
           /\ ~attempts'[j].armed
           /\ attempts'[j].completed = attempts[j].completed
           /\ attempts'[j].promise = IF j = ws.gate THEN "ok" ELSE attempts[j].promise
  BY <1>5, <1>6, <1>7
<1> QED BY <1>1, <1>8, <1>9 DEF Down

\* Only the attempt in use can have an armed timer or a start() to answer, and
\* not once it has opened.
LEMMA NothingLeft ==
  ASSUME IInv, NEW k \in Attempts, ws.socket = k, attempts[k].completed
  PROVE  ws.gate = None /\ \A j \in Attempts : ~attempts[j].armed
<1>1. ws.gate = None
  BY DEF IInv, GateIsActive
<1>2. \A j \in Attempts : ~attempts[j].armed
  BY DEF IInv, GivenUpIsSilent, TimersAreLive, Mine
<1> QED BY <1>1, <1>2

\* failConnect for the attempt in use.
LEMMA FailDoes ==
  ASSUME IInv, NEW k \in Attempts, ws.socket = k,
         NEW s \in Snapshots, s.ws.timer = ws.timer, s.ws.gate = ws.gate,
         s.ws.socket = k, ~s.ws.active,
         \A j \in Attempts : /\ s.attempts[j].armed = attempts[j].armed
                             /\ s.attempts[j].promise = attempts[j].promise
                             /\ s.attempts[j].completed = attempts[j].completed,
         NEW f, f = Fail(s, k)
  PROVE  /\ f \in Snapshots /\ f.ws.gate = None /\ f.ws.socket = k /\ ~f.ws.active
         /\ f.ws.topics = s.ws.topics /\ f.attempts[k].ready = s.attempts[k].ready
         /\ \A j \in Attempts :
              /\ ~f.attempts[j].armed
              /\ f.attempts[j].completed = attempts[j].completed
              /\ f.attempts[j].promise = IF j = ws.gate THEN "failed" ELSE attempts[j].promise
         /\ f.attempts[k].failed \/ f.attempts[k].completed
<1>1. CASE s.attempts[k].completed
  <2>1. ws.gate = None /\ \A j \in Attempts : ~attempts[j].armed
    BY <1>1, NothingLeft
  <2>2. f = s
    BY <1>1 DEF Fail
  <2> QED BY <1>1, <2>1, <2>2 DEF None, Attempts
<1>2. CASE ~s.attempts[k].completed
  <2> DEFINE marked == [s.attempts EXCEPT ![k] = [@ EXCEPT !.failed = TRUE]]
             base == [ws |-> s.ws, attempts |-> marked]
  <2>1. f = Answer(base, "failed")
    BY <1>2 DEF Fail
  <2>2. s.ws \in Fields /\ s.attempts \in [Attempts -> Marks]
    BY DEF Snapshots
  <2>3. /\ base.ws = s.ws
        /\ base.attempts = [s.attempts EXCEPT ![k] = [@ EXCEPT !.failed = TRUE]]
        /\ base = [ws |-> base.ws, attempts |-> base.attempts]
    OBVIOUS
  <2> HIDE DEF base
  <2>4. [s.attempts[k] EXCEPT !.failed = TRUE] \in Marks
    BY <2>2 DEF Marks
  <2>5. base.attempts \in [Attempts -> Marks]
    BY <2>2, <2>3, <2>4
  <2>6. base \in Snapshots
    BY <2>2, <2>3, <2>5 DEF Snapshots
  <2>7. /\ base.attempts[k].failed = TRUE /\ base.attempts[k].ready = s.attempts[k].ready
        /\ \A j \in Attempts : /\ base.attempts[j].armed = s.attempts[j].armed
                               /\ base.attempts[j].promise = s.attempts[j].promise
                               /\ base.attempts[j].completed = s.attempts[j].completed
    BY <2>2, <2>3 DEF Marks
  <2>8. base.ws.timer = ws.timer /\ base.ws.gate = ws.gate /\ base.ws.socket = k
        /\ ~base.ws.active /\ base.ws.topics = s.ws.topics
    BY <2>3
  <2>9. /\ f \in Snapshots /\ f.ws.gate = None
        /\ f.ws.socket = base.ws.socket /\ f.ws.active = base.ws.active
        /\ f.ws.topics = base.ws.topics
        /\ \A j \in Attempts :
             /\ ~f.attempts[j].armed
             /\ f.attempts[j].completed = attempts[j].completed
             /\ f.attempts[j].failed = base.attempts[j].failed
             /\ f.attempts[j].ready = base.attempts[j].ready
             /\ f.attempts[j].promise = IF j = ws.gate THEN "failed" ELSE attempts[j].promise
    BY <2>1, <2>6, <2>7, <2>8, AnswerDisarms
  <2> QED BY <2>7, <2>8, <2>9
<1> QED BY <1>1, <1>2

\* Steps that change at most what is known of a socket that is not in use.
Aside(k) ==
  /\ ws' = ws /\ UNCHANGED told /\ attempts' \in [Attempts -> Marks]
  /\ ~(ws.active /\ ws.socket = k)
  /\ \A j \in Attempts : /\ attempts'[j].armed <=> attempts[j].armed
                         /\ attempts'[j].completed = attempts[j].completed
                         /\ attempts'[j].failed = attempts[j].failed
                         /\ attempts'[j].promise = attempts[j].promise
  /\ \A j \in Attempts : j # k => attempts'[j] = attempts[j]
  /\ attempts[k].ready # "connecting" => attempts'[k].ready # "connecting"

\* Such a step keeps the invariant.
LEMMA AsideInv ==
  ASSUME IInv, NEW k \in Attempts, Aside(k), Others', HeardByOwn'
  PROVE  IInv'
<1> USE DEF Aside
<1>1. Tried' = Tried /\ Made' = Made
  BY DEF Tried, Made
<1>2. ws.socket # None => ws.socket \in Attempts
  BY DEF IInv, TypeOK, None, Attempts
<1>3. TypeOK'
  BY DEF IInv, TypeOK, Others, Marks
<1>4. Numbered'
  BY <1>1 DEF IInv, Numbered
<1>5. ActiveIsMine' /\ EndIsTold'
  BY <1>2 DEF IInv, ActiveIsMine, EndIsTold
<1>6. GateIsActive'
  BY <1>2 DEF IInv, GateIsActive
<1>7. CompletedIsOk'
  BY DEF IInv, CompletedIsOk
<1>8. ServedExactly'
  BY <1>2 DEF IInv, ServedExactly, ActiveIsMine
<1>9. GivenUpIsSilent'
  BY DEF IInv, GivenUpIsSilent, TimersAreLive, Mine
<1> QED BY <1>3, <1>4, <1>5, <1>6, <1>7, <1>8, <1>9 DEF IInv

\* onclose: the end of the socket in use, or nothing the transport knows of.
LEMMA OnCloseIs ==
  ASSUME IInv, NEW k \in Attempts, OnClose(k)
  PROVE  \/ ws.active /\ Down("failed", "disconnected") /\ ws'.topics = ws.topics
         \/ Aside(k)
<1>1. PICK closed : closed = Ready(k, "closed")
  OBVIOUS
<1>2. /\ closed \in Snapshots /\ closed.ws = ws /\ closed.attempts[k].ready = "closed"
      /\ \A j \in Attempts : /\ closed.attempts[j].armed = attempts[j].armed
                              /\ closed.attempts[j].completed = attempts[j].completed
                              /\ closed.attempts[j].failed = attempts[j].failed
                              /\ closed.attempts[j].promise = attempts[j].promise
  BY <1>1, ReadyDoes DEF IInv, States
<1>3. \A j \in Attempts : j # k => closed.attempts[j] = attempts[j]
  BY <1>1, ReadyDoes DEF IInv, States
<1>4. CASE Mine(k) /\ ws.active
  <2>1. PICK s : s = [closed EXCEPT !.ws.active = FALSE]
    OBVIOUS
  <2>2. PICK f : f = Fail(s, k)
    OBVIOUS
  <2>3. Become(f) /\ told' = [by |-> k, status |-> "disconnected"]
    BY <1>1, <1>4, <2>1, <2>2 DEF OnClose, Tell
  <2>4. k = told.by /\ ws.socket = k
    BY <1>4 DEF IInv, Numbered, Mine, None, Attempts
  <2>5. s \in Snapshots /\ s.attempts = closed.attempts /\ s.ws.timer = ws.timer
        /\ s.ws.gate = ws.gate /\ s.ws.socket = ws.socket /\ ~s.ws.active
        /\ s.ws.topics = ws.topics
    BY <1>2, <2>1 DEF Snapshots, Fields
  <2>6. /\ f \in Snapshots /\ f.ws.gate = None /\ f.ws.socket = k /\ ~f.ws.active
        /\ f.ws.topics = s.ws.topics /\ f.attempts[k].ready = s.attempts[k].ready
        /\ \A j \in Attempts :
             /\ ~f.attempts[j].armed
             /\ f.attempts[j].completed = attempts[j].completed
             /\ f.attempts[j].promise = IF j = ws.gate THEN "failed" ELSE attempts[j].promise
        /\ f.attempts[k].failed \/ f.attempts[k].completed
    BY <1>2, <2>2, <2>4, <2>5, FailDoes
  <2>7. ws' = f.ws /\ attempts' = f.attempts
    BY <2>3 DEF Become
  <2>8. ws' \in Fields /\ attempts' \in [Attempts -> Marks]
    BY <2>6, <2>7 DEF Snapshots
  <2>9. f.attempts[k].ready = "closed"
    BY <1>2, <2>5, <2>6
  <2> QED BY <1>4, <2>3, <2>4, <2>5, <2>6, <2>7, <2>8, <2>9 DEF Down
<1>5. CASE ~(Mine(k) /\ ws.active)
  <2>1. ws' = closed.ws /\ attempts' = closed.attempts /\ UNCHANGED told
    BY <1>1, <1>5 DEF OnClose, Become
  <2>2. ~(ws.active /\ ws.socket = k)
    BY <1>5 DEF IInv, ActiveIsMine, Mine
  <2>3. attempts' \in [Attempts -> Marks] /\ ws' = ws
    BY <1>2, <2>1 DEF Snapshots
  <2>4. \A j \in Attempts : /\ attempts'[j].armed <=> attempts[j].armed
                           /\ attempts'[j].completed = attempts[j].completed
                           /\ attempts'[j].failed = attempts[j].failed
                           /\ attempts'[j].promise = attempts[j].promise
    BY <1>2, <2>1
  <2>5. \A j \in Attempts : j # k => attempts'[j] = attempts[j]
    BY <1>3, <2>1
  <2>6. attempts'[k].ready = "closed"
    BY <1>2, <2>1
  <2> QED BY <2>1, <2>2, <2>3, <2>4, <2>5, <2>6 DEF Aside
<1> QED BY <1>4, <1>5

\* onerror: the socket in use is aborted, an end of another is not heard of.
LEMMA OnErrorIs ==
  ASSUME IInv, NEW k \in Attempts, OnError(k)
  PROVE  \/ ws.active /\ Down("failed", "error") /\ ws'.topics = ws.topics
         \/ Aside(k)
<1>1. CASE Mine(k) /\ ws.active
  <2>1. PICK s : s = [Here EXCEPT !.ws.active = FALSE]
    OBVIOUS
  <2>2. PICK f : f = Fail(s, k)
    OBVIOUS
  <2>3. PICK r : r = Shut(f, k)
    OBVIOUS
  <2>4. Become(r) /\ told' = [by |-> k, status |-> "error"]
    BY <1>1, <2>1, <2>2, <2>3 DEF OnError, Tell
  <2>5. k = told.by /\ ws.socket = k
    BY <1>1 DEF IInv, Numbered, Mine, None, Attempts
  <2>6. s \in Snapshots /\ s.attempts = attempts /\ s.ws.timer = ws.timer
        /\ s.ws.gate = ws.gate /\ s.ws.socket = ws.socket /\ ~s.ws.active
        /\ s.ws.topics = ws.topics
    <3>1. Here \in Snapshots
      BY HereType DEF IInv
    <3> QED BY <2>1, <3>1 DEF Snapshots, Fields, Here
  <2>7. /\ f \in Snapshots /\ f.ws.gate = None /\ f.ws.socket = k /\ ~f.ws.active
        /\ f.ws.topics = s.ws.topics
        /\ \A j \in Attempts :
             /\ ~f.attempts[j].armed
             /\ f.attempts[j].completed = attempts[j].completed
             /\ f.attempts[j].promise = IF j = ws.gate THEN "failed" ELSE attempts[j].promise
        /\ f.attempts[k].failed \/ f.attempts[k].completed
    BY <2>2, <2>5, <2>6, FailDoes
  <2>8. /\ r \in Snapshots /\ r.ws = f.ws /\ r.attempts[k].ready \in {"closing", "closed"}
        /\ \A j \in Attempts : /\ r.attempts[j].armed = f.attempts[j].armed
                                /\ r.attempts[j].completed = f.attempts[j].completed
                                /\ r.attempts[j].failed = f.attempts[j].failed
                                /\ r.attempts[j].promise = f.attempts[j].promise
    BY <2>3, <2>7, ShutDoes
  <2>9. ws' = r.ws /\ attempts' = r.attempts
    BY <2>4 DEF Become
  <2>10. ws' \in Fields /\ attempts' \in [Attempts -> Marks]
    BY <2>8, <2>9 DEF Snapshots
  <2> QED BY <1>1, <2>4, <2>5, <2>6, <2>7, <2>8, <2>9, <2>10 DEF Down
<1>2. CASE ~(Mine(k) /\ ws.active)
  <2>1. UNCHANGED <<ws, attempts, told>>
    BY <1>2 DEF OnError
  <2>2. ~(ws.active /\ ws.socket = k)
    BY <1>2 DEF IInv, ActiveIsMine, Mine
  <2>3. attempts' \in [Attempts -> Marks]
    BY <2>1 DEF IInv, TypeOK, Marks
  <2> QED BY <2>1, <2>2, <2>3 DEF Aside
<1> QED BY <1>1, <1>2

\* The connect time-out.  Its timer is armed for the attempt in use only.
LEMMA TimeOutIs ==
  ASSUME IInv, NEW k \in Attempts, TimeOut(k)
  PROVE  ws.active /\ Down("failed", "error") /\ ws'.topics = ws.topics
<1> DEFINE given == [ws |-> [ws EXCEPT !.timer = None, !.active = FALSE],
                     attempts |-> [attempts EXCEPT ![k] = [@ EXCEPT !.armed = FALSE,
                                                                    !.failed = TRUE]]]
           a == Answer(given, "failed")
           s == Shut(a, k)
<1>1. /\ attempts[k].armed /\ ws.socket = k /\ Mine(k) /\ ws.active /\ ~attempts[k].completed
      /\ \A j \in Attempts : attempts[j].armed => j = k
  BY DEF TimeOut, IInv, GivenUpIsSilent, TimersAreLive, Mine
<1>2. /\ ws \in Fields /\ attempts \in [Attempts -> Marks] /\ None \in 0..MaxAttempts
  BY SocketAssumption DEF IInv, TypeOK, Fields, Marks, None
<1>3. /\ Become(s) /\ told' = [by |-> k, status |-> "error"]
      /\ UNCHANGED <<heard, blobs, timed, moves, events>>
  BY <1>1 DEF TimeOut, Expire, GivenUp, Tell
<1>4. /\ given.ws \in Fields /\ given.ws.gate = ws.gate /\ given.ws.socket = k
      /\ ~given.ws.active /\ given.ws.topics = ws.topics
  BY <1>1, <1>2 DEF Fields
<1>5. /\ given.attempts \in [Attempts -> Marks] /\ given.attempts[k].failed
      /\ \A j \in Attempts : /\ ~given.attempts[j].armed
                              /\ given.attempts[j].promise = attempts[j].promise
                              /\ given.attempts[j].completed = attempts[j].completed
  <2> DEFINE marks == [attempts[k] EXCEPT !.armed = FALSE, !.failed = TRUE]
  <2>1. /\ marks \in Marks /\ ~marks.armed /\ marks.failed
        /\ marks.promise = attempts[k].promise /\ marks.completed = attempts[k].completed
    BY <1>2 DEF Marks
  <2>2. given.attempts = [attempts EXCEPT ![k] = marks]
    BY <1>2
  <2> HIDE DEF marks, given
  <2> QED BY <1>1, <1>2, <2>1, <2>2
<1>6. given \in Snapshots
  BY <1>4, <1>5 DEF Snapshots
<1> HIDE DEF given
<1>7. /\ a \in Snapshots /\ a.ws.gate = None /\ a.ws.socket = k /\ ~a.ws.active
      /\ a.ws.topics = ws.topics
      /\ \A j \in Attempts :
           /\ ~a.attempts[j].armed /\ a.attempts[j].failed = given.attempts[j].failed
           /\ a.attempts[j].completed = attempts[j].completed
           /\ a.attempts[j].promise = IF j = ws.gate THEN "failed" ELSE attempts[j].promise
  BY <1>4, <1>5, <1>6, AnswerDoes
<1> HIDE DEF a
<1>8. /\ s \in Snapshots /\ s.ws = a.ws
      /\ \A j \in Attempts : /\ s.attempts[j].armed = a.attempts[j].armed
                              /\ s.attempts[j].completed = a.attempts[j].completed
                              /\ s.attempts[j].failed = a.attempts[j].failed
                              /\ s.attempts[j].promise = a.attempts[j].promise
  BY <1>7, ShutDoes
<1> HIDE DEF s
<1>9. /\ ws' = s.ws /\ attempts' = s.attempts
      /\ ws' \in Fields /\ attempts' \in [Attempts -> Marks]
  BY <1>3, <1>8 DEF Become, Snapshots
<1>10. k = told.by
  BY <1>1 DEF IInv, Numbered, None, Attempts
<1> QED BY <1>1, <1>3, <1>5, <1>7, <1>8, <1>9, <1>10 DEF Down

----------------------------------------------------------------------------
\* The socket in use opens: its start() is answered, no timer is armed, and the
\* server knows every topic.
Up(k) ==
  /\ Mine(k) /\ ~attempts[k].failed
  /\ ws' \in Fields /\ attempts' \in [Attempts -> Marks]
  /\ told' = [by |-> k, status |-> "connected"]
  /\ ws'.active /\ ws'.socket = k /\ ws'.handlers = k /\ ws'.gate = None
  /\ attempts'[k].completed /\ attempts'[k].ready = "open"
  /\ attempts'[k].served = ws'.topics /\ ws'.topics = ws.topics
  /\ \A j \in Attempts : /\ ~attempts'[j].armed
                         /\ attempts'[j].failed = attempts[j].failed
                         /\ j # k => attempts'[j].completed = attempts[j].completed
                         /\ attempts'[j].promise = IF j = ws.gate THEN "ok"
                                                    ELSE attempts[j].promise

\* An opened connection keeps the invariant.
LEMMA UpInv == ASSUME IInv, NEW k \in Attempts, Up(k), Others', HeardByOwn' PROVE IInv'
<1> USE DEF Up
<1>1. Tried' = Tried /\ Made' = Made
  BY SameNumber DEF IInv
<1>2. ws.socket = k /\ k # None /\ k = Made
  BY DEF IInv, Numbered, Mine, None, Attempts
<1>3. TypeOK'
  <2>1. \A j \in Attempts : attempts'[j].promise = "pending" <=> ws'.gate = j
    BY DEF IInv, TypeOK, Attempts, None
  <2>2. told' \in [by : 0..MaxAttempts, status : {"none", "connected", "disconnected", "error"}]
    BY DEF Attempts
  <2> QED BY <2>1, <2>2 DEF TypeOK, Others, Fields, Marks
<1>4. Numbered'
  BY <1>1, <1>2 DEF IInv, Numbered
<1>5. ActiveIsMine' /\ GateIsActive' /\ EndIsTold' /\ ServedExactly'
  BY <1>2 DEF ActiveIsMine, GateIsActive, EndIsTold, ServedExactly
<1>6. CompletedIsOk'
  <2>1. attempts[k].completed \/ ws.gate = k
    BY <1>2 DEF IInv, ActiveIsMine, EndIsTold
  <2> QED BY <2>1 DEF IInv, CompletedIsOk
<1>7. GivenUpIsSilent'
  BY DEF GivenUpIsSilent, TimersAreLive
<1> QED BY <1>1, <1>3, <1>4, <1>5, <1>6, <1>7 DEF IInv

\* The timer of the handshake is cleared.
LEMMA ClearDoes ==
  ASSUME NEW s \in Snapshots, NEW c, c = ClearConnectTimer(s)
  PROVE  /\ c \in Snapshots /\ c.ws.gate = s.ws.gate /\ c.ws.timer = None
         /\ c.ws.socket = s.ws.socket /\ c.ws.active = s.ws.active
         /\ c.ws.handlers = s.ws.handlers /\ c.ws.topics = s.ws.topics
         /\ \A j \in Attempts :
              /\ c.attempts[j].armed <=> s.attempts[j].armed /\ j # s.ws.timer
              /\ c.attempts[j].promise = s.attempts[j].promise
              /\ c.attempts[j].completed = s.attempts[j].completed
              /\ c.attempts[j].failed = s.attempts[j].failed
              /\ c.attempts[j].ready = s.attempts[j].ready
<1>1. s.ws \in Fields /\ s.attempts \in [Attempts -> Marks] /\ None \in 0..MaxAttempts
  BY SocketAssumption DEF Snapshots, None
<1>2. /\ c = [ws |-> c.ws, attempts |-> c.attempts]
      /\ c.ws = [s.ws EXCEPT !.timer = None]
      /\ c.attempts = [j \in Attempts |-> [s.attempts[j] EXCEPT !.armed = @ /\ j # s.ws.timer]]
  BY DEF ClearConnectTimer
<1>3. /\ c.ws \in Fields /\ c.ws.gate = s.ws.gate /\ c.ws.timer = None
      /\ c.ws.socket = s.ws.socket /\ c.ws.active = s.ws.active
      /\ c.ws.handlers = s.ws.handlers /\ c.ws.topics = s.ws.topics
  BY <1>1, <1>2 DEF Fields
<1>4. ASSUME NEW j \in Attempts
      PROVE  /\ c.attempts[j] \in Marks
             /\ c.attempts[j].armed <=> s.attempts[j].armed /\ j # s.ws.timer
             /\ c.attempts[j].promise = s.attempts[j].promise
             /\ c.attempts[j].completed = s.attempts[j].completed
             /\ c.attempts[j].failed = s.attempts[j].failed
             /\ c.attempts[j].ready = s.attempts[j].ready
  <2> DEFINE m == s.attempts[j]
  <2>1. m \in Marks
    BY <1>1
  <2>2. c.attempts[j] = [m EXCEPT !.armed = @ /\ j # s.ws.timer]
    BY <1>2
  <2> HIDE DEF m
  <2> QED BY <2>1, <2>2 DEF Marks, m
<1>5. c.attempts \in [Attempts -> Marks]
  BY <1>2, <1>4
<1>6. c \in Snapshots
  BY <1>2, <1>3, <1>5 DEF Snapshots
<1> QED BY <1>3, <1>4, <1>6

\* The server of the socket in use is told every topic.
LEMMA ReassertDoes ==
  ASSUME NEW k \in Attempts, NEW s \in Snapshots, NEW r, r = Reassert(k, s)
  PROVE  /\ r \in Snapshots /\ r.ws.active /\ r.ws.gate = s.ws.gate
         /\ r.ws.socket = s.ws.socket /\ r.ws.handlers = s.ws.handlers
         /\ r.attempts[k].served = r.ws.topics /\ r.ws.topics = s.ws.topics
         /\ r.attempts[k].ready = s.attempts[k].ready
         /\ \A j \in Attempts : /\ (r.attempts[j].armed <=> s.attempts[j].armed)
                                /\ r.attempts[j].promise = s.attempts[j].promise
                                /\ r.attempts[j].completed = s.attempts[j].completed
                                /\ r.attempts[j].failed = s.attempts[j].failed
<1> DEFINE mark == [s.attempts[k] EXCEPT !.served = s.ws.topics]
<1>1. s.ws \in Fields /\ s.attempts \in [Attempts -> Marks]
  BY DEF Snapshots
<1>2. /\ r = [ws |-> r.ws, attempts |-> r.attempts]
      /\ r.ws = [s.ws EXCEPT !.active = TRUE]
      /\ r.attempts = [s.attempts EXCEPT ![k] = mark]
  BY DEF Reassert
<1>3. /\ mark \in Marks /\ mark.served = s.ws.topics /\ (mark.armed <=> s.attempts[k].armed)
      /\ mark.promise = s.attempts[k].promise /\ mark.completed = s.attempts[k].completed
      /\ mark.failed = s.attempts[k].failed /\ mark.ready = s.attempts[k].ready
  <2>1. s.ws.topics \in SUBSET Topics /\ s.attempts[k] \in Marks
    BY <1>1 DEF Fields
  <2> QED BY <2>1 DEF Marks
<1> HIDE DEF mark
<1>4. /\ r.ws \in Fields /\ r.ws.active /\ r.ws.gate = s.ws.gate
      /\ r.ws.socket = s.ws.socket /\ r.ws.handlers = s.ws.handlers
      /\ r.ws.topics = s.ws.topics
  BY <1>1, <1>2 DEF Fields
<1>5. r.attempts \in [Attempts -> Marks]
  BY <1>1, <1>2, <1>3
<1>6. r \in Snapshots
  BY <1>2, <1>4, <1>5 DEF Snapshots
<1> QED BY <1>1, <1>2, <1>3, <1>4, <1>6

\* The handshake of an attempt is marked as completed.
LEMMA DoneDoes ==
  ASSUME NEW k \in Attempts, NEW s \in Snapshots, NEW d, d = Complete(k, s)
  PROVE  /\ d \in Snapshots /\ d.ws = s.ws /\ d.attempts[k].completed
         /\ d.attempts[k].served = s.attempts[k].served
         /\ d.attempts[k].ready = s.attempts[k].ready
         /\ \A j \in Attempts : /\ (d.attempts[j].armed <=> s.attempts[j].armed)
                                /\ d.attempts[j].promise = s.attempts[j].promise
                                /\ j # k => d.attempts[j].completed = s.attempts[j].completed
                                /\ d.attempts[j].failed = s.attempts[j].failed
<1> DEFINE mark == [s.attempts[k] EXCEPT !.completed = TRUE]
<1>1. s.ws \in Fields /\ s.attempts \in [Attempts -> Marks]
  BY DEF Snapshots
<1>2. /\ d = [ws |-> d.ws, attempts |-> d.attempts]
      /\ d.ws = s.ws
      /\ d.attempts = [s.attempts EXCEPT ![k] = mark]
  BY DEF Complete
<1>3. /\ mark \in Marks /\ mark.served = s.attempts[k].served
      /\ (mark.armed <=> s.attempts[k].armed) /\ mark.completed
      /\ mark.promise = s.attempts[k].promise /\ mark.failed = s.attempts[k].failed
      /\ mark.ready = s.attempts[k].ready
  BY <1>1 DEF Marks
<1> HIDE DEF mark
<1>4. d.attempts \in [Attempts -> Marks]
  BY <1>1, <1>2, <1>3
<1>5. d \in Snapshots
  BY <1>1, <1>2, <1>4 DEF Snapshots
<1> QED BY <1>1, <1>2, <1>3, <1>5

\* onopen subscribes the topics again and, the first time, answers.
LEMMA OnOpenIs ==
  ASSUME IInv, NEW k \in Attempts, OnOpen(k)
  PROVE  CanBecomeOpen(k) /\ (Up(k) \/ Aside(k))
<1>1. PICK opened : opened = Ready(k, "open")
  OBVIOUS
<1>2. /\ opened \in Snapshots /\ opened.ws = ws /\ opened.attempts[k].ready = "open"
      /\ \A j \in Attempts : /\ (opened.attempts[j].armed <=> attempts[j].armed)
                              /\ opened.attempts[j].completed = attempts[j].completed
                              /\ opened.attempts[j].failed = attempts[j].failed
                              /\ opened.attempts[j].promise = attempts[j].promise
  BY <1>1, ReadyDoes DEF IInv, States
<1>3. \A j \in Attempts : j # k => opened.attempts[j] = attempts[j]
  BY <1>1, ReadyDoes DEF IInv, States
<1>4. CanBecomeOpen(k)
  BY DEF OnOpen
<1>5. CASE Mine(k) /\ ~attempts[k].failed
  <2>1. PICK c : c = ClearConnectTimer(opened)
    OBVIOUS
  <2>2. PICK served : served = Reassert(k, c)
    OBVIOUS
  <2>3. PICK d : d = Complete(k, served)
    OBVIOUS
  <2>4. PICK a : a = Answer(d, "ok")
    OBVIOUS
  <2>5. /\ Become(IF attempts[k].completed THEN served ELSE a)
        /\ told' = [by |-> k, status |-> "connected"]
    BY <1>1, <1>5, <2>1, <2>2, <2>3, <2>4 DEF OnOpen, Tell
  <2>6. \A j \in Attempts : attempts[j].armed => j = ws.timer
    BY DEF IInv, GivenUpIsSilent, TimersAreLive
  <2>7. /\ c \in Snapshots /\ c.ws.gate = ws.gate
        /\ c.ws.socket = ws.socket /\ c.ws.handlers = ws.handlers
        /\ c.ws.topics = ws.topics /\ c.attempts[k].ready = "open"
        /\ \A j \in Attempts :
             /\ c.attempts[j].armed <=> opened.attempts[j].armed /\ j # ws.timer
             /\ c.attempts[j].promise = opened.attempts[j].promise
             /\ c.attempts[j].completed = opened.attempts[j].completed
             /\ c.attempts[j].failed = opened.attempts[j].failed
    BY <1>2, <2>1, ClearDoes
  <2>8. \A j \in Attempts : ~c.attempts[j].armed
    <3>1. \A j \in Attempts : opened.attempts[j].armed => j = ws.timer
      BY <1>2, <2>6
    <3>2. \A j \in Attempts : c.attempts[j].armed => opened.attempts[j].armed /\ j # ws.timer
      BY <2>7
    <3> QED BY <3>1, <3>2
  <2>9. /\ served \in Snapshots /\ served.ws.active /\ served.ws.gate = ws.gate
        /\ served.ws.socket = ws.socket /\ served.ws.handlers = ws.handlers
        /\ served.attempts[k].served = served.ws.topics /\ served.ws.topics = ws.topics
        /\ served.attempts[k].ready = "open"
        /\ \A j \in Attempts : /\ ~served.attempts[j].armed
                                /\ served.attempts[j].promise = attempts[j].promise
                                /\ served.attempts[j].completed = attempts[j].completed
                                /\ served.attempts[j].failed = attempts[j].failed
    <3>1. /\ served \in Snapshots /\ served.ws.active /\ served.ws.gate = c.ws.gate
          /\ served.ws.socket = c.ws.socket /\ served.ws.handlers = c.ws.handlers
          /\ served.attempts[k].served = served.ws.topics
          /\ served.ws.topics = c.ws.topics
          /\ served.attempts[k].ready = c.attempts[k].ready
          /\ \A j \in Attempts : /\ (served.attempts[j].armed <=> c.attempts[j].armed)
                                  /\ served.attempts[j].promise = c.attempts[j].promise
                                  /\ served.attempts[j].completed = c.attempts[j].completed
                                  /\ served.attempts[j].failed = c.attempts[j].failed
      BY <2>2, <2>7, ReassertDoes
    <3> QED BY <1>2, <2>7, <2>8, <3>1
  <2>10. CASE attempts[k].completed
    <3>1. ws.gate = None
      BY <1>5, <2>10, NothingLeft DEF Mine
    <3>2. ws' = served.ws /\ attempts' = served.attempts
      BY <2>5, <2>10 DEF Become
    <3>3. ws' \in Fields /\ attempts' \in [Attempts -> Marks]
      BY <2>9, <3>2 DEF Snapshots
    <3>4. \A j \in Attempts : j # ws.gate
      BY <3>1 DEF None, Attempts
    <3> QED BY <1>4, <1>5, <2>5, <2>9, <2>10, <3>1, <3>2, <3>3, <3>4 DEF Mine, Up
  <2>11. CASE ~attempts[k].completed
    <3>1. /\ d \in Snapshots /\ d.ws = served.ws /\ d.attempts[k].completed
          /\ d.attempts[k].served = served.attempts[k].served
          /\ d.attempts[k].ready = served.attempts[k].ready
      BY <2>3, <2>9, DoneDoes
    <3>2. \A j \in Attempts : /\ ~d.attempts[j].armed
                              /\ d.attempts[j].promise = attempts[j].promise
                              /\ j # k => d.attempts[j].completed = attempts[j].completed
                              /\ d.attempts[j].failed = attempts[j].failed
      <4>1. \A j \in Attempts : /\ d.attempts[j].armed <=> served.attempts[j].armed
                                /\ d.attempts[j].promise = served.attempts[j].promise
                                /\ j # k => d.attempts[j].completed
                                              = served.attempts[j].completed
                                /\ d.attempts[j].failed = served.attempts[j].failed
        BY <2>3, <2>9, DoneDoes
      <4>2. \A j \in Attempts : /\ ~served.attempts[j].armed
                                /\ served.attempts[j].promise = attempts[j].promise
                                /\ served.attempts[j].completed = attempts[j].completed
                                /\ served.attempts[j].failed = attempts[j].failed
        BY <2>9
      <4> QED BY <4>1, <4>2
    <3>3. /\ a \in Snapshots /\ a.ws.gate = None
          /\ a.ws.socket = d.ws.socket /\ a.ws.active = d.ws.active
          /\ a.ws.handlers = d.ws.handlers /\ a.ws.topics = d.ws.topics
          /\ \A j \in Attempts :
               /\ a.attempts[j].armed <=> d.attempts[j].armed /\ j # d.ws.timer
               /\ a.attempts[j].promise = IF j = d.ws.gate THEN "ok" ELSE d.attempts[j].promise
               /\ a.attempts[j].completed = d.attempts[j].completed
               /\ a.attempts[j].failed = d.attempts[j].failed
               /\ a.attempts[j].served = d.attempts[j].served
               /\ a.attempts[j].ready = d.attempts[j].ready
      BY <2>4, <3>1, AnswerDoes
    <3>4. ws' = a.ws /\ attempts' = a.attempts
      BY <2>5, <2>11 DEF Become
    <3>5. d.ws.gate = ws.gate
      BY <2>9, <3>1
    <3>6. \A j \in Attempts :
            /\ a.attempts[j].armed <=> d.attempts[j].armed /\ j # d.ws.timer
            /\ a.attempts[j].promise = IF j = d.ws.gate THEN "ok" ELSE d.attempts[j].promise
            /\ a.attempts[j].completed = d.attempts[j].completed
            /\ a.attempts[j].failed = d.attempts[j].failed
      BY <3>3
    <3>7. ws' \in Fields /\ attempts' \in [Attempts -> Marks]
      BY <3>3, <3>4 DEF Snapshots
    <3>8. /\ ws'.active /\ ws'.socket = k /\ ws'.handlers = k /\ ws'.gate = None
          /\ attempts'[k].completed /\ attempts'[k].served = ws'.topics
          /\ ws'.topics = ws.topics /\ attempts'[k].ready = "open"
      BY <1>5, <2>9, <3>1, <3>3, <3>4 DEF Mine
    <3>9. \A j \in Attempts :
            /\ ~attempts'[j].armed
            /\ attempts'[j].failed = attempts[j].failed
            /\ j # k => attempts'[j].completed = attempts[j].completed
            /\ attempts'[j].promise = IF j = ws.gate THEN "ok" ELSE attempts[j].promise
      BY <3>4, <3>2, <3>5, <3>6
    <3> QED BY <1>4, <1>5, <2>5, <3>7, <3>8, <3>9 DEF Up
  <2> QED BY <2>10, <2>11
<1>6. CASE ~(Mine(k) /\ ~attempts[k].failed)
  <2>1. ws' = opened.ws /\ attempts' = opened.attempts /\ UNCHANGED told
    BY <1>1, <1>6 DEF OnOpen, Become
  <2>2. ~(ws.active /\ ws.socket = k)
    BY <1>6 DEF IInv, ActiveIsMine, Mine
  <2>3. attempts' \in [Attempts -> Marks] /\ ws' = ws
    BY <1>2, <2>1 DEF Snapshots
  <2>4. \A j \in Attempts : /\ attempts'[j].armed <=> attempts[j].armed
                           /\ attempts'[j].completed = attempts[j].completed
                           /\ attempts'[j].failed = attempts[j].failed
                           /\ attempts'[j].promise = attempts[j].promise
    BY <1>2, <2>1
  <2>5. \A j \in Attempts : j # k => attempts'[j] = attempts[j]
    BY <1>3, <2>1
  <2>6. attempts'[k].ready = "open"
    BY <1>2, <2>1
  <2> QED BY <1>4, <2>1, <2>2, <2>3, <2>5, <2>4, <2>6 DEF Aside
<1> QED BY <1>4, <1>5, <1>6

----------------------------------------------------------------------------
\* Steps that change what the bus asks for, and what the server of the socket in
\* use knows of it.
Asked(topics) ==
  /\ ws' \in Fields /\ attempts' \in [Attempts -> Marks] /\ UNCHANGED told
  /\ ws'.socket = ws.socket /\ ws'.active = ws.active /\ ws'.handlers = ws.handlers
  /\ ws'.gate = ws.gate /\ ws'.timer = ws.timer /\ ws'.topics = topics
  /\ \A j \in Attempts : attempts'[j].armed <=> attempts[j].armed
  /\ \A j \in Attempts : attempts'[j].completed = attempts[j].completed
  /\ \A j \in Attempts : attempts'[j].failed = attempts[j].failed
  /\ \A j \in Attempts : attempts'[j].promise = attempts[j].promise
  /\ \A j \in Attempts : attempts'[j].ready = attempts[j].ready
  /\ ServedExactly'

\* What is asked for keeps the invariant.
LEMMA AskedInv ==
  ASSUME IInv, NEW topics \in SUBSET Topics, Asked(topics), Others', HeardByOwn'
  PROVE  IInv'
<1> USE DEF Asked
<1>1. Tried' = Tried /\ Made' = Made
  BY DEF Tried, Made
<1>2. ws.socket # None => ws.socket \in Attempts
  BY DEF IInv, TypeOK, None, Attempts
<1>3. TypeOK'
  <2>1. \A j \in Attempts : attempts'[j].promise = "pending" <=> ws'.gate = j
    BY DEF IInv, TypeOK
  <2>2. told' \in [by : 0..MaxAttempts, status : {"none", "connected", "disconnected", "error"}]
    BY DEF IInv, TypeOK
  <2> QED BY <2>1, <2>2 DEF TypeOK, Others, Fields, Marks
<1>4. Numbered'
  BY <1>1 DEF IInv, Numbered
<1>5. ActiveIsMine'
  BY <1>2 DEF IInv, ActiveIsMine
<1>6. EndIsTold'
  BY <1>2 DEF IInv, EndIsTold
<1>7. GateIsActive'
  BY <1>2 DEF IInv, GateIsActive
<1>8. CompletedIsOk'
  BY DEF IInv, CompletedIsOk
<1>9. GivenUpIsSilent'
  BY DEF IInv, GivenUpIsSilent, TimersAreLive, Mine
<1> QED BY <1>3, <1>4, <1>5, <1>6, <1>7, <1>8, <1>9 DEF IInv

\* A frame changes what the server of an open socket serves.
LEMMA SendDoes ==
  ASSUME NEW s \in Snapshots, NEW op \in {"subscribe", "unsubscribe"}, NEW t \in Topics,
         NEW f, f = SendFrame(s, op, t)
  PROVE  /\ f \in Snapshots /\ f.ws = s.ws
         /\ \A j \in Attempts : f.attempts[j].armed <=> s.attempts[j].armed
         /\ \A j \in Attempts : f.attempts[j].completed = s.attempts[j].completed
         /\ \A j \in Attempts : f.attempts[j].failed = s.attempts[j].failed
         /\ \A j \in Attempts : f.attempts[j].promise = s.attempts[j].promise
         /\ \A j \in Attempts : f.attempts[j].ready = s.attempts[j].ready
         /\ s.ws.socket # None /\ s.attempts[s.ws.socket].ready = "open" =>
              f.attempts[s.ws.socket].served = After(op, s.attempts[s.ws.socket].served, t)
<1> DEFINE k == s.ws.socket
           served == After(op, s.attempts[k].served, t)
           mark == [s.attempts[k] EXCEPT !.served = served]
<1>1. s.ws \in Fields /\ s.attempts \in [Attempts -> Marks]
  BY DEF Snapshots
<1>2. k \in 0..MaxAttempts
  BY <1>1 DEF Fields
<1>3. CASE k # None /\ s.attempts[k].ready = "open"
  <2>1. k \in Attempts
    BY <1>2, <1>3 DEF None, Attempts
  <2>2. /\ f = [ws |-> f.ws, attempts |-> f.attempts] /\ f.ws = s.ws
        /\ f.attempts = [s.attempts EXCEPT ![k] = mark]
    BY <1>3 DEF SendFrame
  <2>3. s.attempts[k] \in Marks
    BY <1>1, <2>1
  <2>4. served \in SUBSET Topics
    BY <2>3 DEF Marks, After
  <2> HIDE DEF served
  <2>5. mark \in Marks
    BY <2>3, <2>4 DEF Marks
  <2>6. /\ mark.armed <=> s.attempts[k].armed
        /\ mark.completed = s.attempts[k].completed /\ mark.failed = s.attempts[k].failed
        /\ mark.promise = s.attempts[k].promise /\ mark.ready = s.attempts[k].ready
        /\ mark.served = served
    BY <2>3 DEF Marks
  <2> HIDE DEF mark, k
  <2>7. f.attempts[k] = mark /\ \A j \in Attempts : j # k => f.attempts[j] = s.attempts[j]
    BY <1>1, <2>1, <2>2
  <2>8. f.attempts \in [Attempts -> Marks]
    BY <1>1, <2>1, <2>2, <2>5
  <2>9. f \in Snapshots
    BY <1>1, <2>2, <2>8 DEF Snapshots
  <2>10. /\ \A j \in Attempts : f.attempts[j].armed <=> s.attempts[j].armed
         /\ \A j \in Attempts : f.attempts[j].completed = s.attempts[j].completed
         /\ \A j \in Attempts : f.attempts[j].failed = s.attempts[j].failed
         /\ \A j \in Attempts : f.attempts[j].promise = s.attempts[j].promise
         /\ \A j \in Attempts : f.attempts[j].ready = s.attempts[j].ready
    BY <2>6, <2>7
  <2>11. f.attempts[k].served = served
    BY <2>6, <2>7
  <2> QED BY <2>2, <2>9, <2>10, <2>11 DEF k, served
<1>4. CASE ~(k # None /\ s.attempts[k].ready = "open")
  <2>1. f = s
    BY <1>4 DEF SendFrame
  <2> QED BY <1>4, <2>1
<1> QED BY <1>3, <1>4

\* What the bus asks for is remembered.
LEMMA AskingDoes ==
  ASSUME TypeOK, NEW topics \in SUBSET Topics, NEW s, s = Asking(topics)
  PROVE  /\ s \in Snapshots /\ s.attempts = attempts /\ s.ws.topics = topics
         /\ s.ws.socket = ws.socket /\ s.ws.active = ws.active
         /\ s.ws.handlers = ws.handlers /\ s.ws.gate = ws.gate /\ s.ws.timer = ws.timer
<1>1. ws \in Fields /\ attempts \in [Attempts -> Marks]
  BY DEF TypeOK, Fields, Marks
<1>2. /\ s = [ws |-> s.ws, attempts |-> s.attempts]
      /\ s.ws = [ws EXCEPT !.topics = topics] /\ s.attempts = attempts
  BY DEF Asking
<1>3. /\ s.ws \in Fields /\ s.ws.topics = topics
      /\ s.ws.socket = ws.socket /\ s.ws.active = ws.active
      /\ s.ws.handlers = ws.handlers /\ s.ws.gate = ws.gate /\ s.ws.timer = ws.timer
  BY <1>1, <1>2 DEF Fields
<1>4. s \in Snapshots
  BY <1>1, <1>2, <1>3 DEF Snapshots
<1> QED BY <1>2, <1>3, <1>4

\* subscribe and unsubscribe: the server of an open socket is told, and any
\* other socket is told when it opens.
LEMMA FrameIs ==
  ASSUME IInv, NEW t \in Topics, NEW op \in {"subscribe", "unsubscribe"},
         Ask(op, t)
  PROVE  Asked(After(op, ws.topics, t))
<1> DEFINE topics == After(op, ws.topics, t)
<1>1. PICK s : s = Asking(topics)
  OBVIOUS
<1>2. PICK f : f = SendFrame(s, op, t)
  OBVIOUS
<1>3. ws' = f.ws /\ attempts' = f.attempts
  BY <1>1, <1>2 DEF Ask, Become
<1>4. topics \in SUBSET Topics
  BY DEF IInv, TypeOK, After
<1> HIDE DEF topics
<1>5. /\ s \in Snapshots /\ s.attempts = attempts /\ s.ws.topics = topics
      /\ s.ws.socket = ws.socket /\ s.ws.active = ws.active
      /\ s.ws.handlers = ws.handlers /\ s.ws.gate = ws.gate /\ s.ws.timer = ws.timer
  BY <1>1, <1>4, AskingDoes DEF IInv
<1>6. s \in Snapshots
  BY <1>5
<1>7. f \in Snapshots /\ f.ws = s.ws
  BY <1>2, <1>6, SendDoes
<1>8. /\ \A j \in Attempts : f.attempts[j].armed <=> s.attempts[j].armed
      /\ \A j \in Attempts : f.attempts[j].completed = s.attempts[j].completed
      /\ \A j \in Attempts : f.attempts[j].failed = s.attempts[j].failed
      /\ \A j \in Attempts : f.attempts[j].promise = s.attempts[j].promise
      /\ \A j \in Attempts : f.attempts[j].ready = s.attempts[j].ready
  BY <1>2, <1>6, SendDoes
<1>9. s.ws.socket # None /\ s.attempts[s.ws.socket].ready = "open" =>
         f.attempts[s.ws.socket].served = After(op, s.attempts[s.ws.socket].served, t)
  BY <1>2, <1>6, SendDoes
<1>10. /\ \A j \in Attempts : attempts'[j].armed <=> attempts[j].armed
       /\ \A j \in Attempts : attempts'[j].completed = attempts[j].completed
       /\ \A j \in Attempts : attempts'[j].failed = attempts[j].failed
       /\ \A j \in Attempts : attempts'[j].promise = attempts[j].promise
       /\ \A j \in Attempts : attempts'[j].ready = attempts[j].ready
       /\ ws.socket # None /\ attempts[ws.socket].ready = "open" =>
            attempts'[ws.socket].served = After(op, attempts[ws.socket].served, t)
  <2>1. attempts' = f.attempts /\ attempts = s.attempts /\ ws.socket = s.ws.socket
    BY <1>3, <1>5
  <2> QED BY <1>8, <1>9, <2>1
<1>11. ws' \in Fields /\ attempts' \in [Attempts -> Marks]
  BY <1>3, <1>7 DEF Snapshots
<1>12. /\ ws'.topics = topics /\ ws'.socket = ws.socket /\ ws'.active = ws.active
       /\ ws'.handlers = ws.handlers /\ ws'.gate = ws.gate /\ ws'.timer = ws.timer
  BY <1>3, <1>5, <1>7
<1>13. ServedExactly'
  <2> SUFFICES ASSUME ws.active, attempts[ws.socket].ready = "open"
               PROVE  attempts'[ws.socket].served = topics
    <3>1. ws.active => ws.socket \in Attempts
      BY DEF IInv, ActiveIsMine, TypeOK, None, Attempts
    <3>2. ws.active => attempts'[ws.socket].ready = attempts[ws.socket].ready
      BY <1>10, <3>1
    <3> QED BY <1>12, <3>2 DEF ServedExactly
  <2>1. ws.socket # None /\ attempts[ws.socket].served = ws.topics
    BY DEF IInv, ActiveIsMine, ServedExactly
  <2> QED BY <1>10, <2>1 DEF topics
<1>14. UNCHANGED told
  BY DEF Ask, Quietly, Tell
<1> QED BY <1>10, <1>11, <1>12, <1>13, <1>14 DEF Asked, topics

----------------------------------------------------------------------------
\* Steps that leave the sockets alone.
LEMMA SameInv ==
  ASSUME IInv, UNCHANGED <<ws, attempts, told>>, Others', HeardByOwn'
  PROVE  IInv'
<1>1. Numbered' /\ ActiveIsMine' /\ GateIsActive' /\ EndIsTold' /\ CompletedIsOk'
  BY DEF IInv, Numbered, ActiveIsMine, GateIsActive, EndIsTold, CompletedIsOk, Made, Tried
<1>2. ServedExactly' /\ GivenUpIsSilent'
  BY DEF IInv, ServedExactly, GivenUpIsSilent, TimersAreLive, Mine
<1>3. TypeOK'
  BY DEF IInv, TypeOK, Others
<1> QED BY <1>1, <1>2, <1>3 DEF IInv

\* What is handed on goes to the handlers of the start() that opened the socket.
LEMMA HandOnType ==
  ASSUME IInv, NEW k \in Attempts, Mine(k), ws.active, HandOn(k)
  PROVE  /\ heard' \in [of : 0..MaxAttempts, to : 0..MaxAttempts, active : BOOLEAN]
         /\ HeardByOwn'
  BY DEF IInv, TypeOK, Mine, HandOn, HeardByOwn, Attempts

\* A frame is handed on, or its conversion begins.
LEMMA OnMessageInv == ASSUME IInv, NEW k \in Attempts, OnMessage(k) PROVE IInv'
<1>1. moves' \in 0..MaxMoves /\ events' \in 0..MaxEvents
  BY BoundsHold DEF IInv, OnMessage
<1>2. UNCHANGED <<ws, attempts, told, timed>>
  BY DEF OnMessage
<1>3. Others' /\ HeardByOwn'
  <2>1. CASE Mine(k) /\ ws.active /\ HandOn(k) /\ UNCHANGED blobs
    BY <1>1, <1>2, <2>1, HandOnType DEF IInv, TypeOK, Others
  <2>2. CASE blobs' = blobs \cup {k} /\ UNCHANGED heard
    BY <1>1, <1>2, <2>2 DEF IInv, TypeOK, Others, GivenUpIsSilent, HeardByOwn
  <2>3. CASE UNCHANGED <<heard, blobs>>
    BY <1>1, <1>2, <2>3 DEF IInv, TypeOK, Others, GivenUpIsSilent, HeardByOwn
  <2> QED BY <2>1, <2>2, <2>3 DEF OnMessage
<1> QED BY <1>2, <1>3, SameInv

\* A conversion ends.
LEMMA BlobConvertedInv == ASSUME IInv, NEW k \in Attempts, BlobConverted(k) PROVE IInv'
<1>1. UNCHANGED <<ws, attempts, told, timed, moves, events>> /\ blobs' = blobs \ {k}
  BY DEF BlobConverted
<1>2. Others' /\ HeardByOwn'
  <2>1. CASE StillMine(k)
    BY <1>1, <2>1, HandOnType DEF IInv, TypeOK, Others, BlobConverted, StillMine
  <2>2. CASE ~StillMine(k)
    BY <1>1, <2>2 DEF IInv, TypeOK, Others, BlobConverted, GivenUpIsSilent, HeardByOwn
  <2> QED BY <2>1, <2>2
<1> QED BY <1>1, <1>2, SameInv

----------------------------------------------------------------------------
\* Every step keeps the invariant.
LEMMA NextInv == ASSUME IInv, [Next]_vars PROVE IInv'
<1>1. CASE StartShared
  <2>1. UNCHANGED <<ws, attempts, told>> /\ Others' /\ HeardByOwn'
    BY <1>1, OthersSame DEF StartShared, Quietly
  <2> QED BY <2>1, SameInv
<1>2. CASE Start
  BY <1>2, StartInv
<1>3. CASE StartThrows
  BY <1>3, StartThrowsInv
<1>4. CASE Stop
  <2>1. Down("ok", "none") /\ Others' /\ HeardByOwn'
    BY <1>4, StopIs, OthersSame DEF Stop
  <2> QED BY <2>1, DownInv
<1>5. ASSUME NEW t \in Topics, Subscribe(t) PROVE IInv'
  <2> DEFINE topics == After("subscribe", ws.topics, t)
  <2>1. Asked(topics)
    BY <1>5, FrameIs DEF Subscribe
  <2>2. Others' /\ HeardByOwn'
    BY <1>5, OthersSame DEF Subscribe, Ask, Quietly
  <2>3. topics \in SUBSET Topics
    BY DEF IInv, TypeOK, After
  <2> HIDE DEF topics
  <2> QED BY <2>1, <2>2, <2>3, AskedInv
<1>6. ASSUME NEW t \in Topics, Unsubscribe(t) PROVE IInv'
  <2> DEFINE topics == After("unsubscribe", ws.topics, t)
  <2>1. Asked(topics)
    BY <1>6, FrameIs DEF Unsubscribe
  <2>2. Others' /\ HeardByOwn'
    BY <1>6, OthersSame DEF Unsubscribe, Ask, Quietly
  <2>3. topics \in SUBSET Topics
    BY DEF IInv, TypeOK, After
  <2> HIDE DEF topics
  <2> QED BY <2>1, <2>2, <2>3, AskedInv
<1>7. ASSUME NEW k \in Attempts, OnOpen(k) PROVE IInv'
  <2>1. Up(k) \/ Aside(k)
    BY <1>7, OnOpenIs
  <2>2. Others' /\ HeardByOwn'
    BY <1>7, OthersSame DEF OnOpen
  <2> QED BY <2>1, <2>2, UpInv, AsideInv
<1>8. ASSUME NEW k \in Attempts, OnClose(k) PROVE IInv'
  <2>1. Down("failed", "disconnected") \/ Aside(k)
    BY <1>8, OnCloseIs
  <2>2. Others' /\ HeardByOwn'
    BY <1>8, OthersSame DEF OnClose
  <2> QED BY <2>1, <2>2, DownInv, AsideInv
<1>9. ASSUME NEW k \in Attempts, OnError(k) PROVE IInv'
  <2>1. Down("failed", "error") \/ Aside(k)
    BY <1>9, OnErrorIs
  <2>2. Others' /\ HeardByOwn'
    BY <1>9, OthersSame DEF OnError
  <2> QED BY <2>1, <2>2, DownInv, AsideInv
<1>10. ASSUME NEW k \in Attempts, TimeOut(k) PROVE IInv'
  <2>1. Down("failed", "error")
    BY <1>10, TimeOutIs
  <2>2. Others' /\ HeardByOwn'
    BY <1>10, OthersSame DEF TimeOut
  <2> QED BY <2>1, <2>2, DownInv
<1>11. ASSUME NEW k \in Attempts, OnMessage(k) PROVE IInv'
  BY <1>11, OnMessageInv
<1>12. ASSUME NEW k \in Attempts, BlobConverted(k) PROVE IInv'
  BY <1>12, BlobConvertedInv
<1>13. CASE UNCHANGED vars
  <2>1. UNCHANGED <<ws, attempts, told>> /\ Others' /\ HeardByOwn'
    BY <1>13 DEF vars, IInv, TypeOK, Others, GivenUpIsSilent, HeardByOwn
  <2> QED BY <2>1, SameInv
<1> QED
  BY <1>1, <1>2, <1>3, <1>4, <1>5, <1>6, <1>7, <1>8, <1>9, <1>10, <1>11, <1>12, <1>13
  DEF Next

\* The inductive invariant holds of every behaviour.
THEOREM Invariance == Spec => []IInv
<1>1. Init => IInv
  BY InitInv
<1>2. IInv /\ [Next]_vars => IInv'
  BY NextInv
<1> QED BY <1>1, <1>2, PTL DEF Spec

\* The variables keep their types, and the functions of a promise are held just
\* while it is pending (settleConnect, failConnect).
THEOREM TypeCorrect == Spec => []TypeOK
<1>1. IInv => TypeOK
  BY DEF IInv
<1> QED BY <1>1, Invariance, PTL

\* The server serves, on an open socket in use, what the bus asked for and did
\* not take back (the re-subscription of onopen, subscribe and unsubscribe).
THEOREM ServesWhatIsAsked == Spec => []ServedExactly
<1>1. IInv => ServedExactly
  BY DEF IInv
<1> QED BY <1>1, Invariance, PTL

\* A socket that was given up tears nothing down and delivers nothing (the
\* guards of the callbacks, clearConnectTimer and the check after the
\* conversion of a Blob).
THEOREM SilentWhenGivenUp == Spec => []GivenUpIsSilent
<1>1. IInv => GivenUpIsSilent
  BY DEF IInv
<1> QED BY <1>1, Invariance, PTL

----------------------------------------------------------------------------
\* The transport is the link of the bus.  Its start() is pending just while
\* the functions of a promise are held, and these are those of the last one.
LEMMA DialIs ==
  ASSUME IInv
  PROVE  /\ Linked.dial = "pending" <=> ws.gate # None
         /\ ws.gate # None => ws.gate = Made
         /\ Made # 0 => Made \in Attempts
<1>1. Linked.dial = IF Made = 0 THEN "ok" ELSE attempts[Made].promise
  BY DEF Linked
<1>2. ws.gate # None => ws.gate = Made /\ ws.gate \in Attempts
  BY DEF IInv, GateIsActive, Numbered, TypeOK, None, Attempts
<1>3. Made # 0 => Made \in Attempts
  <2>1. Made \in Nat /\ 1..Made \subseteq Attempts
    BY DEF IInv, Numbered, Tried
  <2> QED BY <2>1
<1>4. Made # 0 => (attempts[Made].promise = "pending" <=> ws.gate = Made)
  BY <1>3 DEF IInv, TypeOK
<1> QED BY <1>1, <1>2, <1>3, <1>4 DEF None, Attempts

\* The promises of a step settle the link's as they settle the one that is held.
LEMMA DialAnswered ==
  ASSUME IInv, NEW result \in {"ok", "failed"},
         \A j \in Attempts : attempts'[j].promise = IF j = ws.gate THEN result
                                                   ELSE attempts[j].promise
  PROVE  Linked.dial' = IF Linked.dial = "pending" THEN result ELSE Linked.dial
<1>1. Made' = Made
  BY SameNumber DEF IInv
<1>2. /\ Linked.dial = IF Made = 0 THEN "ok" ELSE attempts[Made].promise
      /\ Linked.dial' = IF Made = 0 THEN "ok" ELSE attempts'[Made].promise
  BY <1>1 DEF Linked
<1> QED BY <1>2, DialIs DEF None

\* The end of a connection, in the terms of the link.
LEMMA DownLink ==
  ASSUME IInv, NEW result \in {"ok", "failed"}, NEW status, Down(result, status)
  PROVE  /\ Linked' = [kind |-> "websocket", live |-> FALSE, phase |-> "closed",
                       dial |-> IF Linked.dial = "pending" THEN result ELSE Linked.dial,
                       subs |-> ws'.topics]
         /\ told' = [told EXCEPT !.status = status]
<1>1. Linked.dial' = IF Linked.dial = "pending" THEN result ELSE Linked.dial
  BY DialAnswered DEF Down
<1>2. ws'.active = FALSE
  BY DEF Down, Fields
<1>3. Linked' = [kind |-> "websocket", live |-> FALSE, phase |-> "closed",
                 dial |-> Linked.dial', subs |-> ws'.topics]
  BY <1>2 DEF Linked, Phase
<1>4. told' = [told EXCEPT !.status = status]
  BY DEF Down, IInv, TypeOK
<1> QED BY <1>1, <1>3, <1>4

\* A step that tells the link nothing.
LEMMA AsideLink ==
  ASSUME IInv, NEW k \in Attempts, Aside(k) PROVE UNCHANGED <<Linked, told>>
<1>1. ws' = ws /\ UNCHANGED told
  BY DEF Aside
<1>2. \A j \in Attempts : attempts'[j].promise = attempts[j].promise
  BY DEF Aside
<1>3. Made' = Made
  BY <1>2 DEF Made
<1>4. Linked.dial' = Linked.dial
  BY <1>2, <1>3, DialIs DEF Linked
<1>5. Phase' = Phase
  <2>1. CASE ws.active
    <3>1. ws.socket \in Attempts /\ ws.socket # k
      BY <2>1 DEF Aside, IInv, ActiveIsMine, TypeOK, None, Attempts
    <3>2. attempts'[ws.socket] = attempts[ws.socket]
      BY <3>1 DEF Aside
    <3> QED BY <1>1, <3>2 DEF Phase
  <2>2. CASE ~ws.active
    BY <1>1, <2>2 DEF Phase
  <2> QED BY <2>1, <2>2
<1>6. Linked' = [kind |-> "websocket", live |-> ws.active, phase |-> Phase,
                 dial |-> Linked.dial, subs |-> ws.topics]
  BY <1>1, <1>4, <1>5 DEF Linked
<1>7. Linked = [kind |-> "websocket", live |-> ws.active, phase |-> Phase,
                dial |-> Linked.dial, subs |-> ws.topics]
  BY DEF Linked
<1> QED BY <1>1, <1>6, <1>7

\* What the operations of the link do to the record of a websocket.
LEMMA LinkOps ==
  /\ Plug!Closed(Linked) = [kind |-> "websocket", live |-> FALSE, phase |-> "closed",
                            dial |-> Plug!Answer(Linked, "failed"), subs |-> ws.topics]
  /\ Plug!Broken(Linked) = [kind |-> "websocket", live |-> FALSE, phase |-> "closed",
                            dial |-> Plug!Answer(Linked, "failed"), subs |-> ws.topics]
  /\ Plug!Opened(Linked) = [kind |-> "websocket", live |-> ws.active, phase |-> "open",
                            dial |-> Plug!Answer(Linked, "ok"), subs |-> ws.topics]
  /\ Plug!Stopped(Linked) = [kind |-> "websocket", live |-> FALSE, phase |-> "closed",
                             dial |-> Plug!Answer(Linked, "ok"), subs |-> {}]
  /\ [Linked EXCEPT !.live = TRUE, !.phase = "open"] =
       [kind |-> "websocket", live |-> TRUE, phase |-> "open", dial |-> Linked.dial,
        subs |-> ws.topics]
<1>1. PICK live, phase, dial, subs :
        /\ Linked = [kind |-> "websocket", live |-> live, phase |-> phase, dial |-> dial,
                     subs |-> subs]
        /\ live = ws.active /\ subs = ws.topics
  BY DEF Linked
<1>2. PICK l : l = Linked
  OBVIOUS
<1>3. PICK failed : failed = Plug!Answer(l, "failed")
  OBVIOUS
<1>4. PICK ok : ok = Plug!Answer(l, "ok")
  OBVIOUS
<1>5. l = [kind |-> "websocket", live |-> live, phase |-> phase, dial |-> dial, subs |-> subs]
  BY <1>1, <1>2
<1>6. l.kind = "websocket" /\ l.dial = dial /\ l.subs = subs
  BY <1>5
<1>7. (l.live /\ l.kind = "worker") = FALSE
  BY <1>6
<1>8. Plug!Closed(l) = [kind |-> "websocket", live |-> FALSE, phase |-> "closed",
                        dial |-> failed, subs |-> subs]
  <2>1. Plug!Closed(l) = [l EXCEPT !.live = FALSE, !.phase = "closed", !.dial = failed]
    BY <1>3, <1>7 DEF Plug!Closed
  <2> QED BY <1>5, <2>1
<1>9. Plug!Broken(l) = [kind |-> "websocket", live |-> FALSE, phase |-> "closed",
                        dial |-> failed, subs |-> subs]
  <2>1. Plug!Broken(l) = [l EXCEPT !.live = FALSE, !.phase = "closed", !.dial = failed,
                                   !.subs = subs]
    BY <1>3, <1>6 DEF Plug!Broken
  <2> QED BY <1>5, <2>1
<1>10. Plug!Opened(l) = [kind |-> "websocket", live |-> live, phase |-> "open", dial |-> ok,
                         subs |-> subs]
  <2>1. Plug!Opened(l) = [l EXCEPT !.phase = "open", !.dial = ok]
    BY <1>4 DEF Plug!Opened
  <2> QED BY <1>5, <2>1
<1>11. Plug!Stopped(l) = [kind |-> "websocket", live |-> FALSE, phase |-> "closed",
                          dial |-> ok, subs |-> {}]
  <2>1. Plug!Stopped(l) = [Plug!Unplugged("websocket") EXCEPT !.dial = ok]
    BY <1>4, <1>6 DEF Plug!Stopped, Plug!Answer
  <2> QED BY <2>1 DEF Plug!Unplugged
<1>12. [l EXCEPT !.live = TRUE, !.phase = "open"] =
         [kind |-> "websocket", live |-> TRUE, phase |-> "open", dial |-> dial, subs |-> subs]
  <2>1. PICK m : m = [l EXCEPT !.live = TRUE, !.phase = "open"]
    OBVIOUS
  <2>2. m = [kind |-> "websocket", live |-> TRUE, phase |-> "open", dial |-> dial,
             subs |-> subs]
    BY <1>5, <2>1
  <2> QED BY <2>1, <2>2
<1>13. live = ws.active /\ subs = ws.topics /\ Linked.dial = dial
  BY <1>1
<1> QED BY <1>2, <1>3, <1>4, <1>8, <1>9, <1>10, <1>11, <1>12, <1>13

\* The end of the socket in use closes or breaks the link.
LEMMA EndLink ==
  ASSUME IInv, ws.active, ws'.topics = ws.topics,
         Down("failed", "disconnected") \/ Down("failed", "error")
  PROVE  Plug!Close \/ Plug!Break
<1> DEFINE dial == IF Linked.dial = "pending" THEN "failed" ELSE Linked.dial
<1>1. /\ Linked.live /\ Linked.kind = "websocket" /\ Linked.phase # "closed"
      /\ Linked.subs = ws.topics
      /\ Linked = [kind |-> "websocket", live |-> Linked.live, phase |-> Linked.phase,
                   dial |-> Linked.dial, subs |-> ws.topics]
  BY DEF Linked, Phase
<1>2. Linked' = [kind |-> "websocket", live |-> FALSE, phase |-> "closed", dial |-> dial,
                 subs |-> ws.topics]
  BY DownLink
<1>3. dial = Plug!Answer(Linked, "failed")
  BY DEF Plug!Answer
<1> HIDE DEF dial
<1>4. Linked' = Plug!Closed(Linked) /\ Linked' = Plug!Broken(Linked)
  BY <1>1, <1>2, <1>3, LinkOps
<1>5. CASE Down("failed", "disconnected")
  <2>1. Plug!Tell("disconnected")
    BY <1>5, DownLink DEF Plug!Tell
  <2> QED BY <1>1, <1>4, <2>1 DEF Plug!Close, Plug!CanClose
<1>6. CASE Down("failed", "error")
  <2>1. Plug!Tell("error")
    BY <1>6, DownLink DEF Plug!Tell
  <2> QED BY <1>1, <1>4, <2>1 DEF Plug!Break, Plug!CanBreak
<1> QED BY <1>5, <1>6

\* stop() unplugs the link.
LEMMA StopLink == ASSUME IInv, Stop PROVE Plug!Stop
<1>1. Down("ok", "none") /\ ws'.topics = {}
  BY StopIs
<1> DEFINE dial == IF Linked.dial = "pending" THEN "ok" ELSE Linked.dial
<1>2. Linked' = [kind |-> "websocket", live |-> FALSE, phase |-> "closed", dial |-> dial,
                 subs |-> {}] /\ told' = [told EXCEPT !.status = "none"]
  BY <1>1, DownLink
<1>3. /\ dial = Plug!Answer(Linked, "ok")
      /\ Linked = [kind |-> "websocket", live |-> ws.active, phase |-> Phase,
                   dial |-> Linked.dial, subs |-> ws.topics]
  BY DEF Linked, Plug!Answer
<1> HIDE DEF dial
<1>4. Plug!Stopped(Linked) = [kind |-> "websocket", live |-> FALSE, phase |-> "closed",
                              dial |-> dial, subs |-> {}]
  BY <1>3, LinkOps
<1> QED BY <1>2, <1>4 DEF Plug!Stop, Plug!Tell

\* The handshake opens the link; a socket that opens once more opens it again.
LEMMA OpenLink ==
  ASSUME IInv, NEW k \in Attempts, CanBecomeOpen(k), Up(k)
  PROVE  Plug!Open \/ Plug!Reopen
<1> DEFINE dial == IF Linked.dial = "pending" THEN "ok" ELSE Linked.dial
<1>1. Linked.dial' = dial
  BY DialAnswered DEF Up
<1>2. ws'.active = TRUE /\ ws'.socket = k /\ attempts'[k].ready = "open" /\ ws'.topics = ws.topics
  BY DEF Up, Fields
<1>3. Linked' = [kind |-> "websocket", live |-> TRUE, phase |-> "open", dial |-> Linked.dial',
                 subs |-> ws.topics]
  BY <1>2 DEF Linked, Phase
<1>4. ws.socket = k /\ k # None /\ k = Made /\ ~attempts[k].failed
  BY DEF IInv, Numbered, Up, Mine, None, Attempts
<1>5. told' = [told EXCEPT !.status = "connected"]
  BY <1>4 DEF IInv, Numbered, TypeOK, Up
<1>6. Linked = [kind |-> "websocket", live |-> ws.active, phase |-> Phase,
                dial |-> Linked.dial, subs |-> ws.topics]
  BY DEF Linked
<1>7. CASE ws.active
  <2>1. Phase = "dialing"
    BY <1>4, <1>7 DEF CanBecomeOpen, Phase
  <2>2. Linked.live /\ Linked.phase = "dialing" /\ Linked.kind = "websocket"
    BY <1>7, <2>1 DEF Linked
  <2>3. dial = Plug!Answer(Linked, "ok")
    BY DEF Plug!Answer
  <2> HIDE DEF dial
  <2>4. ws.active = TRUE
    BY <1>7 DEF IInv, TypeOK
  <2>5. Plug!Opened(Linked) = [kind |-> "websocket", live |-> ws.active, phase |-> "open",
                               dial |-> Plug!Answer(Linked, "ok"), subs |-> ws.topics]
    BY <1>6, LinkOps
  <2>6. Linked' = Plug!Opened(Linked)
    BY <1>1, <1>3, <2>3, <2>4, <2>5
  <2> QED BY <1>5, <2>2, <2>6 DEF Plug!Open, Plug!CanOpen, Plug!Tell
<1>8. CASE ~ws.active
  <2>1. /\ attempts[k].completed /\ attempts[k].ready # "connecting"
        /\ told.status \in {"disconnected", "error"}
    BY <1>4, <1>8 DEF IInv, EndIsTold
  <2>2. Reopens
    BY <2>1 DEF CanBecomeOpen
  <2>3. Linked.dial = "ok"
    BY <1>4, <2>1 DEF Linked, IInv, CompletedIsOk, None
  <2>4. ~Linked.live
    BY <1>8 DEF Linked
  <2>5. Linked' = [Linked EXCEPT !.live = TRUE, !.phase = "open"]
    <3>1. Linked.dial' = Linked.dial
      BY <1>1, <2>3
    <3> HIDE DEF dial
    <3>2. [Linked EXCEPT !.live = TRUE, !.phase = "open"] =
            [kind |-> "websocket", live |-> TRUE, phase |-> "open", dial |-> Linked.dial,
             subs |-> ws.topics]
      BY <1>6, LinkOps
    <3> QED BY <1>3, <3>1, <3>2
  <2> QED BY <1>5, <2>1, <2>2, <2>3, <2>4, <2>5 DEF Plug!Reopen, Plug!Tell
<1> QED BY <1>7, <1>8

\* subscribe and unsubscribe are the link's.
LEMMA AskLink ==
  ASSUME IInv, NEW topics, Asked(topics)
  PROVE  Linked' = [Linked EXCEPT !.subs = topics] /\ UNCHANGED told
<1>1. Made' = Made
  BY DEF Asked, Made
<1>2. Linked.dial' = Linked.dial
  BY <1>1, DialIs DEF Asked, Linked
<1>3. Phase' = Phase
  <2>1. ws.active => ws.socket \in Attempts
    BY DEF IInv, ActiveIsMine, TypeOK, None, Attempts
  <2> QED BY <2>1 DEF Asked, Phase
<1>4. Linked' = [kind |-> "websocket", live |-> ws.active, phase |-> Phase,
                 dial |-> Linked.dial, subs |-> topics]
  BY <1>2, <1>3 DEF Asked, Linked
<1>5. Linked = [kind |-> "websocket", live |-> ws.active, phase |-> Phase,
                dial |-> Linked.dial, subs |-> ws.topics]
  BY DEF Linked
<1> QED BY <1>4, <1>5 DEF Asked

\* A start() that finds no active socket plugs the link in, or fails to.
LEMMA StartLink == ASSUME IInv, Start \/ StartThrows PROVE Plug!Start
<1> DEFINE k == Made + 1
           dialing == [Untried EXCEPT !.ready = "connecting", !.promise = "pending",
                                      !.armed = timed]
<1>1. /\ ~ws.active /\ k \in Attempts /\ told.by = Made
      /\ ws \in Fields /\ attempts \in [Attempts -> Marks]
  BY DEF Start, StartThrows, IInv, Numbered, TypeOK, Fields, Marks
<1>2. /\ Linked.live = ws.active /\ Linked.kind = "websocket"
      /\ Linked = [kind |-> "websocket", live |-> ws.active, phase |-> "closed",
                   dial |-> Linked.dial, subs |-> ws.topics]
  BY <1>1 DEF Linked, Phase
<1>3. Plug!Started(Linked) =
        {[Linked EXCEPT !.live = TRUE, !.phase = "dialing", !.dial = "pending"],
         [Linked EXCEPT !.dial = "ok"]}
  BY <1>1, <1>2 DEF Plug!Started
<1>4. CASE Start
  <2>1. /\ attempts' = [attempts EXCEPT ![k] = dialing]
        /\ ws' = [ws EXCEPT !.socket = k, !.active = TRUE, !.handlers = k, !.gate = k,
                            !.timer = IF timed THEN k ELSE @]
        /\ told' = [by |-> k, status |-> "none"]
    BY <1>4 DEF Start, Tell
  <2>2. dialing.promise = "pending" /\ dialing.ready = "connecting"
    BY DEF Untried
  <2>3. dialing \in Marks
    BY DEF Untried, Marks, States, IInv, TypeOK
  <2> HIDE DEF dialing
  <2>4. attempts' \in [Attempts -> Marks] /\ attempts'[k] = dialing
        /\ \A j \in Attempts : j # k => attempts'[j] = attempts[j]
    BY <1>1, <2>1, <2>3
  <2>5. Made' = k
    BY <1>1, <2>2, <2>4, NextNumber DEF IInv
  <2> HIDE DEF k
  <2>6. ws'.active = TRUE /\ ws'.socket = k /\ ws'.topics = ws.topics
    BY <1>1, <2>1 DEF Fields
  <2>7. attempts'[k].ready = "connecting" /\ attempts'[k].promise = "pending"
    BY <2>2, <2>4
  <2>8. Linked' = [kind |-> "websocket", live |-> TRUE, phase |-> "dialing",
                   dial |-> "pending", subs |-> ws.topics]
    <3>1. k # 0
      BY <1>1 DEF Attempts
    <3> QED BY <2>5, <2>6, <2>7, <3>1 DEF Linked, Phase
  <2>9. Linked' = [Linked EXCEPT !.live = TRUE, !.phase = "dialing", !.dial = "pending"]
    <3>1. PICK l, live, dial, subs :
            /\ l = [kind |-> "websocket", live |-> live, phase |-> "closed", dial |-> dial,
                    subs |-> subs]
            /\ l = Linked /\ subs = ws.topics
      BY <1>2
    <3>2. [l EXCEPT !.live = TRUE, !.phase = "dialing", !.dial = "pending"]
            = [kind |-> "websocket", live |-> TRUE, phase |-> "dialing", dial |-> "pending",
               subs |-> subs]
      <4>1. PICK m : m = [l EXCEPT !.live = TRUE, !.phase = "dialing", !.dial = "pending"]
        OBVIOUS
      <4>2. l = [kind |-> "websocket", live |-> live, phase |-> "closed", dial |-> dial,
                 subs |-> subs]
        BY <3>1
      <4>3. m = [kind |-> "websocket", live |-> TRUE, phase |-> "dialing",
                 dial |-> "pending", subs |-> subs]
        BY <4>1, <4>2
      <4> QED BY <4>1, <4>3
    <3> QED BY <2>8, <3>1, <3>2
  <2>10. told' = [by |-> told.by + 1, status |-> "none"]
    BY <1>1, <2>1 DEF k
  <2>11. Linked' \in Plug!Started(Linked)
    BY <1>3, <2>9
  <2>12. "none" \in (IF Linked'.live THEN {"none", "connecting"} ELSE {"none", "error"})
    OBVIOUS
  <2> QED BY <1>1, <1>2, <2>10, <2>11, <2>12 DEF Plug!Start
<1>5. CASE StartThrows
  <2>1. /\ attempts' = [attempts EXCEPT ![k].promise = "ok"]
        /\ ws' = [ws EXCEPT !.socket = None, !.handlers = k]
        /\ told' = [by |-> k, status |-> "error"]
    BY <1>5 DEF StartThrows, Tell
  <2>2. [attempts[k] EXCEPT !.promise = "ok"] \in Marks
    BY <1>1 DEF Marks
  <2>3. attempts' \in [Attempts -> Marks] /\ attempts'[k] = [attempts[k] EXCEPT !.promise = "ok"]
        /\ \A j \in Attempts : j # k => attempts'[j] = attempts[j]
    BY <1>1, <2>1, <2>2
  <2>4. attempts'[k].promise = "ok"
    BY <1>1, <2>3 DEF Marks
  <2>5. Made' = k
    BY <1>1, <2>3, <2>4, NextNumber DEF IInv
  <2>6. k # 0
    BY <1>1 DEF Attempts
  <2> HIDE DEF k
  <2>7. ws'.active = ws.active /\ ws'.topics = ws.topics
    BY <1>1, <2>1 DEF Fields
  <2>8. Linked' = [kind |-> "websocket", live |-> ws.active, phase |-> "closed", dial |-> "ok",
                   subs |-> ws.topics]
    BY <1>1, <2>4, <2>5, <2>6, <2>7 DEF Linked, Phase
  <2>9. Linked' = [Linked EXCEPT !.dial = "ok"]
    <3>1. PICK l, live, dial, subs :
            /\ l = [kind |-> "websocket", live |-> live, phase |-> "closed", dial |-> dial,
                    subs |-> subs]
            /\ l = Linked /\ live = ws.active /\ subs = ws.topics
      BY <1>2
    <3>2. [l EXCEPT !.dial = "ok"] = [kind |-> "websocket", live |-> live, phase |-> "closed",
                                      dial |-> "ok", subs |-> subs]
      BY <3>1
    <3> QED BY <2>8, <3>1, <3>2
  <2>10. told' = [by |-> told.by + 1, status |-> "error"]
    BY <1>1, <2>1 DEF k
  <2>11. Linked' \in Plug!Started(Linked)
    BY <1>3, <2>9
  <2>12. Linked'.live = ws.active
    BY <2>8
  <2>13. "error" \in (IF Linked'.live THEN {"none", "connecting"} ELSE {"none", "error"})
    BY <1>1, <2>12
  <2> QED BY <1>1, <1>2, <2>10, <2>11, <2>13 DEF Plug!Start
<1> QED BY <1>4, <1>5

\* subscribe and unsubscribe, in the terms of the link.
LEMMA SubsLink ==
  ASSUME IInv, NEW t \in Topics, Subscribe(t) \/ Unsubscribe(t)
  PROVE  Plug!Subscribe(t) \/ Plug!Unsubscribe(t)
<1>1. Linked.kind = "websocket" /\ Linked.subs = ws.topics
  BY DEF Linked
<1>2. CASE Subscribe(t)
  <2>1. Asked(ws.topics \cup {t})
    BY <1>2, FrameIs DEF Subscribe, After
  <2>2. Linked' = [Linked EXCEPT !.subs = ws.topics \cup {t}] /\ UNCHANGED told
    BY <2>1, AskLink
  <2>3. Plug!Subscribed(Linked, {t}) = [Linked EXCEPT !.subs = ws.topics \cup {t}]
    BY <1>1 DEF Plug!Subscribed
  <2> QED BY <2>2, <2>3 DEF Plug!Subscribe
<1>3. CASE Unsubscribe(t)
  <2>1. Asked(ws.topics \ {t})
    BY <1>3, FrameIs DEF Unsubscribe, After
  <2>2. Linked' = [Linked EXCEPT !.subs = ws.topics \ {t}] /\ UNCHANGED told
    BY <2>1, AskLink
  <2>3. Plug!Unsubscribed(Linked, {t}) = [Linked EXCEPT !.subs = ws.topics \ {t}]
    BY <1>1 DEF Plug!Unsubscribed
  <2> QED BY <2>2, <2>3 DEF Plug!Unsubscribe
<1> QED BY <1>2, <1>3

\* Each step of the transport is a step of the link, or none.
LEMMA StepLink == ASSUME IInv, [Next]_vars PROVE [Plug!Next]_(Plug!linkVars)
<1>1. CASE UNCHANGED <<ws, attempts, told>>
  <2>1. UNCHANGED <<Linked, told>>
    BY <1>1 DEF Linked, Phase, Made
  <2> QED BY <2>1 DEF Plug!linkVars
<1>2. ASSUME NEW k \in Attempts, Aside(k) PROVE UNCHANGED <<Linked, told>>
  BY <1>2, AsideLink
<1>3. CASE Start \/ StartThrows
  BY <1>3, StartLink DEF Plug!Next
<1>4. CASE Stop
  BY <1>4, StopLink DEF Plug!Next
<1>5. ASSUME NEW t \in Topics, Subscribe(t) \/ Unsubscribe(t)
      PROVE  [Plug!Next]_(Plug!linkVars)
  BY <1>5, SubsLink DEF Plug!Next
<1>6. ASSUME NEW k \in Attempts, OnOpen(k) PROVE [Plug!Next]_(Plug!linkVars)
  BY <1>2, <1>6, OnOpenIs, OpenLink DEF Plug!Next, Plug!linkVars
<1>7. ASSUME NEW k \in Attempts, OnClose(k) PROVE [Plug!Next]_(Plug!linkVars)
  BY <1>2, <1>7, OnCloseIs, EndLink DEF Plug!Next, Plug!linkVars
<1>8. ASSUME NEW k \in Attempts, OnError(k) PROVE [Plug!Next]_(Plug!linkVars)
  BY <1>2, <1>8, OnErrorIs, EndLink DEF Plug!Next, Plug!linkVars
<1>9. ASSUME NEW k \in Attempts, TimeOut(k) PROVE [Plug!Next]_(Plug!linkVars)
  BY <1>9, TimeOutIs, EndLink DEF Plug!Next, Plug!linkVars
<1>10. CASE StartShared
  BY <1>1, <1>10 DEF StartShared, Quietly
<1>11. ASSUME NEW k \in Attempts, OnMessage(k) \/ BlobConverted(k)
       PROVE  [Plug!Next]_(Plug!linkVars)
  BY <1>1, <1>11 DEF OnMessage, BlobConverted
<1>12. CASE UNCHANGED vars
  BY <1>1, <1>12 DEF vars
<1> QED
  BY <1>3, <1>4, <1>5, <1>6, <1>7, <1>8, <1>9, <1>10, <1>11, <1>12 DEF Next

\* The transport implements the link module DataBus assumes of a websocket: a
\* status is reported to the handlers of the last start() only, and each status
\* for a change of the link it stands for.
THEOREM SocketIsLink == Spec => ImplementsLink
<1>1. Init => Plug!Init
  <2> SUFFICES ASSUME Init PROVE Plug!Init
    OBVIOUS
  <2>1. Made = 0
    <3>1. Tried = 1..0
      BY DEF Init, Tried, Untried
    <3> QED BY <3>1, Counted DEF Made, Tried
  <2>2. Linked = Plug!Unplugged("websocket")
    BY <2>1 DEF Init, Linked, Phase, Plug!Unplugged
  <2> QED BY <2>2 DEF Init, Plug!Init
<1>2. IInv /\ [Next]_vars => [Plug!Next]_(Plug!linkVars)
  BY StepLink
<1> QED BY <1>1, <1>2, Invariance, PTL DEF Spec, ImplementsLink, Plug!Spec
=============================================================================
