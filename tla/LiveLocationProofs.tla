------------------------- MODULE LiveLocationProofs -------------------------
(***************************************************************************)
(* What TLAPS proves of LiveLocation for every value of the constants: any *)
(* number of people, positions, updates, removals and searches.            *)
(***************************************************************************)
EXTENDS LiveLocation, TLAPS

Kind == {NULL, "put", "drop", "removal", "search"}
Phase == {"idle", "arrived", "read", "touching", "settled", "found", "audited", "deleted", "missed", "started",
          "placed", "done", "failed"}
Place == [at : Places \cup {NULL}, live : BOOLEAN]
Card == [user : Accounts, place : Place]

\* The local state of a request.
State ==
  [kind : Kind, phase : Phase, user : Accounts \cup {NULL}, at : Places \cup {NULL},
   current : Ubicacion \cup {NULL}, now : Nat, updated : BOOLEAN, answer : Nat \cup {NULL}, since : Int,
   origin : Place \cup {NULL}, shown : SUBSET Card]

\* The types, as TypeOK states them and with every request a record.
Types_ ==
  /\ clock \in 0..MaxTime
  /\ activo \in [Accounts -> BOOLEAN]
  /\ ubicacion \in [Accounts -> Ubicacion \cup {NULL}]
  /\ auditoria \subseteq Requests
  /\ after \in [Requests -> SUBSET Requests]
  /\ request \in [Requests -> State]

-----------------------------------------------------------------------------
(* How a step changes the request that takes it                             *)

Kept(s, n) == n \in State /\ n.kind = s.kind /\ n.user = s.user /\ n.at = s.at
KeptPut(s, n) == n.current = s.current /\ n.now = s.now /\ n.updated = s.updated /\ n.answer = s.answer
KeptSearch(s, n) == n.origin = s.origin /\ n.shown = s.shown

LEMMA PhaseOnly ==
  ASSUME NEW s \in State, NEW p \in Phase, NEW n, n = [s EXCEPT !.phase = p]
  PROVE  Kept(s, n) /\ KeptPut(s, n) /\ KeptSearch(s, n) /\ n.phase = p
BY DEF State, Kept, KeptPut, KeptSearch

LEMMA MakeState ==
  ASSUME NEW kind \in Kind, NEW phase \in Phase, NEW user \in Accounts \cup {NULL}, NEW at \in Places \cup {NULL},
         NEW current \in Ubicacion \cup {NULL}, NEW now \in Nat, NEW updated \in BOOLEAN,
         NEW answer \in Nat \cup {NULL}, NEW since \in Int, NEW origin \in Place \cup {NULL}, NEW shown \in SUBSET Card
  PROVE  [kind |-> kind, phase |-> phase, user |-> user, at |-> at, current |-> current, now |-> now,
          updated |-> updated, answer |-> answer, since |-> since, origin |-> origin, shown |-> shown] \in State
BY DEF State

LEMMA Empties ==
  /\ NULL \in Kind /\ NULL \in Accounts \cup {NULL} /\ NULL \in Places \cup {NULL} /\ NULL \in Ubicacion \cup {NULL}
  /\ NULL \in Nat \cup {NULL} /\ NULL \in Place \cup {NULL} /\ {} \in SUBSET Card /\ 0 \in Nat /\ 0 \in Int
  /\ FALSE \in BOOLEAN /\ "idle" \in Phase /\ "arrived" \in Phase /\ "failed" \in Phase
BY DEF Kind, Phase

LEMMA IdleState == Idle \in State
BY Empties, MakeState, Zenon DEF Idle

\* A request that arrives was idle.
Made(n, kind, u, at) ==
  n = [kind |-> kind, phase |-> "arrived", user |-> u, at |-> at, current |-> NULL, now |-> 0, updated |-> FALSE,
       answer |-> NULL, since |-> 0, origin |-> NULL, shown |-> {}]

Arrived(n, kind, u, at) ==
  /\ n \in State /\ n.kind = kind /\ n.phase = "arrived" /\ n.user = u /\ n.at = at
  /\ n.current = NULL /\ n.updated = FALSE /\ n.answer = NULL /\ n.origin = NULL /\ n.shown = {}

LEMMA MadeState ==
  ASSUME NEW kind \in Kind, NEW u \in Accounts, NEW at \in Places \cup {NULL}, NEW n, Made(n, kind, u, at)
  PROVE  n \in State
BY Empties, MakeState, Zenon DEF Made

LEMMA MadeFields ==
  ASSUME NEW kind, NEW u, NEW at, NEW n, Made(n, kind, u, at)
  PROVE  /\ n.kind = kind /\ n.phase = "arrived" /\ n.user = u /\ n.at = at /\ n.current = NULL /\ n.updated = FALSE
         /\ n.answer = NULL /\ n.origin = NULL /\ n.shown = {}
BY DEF Made

LEMMA MadeArrives ==
  ASSUME NEW kind \in Kind, NEW u \in Accounts, NEW at \in Places \cup {NULL}, NEW n, Made(n, kind, u, at)
  PROVE  Arrived(n, kind, u, at)
<1>1. n \in State
  BY MadeState
<1>2. /\ n.kind = kind /\ n.phase = "arrived" /\ n.user = u /\ n.at = at /\ n.current = NULL /\ n.updated = FALSE
      /\ n.answer = NULL /\ n.origin = NULL /\ n.shown = {}
  BY MadeFields
<1> QED
  BY <1>1, <1>2 DEF Arrived

Entry(n, kind, u, at) == n = [Idle EXCEPT !.kind = kind, !.phase = "arrived", !.user = u, !.at = at]

LEMMA EntryMade ==
  ASSUME NEW kind, NEW u, NEW at, NEW n, Entry(n, kind, u, at)
  PROVE  Made(n, kind, u, at)
BY DEF Idle, Made, Entry

LEMMA IdleArrives ==
  ASSUME NEW kind \in Kind, NEW u \in Accounts, NEW at \in Places \cup {NULL}, NEW n, Entry(n, kind, u, at)
  PROVE  Arrived(n, kind, u, at)
BY EntryMade, MadeArrives, Zenon

\* One that ends without success is forgotten, but for what it saved.
Refused(s, n) ==
  /\ n \in State /\ n.phase = "failed"
  /\ s.updated => Kept(s, n) /\ KeptPut(s, n) /\ KeptSearch(s, n)
  /\ ~s.updated =>
       /\ n.kind = NULL /\ n.user = NULL /\ n.updated = FALSE /\ n.answer = NULL /\ n.origin = NULL /\ n.shown = {}

LEMMA RefusedState ==
  ASSUME NEW s \in State, NEW n,
         n = IF s.updated THEN [s EXCEPT !.phase = "failed"] ELSE [Idle EXCEPT !.phase = "failed"]
  PROVE  Refused(s, n)
<1>1. CASE s.updated
  <2>1. PICK p \in Phase : p = "failed"
    BY DEF Phase
  <2>2. n = [s EXCEPT !.phase = p]
    BY <1>1, <2>1
  <2>3. Kept(s, n) /\ KeptPut(s, n) /\ KeptSearch(s, n) /\ n.phase = p
    BY <2>2, PhaseOnly
  <2> QED
    BY <1>1, <2>1, <2>3 DEF Refused, Kept
<1>2. CASE ~s.updated
  <2>1. n = [Idle EXCEPT !.phase = "failed"]
    BY <1>2
  <2>2. n = [kind |-> NULL, phase |-> "failed", user |-> NULL, at |-> NULL, current |-> NULL, now |-> 0,
             updated |-> FALSE, answer |-> NULL, since |-> 0, origin |-> NULL, shown |-> {}]
    BY <2>1 DEF Idle
  <2>3. [kind |-> NULL, phase |-> "failed", user |-> NULL, at |-> NULL, current |-> NULL, now |-> 0,
         updated |-> FALSE, answer |-> NULL, since |-> 0, origin |-> NULL, shown |-> {}] \in State
    BY Empties, MakeState, Zenon
  <2>4. /\ n.kind = NULL /\ n.phase = "failed" /\ n.user = NULL /\ n.updated = FALSE /\ n.answer = NULL
        /\ n.origin = NULL /\ n.shown = {}
    BY <2>2
  <2>5. n \in State
    BY <2>2, <2>3, Zenon
  <2> QED
    BY <1>2, <2>4, <2>5 DEF Refused
<1> QED
  BY <1>1, <1>2

\* The steps of an update.
ReadTo(s, n, row) == n = [s EXCEPT !.phase = "read", !.current = row]

LEMMA ReadChange ==
  ASSUME NEW s \in State, NEW row \in Ubicacion \cup {NULL}, NEW n, ReadTo(s, n, row)
  PROVE  Kept(s, n) /\ KeptSearch(s, n) /\ n.phase = "read" /\ n.current = row /\ n.updated = s.updated
BY DEF State, Kept, KeptSearch, Phase, ReadTo

LEMMA SaveChange ==
  ASSUME NEW s \in State, NEW n, n = [s EXCEPT !.phase = "settled", !.updated = TRUE, !.current = NULL]
  PROVE  Kept(s, n) /\ KeptSearch(s, n) /\ n.phase = "settled" /\ n.updated = TRUE
BY DEF State, Kept, KeptSearch, Phase

StillTo(s, n, p, m) == n = [s EXCEPT !.phase = p, !.now = m]

LEMMA StillChange ==
  ASSUME NEW s \in State, NEW p \in {"touching", "settled"}, NEW m \in Nat, NEW n, StillTo(s, n, p, m)
  PROVE  Kept(s, n) /\ KeptSearch(s, n) /\ n.phase = p /\ n.now = m /\ n.updated = s.updated
BY DEF State, Kept, KeptSearch, Phase, StillTo

AnswerTo(s, n, a) == n = [s EXCEPT !.phase = "done", !.current = NULL, !.answer = a]

LEMMA AnswerChange ==
  ASSUME NEW s \in State, NEW a \in Nat \cup {NULL}, NEW n, AnswerTo(s, n, a)
  PROVE  Kept(s, n) /\ KeptSearch(s, n) /\ n.phase = "done" /\ n.answer = a /\ n.now = s.now /\ n.updated = s.updated
BY DEF State, Kept, KeptSearch, Phase, AnswerTo

\* The steps of a search.
StartTo(s, n, m) == n = [s EXCEPT !.phase = "started", !.since = m]

LEMMA StartChange ==
  ASSUME NEW s \in State, NEW m \in Int, NEW n, StartTo(s, n, m)
  PROVE  Kept(s, n) /\ KeptPut(s, n) /\ KeptSearch(s, n) /\ n.phase = "started"
BY DEF State, Kept, KeptPut, KeptSearch, Phase, StartTo

PlaceTo(s, n, o) == n = [s EXCEPT !.phase = "placed", !.origin = o]

LEMMA PlaceChange ==
  ASSUME NEW s \in State, NEW o \in Place, NEW n, PlaceTo(s, n, o)
  PROVE  Kept(s, n) /\ KeptPut(s, n) /\ n.phase = "placed" /\ n.origin = o /\ n.shown = s.shown
BY DEF State, Kept, KeptPut, Phase, PlaceTo

ShowTo(s, n, cards) == n = [s EXCEPT !.phase = "found", !.since = 0, !.shown = cards]

LEMMA ShowChange ==
  ASSUME NEW s \in State, NEW cards \in SUBSET Card, NEW n, ShowTo(s, n, cards)
  PROVE  Kept(s, n) /\ KeptPut(s, n) /\ n.phase = "found" /\ n.origin = s.origin /\ n.shown = cards
<1>1. 0 \in Int /\ "found" \in Phase
  BY DEF Phase
<1>2. n \in State
  BY <1>1 DEF State, ShowTo
<1> QED
  BY <1>2 DEF ShowTo, State, Kept, KeptPut

-----------------------------------------------------------------------------
(* What a step does to the requests                                         *)

\* The requests that were over, with an effect.
Settled == {q \in Requests : Over(q) /\ Effect(q)}

\* A step of r on its way, one that ends it without success, and its arrival.
Advances(r) ==
  /\ request[r].phase \notin {"idle", "done", "failed"}
  /\ request'[r].phase \notin {"idle", "arrived", "failed"}
  /\ Kept(request[r], request'[r])
  /\ request[r].updated => request'[r].updated
  /\ \A q \in Requests : q # r => request'[q] = request[q]
  /\ request' \in [Requests -> State]
  /\ after' = after

Stops(r) ==
  /\ request[r].phase \notin {"idle", "done", "failed"}
  /\ Refused(request[r], request'[r])
  /\ \A q \in Requests : q # r => request'[q] = request[q]
  /\ request' \in [Requests -> State]
  /\ UNCHANGED <<clock, activo, ubicacion, auditoria, after>>

Enters(r) ==
  /\ request[r].phase = "idle"
  /\ \E kind \in Kind, u \in Accounts, at \in Places \cup {NULL} :
       (kind = "put" => at \in Places /\ activo[u]) /\ Arrived(request'[r], kind, u, at)
  /\ \A q \in Requests : q # r => request'[q] = request[q]
  /\ request' \in [Requests -> State]
  /\ after'[r] = Settled
  /\ \A q \in Requests : q # r => after'[q] = after[q]
  /\ after' \in [Requests -> SUBSET Requests]
  /\ UNCHANGED <<clock, activo, ubicacion, auditoria>>

LEMMA Replaced ==
  ASSUME Types_, NEW r \in Requests, NEW n \in State, request' = [request EXCEPT ![r] = n]
  PROVE  /\ request'[r] = n
         /\ \A q \in Requests : q # r => request'[q] = request[q]
         /\ request' \in [Requests -> State]
BY DEF Types_

LEMMA OfRequest ==
  ASSUME Types_, NEW r \in Requests
  PROVE  /\ request[r] \in State
         /\ request[r].kind \in Kind /\ request[r].phase \in Phase /\ request[r].user \in Accounts \cup {NULL}
         /\ request[r].at \in Places \cup {NULL} /\ request[r].current \in Ubicacion \cup {NULL}
         /\ request[r].now \in Nat /\ request[r].updated \in BOOLEAN /\ request[r].answer \in Nat \cup {NULL}
         /\ request[r].since \in Int /\ request[r].origin \in Place \cup {NULL} /\ request[r].shown \in SUBSET Card
BY DEF Types_, State

LEMMA RefuseStops ==
  ASSUME Types_, NEW r \in Requests, request[r].phase \notin {"idle", "done", "failed"}, Refuse(r),
         UNCHANGED <<clock, activo, ubicacion, auditoria, after>>
  PROVE  Stops(r)
<1>1. PICK s \in State : s = request[r]
  BY OfRequest
<1>2. PICK n : n = IF s.updated THEN [s EXCEPT !.phase = "failed"] ELSE [Idle EXCEPT !.phase = "failed"]
  OBVIOUS
<1>3. Refused(s, n)
  BY <1>2, RefusedState
<1>4. n \in State
  BY <1>3 DEF Refused
<1>5. request' = [request EXCEPT ![r] = n]
  BY <1>1, <1>2 DEF Refuse
<1>6. request'[r] = n /\ (\A q \in Requests : q # r => request'[q] = request[q]) /\ request' \in [Requests -> State]
  BY <1>4, <1>5, Replaced
<1> QED
  BY <1>1, <1>3, <1>6 DEF Stops

LEMMA ArrivesEnters ==
  ASSUME Types_, NEW r \in Requests, NEW kind \in Kind, NEW by, NEW u \in Accounts,
         NEW at \in Places \cup {NULL}, kind = "put" => at \in Places /\ by = u, Arrives(r, kind, by, u, at),
         request[r].phase = "idle" => request[r] = Idle
  PROVE  Enters(r)
<1>1. PICK n : n = [Idle EXCEPT !.kind = kind, !.phase = "arrived", !.user = u, !.at = at]
  OBVIOUS
<1>2. Arrived(n, kind, u, at)
  BY <1>1, IdleArrives DEF Entry
<1>3. n \in State
  BY <1>2 DEF Arrived
<1>4. request' = [request EXCEPT ![r] = n]
  BY <1>1 DEF Arrives
<1>5. request'[r] = n /\ (\A q \in Requests : q # r => request'[q] = request[q]) /\ request' \in [Requests -> State]
  BY <1>3, <1>4, Replaced
<1>6. /\ after'[r] = Settled /\ (\A q \in Requests : q # r => after'[q] = after[q])
      /\ after' \in [Requests -> SUBSET Requests]
  BY DEF Arrives, Settled, Types_
<1> QED
  BY <1>2, <1>5, <1>6 DEF Enters, Arrives

\* A step on the way: from what r holds to n.
LEMMA StepAdvances ==
  ASSUME Types_, NEW r \in Requests, NEW n, Kept(request[r], n), request[r].updated => n.updated,
         request[r].phase \notin {"idle", "done", "failed"}, n.phase \notin {"idle", "arrived", "failed"},
         request' = [request EXCEPT ![r] = n], after' = after
  PROVE  Advances(r) /\ request'[r] = n
<1>1. n \in State
  BY DEF Kept
<1>2. request'[r] = n /\ (\A q \in Requests : q # r => request'[q] = request[q]) /\ request' \in [Requests -> State]
  BY <1>1, Replaced
<1> QED
  BY <1>2 DEF Advances

-----------------------------------------------------------------------------
(* What each action does                                                    *)

\* The requests that have not arrived or that failed tell nothing; the others are of somebody.
Known(q) ==
  /\ request[q].phase = "idle" => request[q] = Idle
  /\ request[q].phase \notin {"idle", "failed"} => request[q].user \in Accounts
  /\ request[q].phase \notin {"idle", "failed"} /\ request[q].kind = "put" => request[q].at \in Places

AtPoint(r, kind, phase, next) == Advances(r) /\ In(r, kind, phase) /\ request'[r].phase = next

DidRead(r) ==
  /\ AtPoint(r, "put", "arrived", "read") /\ KeptSearch(request[r], request'[r])
  /\ request'[r].updated = request[r].updated /\ request'[r].current = ubicacion[request[r].user]
  /\ UNCHANGED <<clock, activo, ubicacion, auditoria>>

DidSave(r) ==
  /\ AtPoint(r, "put", "read", "settled") /\ KeptSearch(request[r], request'[r])
  /\ request'[r].updated = TRUE
  /\ ubicacion' = [ubicacion EXCEPT ![request[r].user] = [at |-> request[r].at, actualizada_en |-> clock]]
  /\ UNCHANGED <<clock, activo, auditoria>>

DidStill(r) ==
  /\ AtPoint(r, "put", "read", request'[r].phase) /\ KeptSearch(request[r], request'[r])
  /\ request[r].current # NULL /\ Distance(request[r].current.at, request[r].at) < MinMove
  /\ request'[r].updated = request[r].updated /\ request'[r].now = clock
  /\ \/ request'[r].phase = "touching"
     \/ request'[r].phase = "settled" /\ clock - request[r].current.actualizada_en < TouchAfter
  /\ UNCHANGED <<clock, activo, ubicacion, auditoria>>

DidTouch(r) ==
  /\ AtPoint(r, "put", "touching", "settled") /\ KeptPut(request[r], request'[r])
  /\ KeptSearch(request[r], request'[r])
  /\ ubicacion' = [ubicacion EXCEPT ![request[r].user] = Touched(r)]
  /\ UNCHANGED <<clock, activo, auditoria>>

DidAnswer(r) ==
  /\ AtPoint(r, "put", "settled", "done") /\ KeptSearch(request[r], request'[r])
  /\ request'[r].updated = request[r].updated /\ request'[r].now = request[r].now
  /\ LET row == ubicacion[request[r].user]
     IN request'[r].answer = IF row = NULL THEN NULL ELSE row.actualizada_en
  /\ UNCHANGED <<clock, activo, ubicacion, auditoria>>

\* A step that changes no more than where the request is.
Passes(r, kind, phase, next) ==
  /\ AtPoint(r, kind, phase, next) /\ KeptPut(request[r], request'[r]) /\ KeptSearch(request[r], request'[r])

DidDrop(r) ==
  /\ Passes(r, "drop", "arrived", "done")
  /\ ubicacion' = [ubicacion EXCEPT ![request[r].user] = NULL]
  /\ UNCHANGED <<clock, activo, auditoria>>

DidFind(r) == Passes(r, "removal", "arrived", "found") /\ UNCHANGED <<clock, activo, ubicacion, auditoria>>

DidRecord(r) ==
  /\ Passes(r, "removal", "found", "audited")
  /\ auditoria' = auditoria \cup {r}
  /\ UNCHANGED <<clock, activo, ubicacion>>

DidDelete(r) ==
  /\ \E p \in {"deleted", "missed"} : Passes(r, "removal", "audited", p)
  /\ request'[r].phase = "missed" => ubicacion[request[r].user] = NULL
  /\ UNCHANGED <<clock, activo, ubicacion, auditoria>>

DidRemove(r) ==
  /\ \/ Passes(r, "removal", "deleted", "done") /\ ubicacion' = [ubicacion EXCEPT ![request[r].user] = NULL]
     \/ Passes(r, "removal", "missed", "done") /\ ubicacion' = ubicacion
  /\ activo' = [activo EXCEPT ![request[r].user] = FALSE]
  /\ UNCHANGED <<clock, auditoria>>

DidStart(r) == Passes(r, "search", "arrived", "started") /\ UNCHANGED <<clock, activo, ubicacion, auditoria>>

\* Nobody is placed at a live position but who has one.
DidPlace(r) ==
  /\ AtPoint(r, "search", "started", "placed") /\ KeptPut(request[r], request'[r])
  /\ request'[r].shown = request[r].shown
  /\ request'[r].origin.live => ubicacion[request[r].user] # NULL
  /\ UNCHANGED <<clock, activo, ubicacion, auditoria>>

DidShow(r) ==
  /\ AtPoint(r, "search", "placed", "found") /\ KeptPut(request[r], request'[r])
  /\ request'[r].origin = request[r].origin
  /\ \A card \in request'[r].shown : activo[card.user] /\ (card.place.live => ubicacion[card.user] # NULL)
  /\ UNCHANGED <<clock, activo, ubicacion, auditoria>>

DidEnd(r) ==
  /\ Passes(r, "search", "found", "done")
  /\ auditoria' = auditoria \cup {r}
  /\ UNCHANGED <<clock, activo, ubicacion>>

LEMMA GoAdvances ==
  ASSUME Types_, NEW r \in Requests, NEW p \in Phase \ {"idle", "arrived", "failed"},
         request[r].phase \notin {"idle", "done", "failed"}, Go(r, p), after' = after
  PROVE  /\ Advances(r) /\ request'[r].phase = p
         /\ KeptPut(request[r], request'[r]) /\ KeptSearch(request[r], request'[r])
<1>1. PICK s \in State : s = request[r]
  BY OfRequest
<1>2. PICK n : n = [s EXCEPT !.phase = p]
  OBVIOUS
<1>3. Kept(s, n) /\ KeptPut(s, n) /\ KeptSearch(s, n) /\ n.phase = p
  BY <1>2, PhaseOnly
<1>4. request' = [request EXCEPT ![r] = n]
  BY <1>1, <1>2 DEF Go
<1>5. Kept(request[r], n) /\ (request[r].updated => n.updated) /\ n.phase \notin {"idle", "arrived", "failed"}
  BY <1>1, <1>3 DEF KeptPut
<1>6. Advances(r) /\ request'[r] = n
  BY <1>4, <1>5, StepAdvances
<1> QED
  BY <1>1, <1>3, <1>6

LEMMA PutReadDoes ==
  ASSUME Types_, NEW r \in Requests, Known(r), PutRead(r)
  PROVE  DidRead(r)
<1>0. request[r].kind = "put" /\ request[r].phase = "arrived"
  BY DEF PutRead, In
<1>1. PICK s \in State : s = request[r]
  BY OfRequest
<1>2. PICK row : row = ubicacion[request[r].user]
  OBVIOUS
<1>3. row \in Ubicacion \cup {NULL}
  BY <1>0, <1>2 DEF Known, Types_
<1>4. PICK n : ReadTo(s, n, row)
  BY DEF ReadTo
<1>5. Kept(s, n) /\ KeptSearch(s, n) /\ n.phase = "read" /\ n.current = row /\ n.updated = s.updated
  BY <1>3, <1>4, ReadChange
<1>6. request' = [request EXCEPT ![r] = n]
  BY <1>1, <1>2, <1>4 DEF PutRead, ReadTo
<1>7. Kept(request[r], n) /\ (request[r].updated => n.updated) /\ n.phase \notin {"idle", "arrived", "failed"}
  BY <1>1, <1>5
<1>8. Advances(r) /\ request'[r] = n
  <2>1. after' = after /\ request[r].phase \notin {"idle", "done", "failed"}
    BY <1>0 DEF PutRead
  <2> QED
    BY <1>6, <1>7, <2>1, StepAdvances
<1> QED
  BY <1>1, <1>2, <1>5, <1>8 DEF DidRead, AtPoint, PutRead

LEMMA PutSaveDoes ==
  ASSUME Types_, NEW r \in Requests, PutSave(r)
  PROVE  DidSave(r)
<1>0. request[r].kind = "put" /\ request[r].phase = "read"
  BY DEF PutSave, In
<1>1. PICK s \in State : s = request[r]
  BY OfRequest
<1>2. PICK n : n = [s EXCEPT !.phase = "settled", !.updated = TRUE, !.current = NULL]
  OBVIOUS
<1>3. Kept(s, n) /\ KeptSearch(s, n) /\ n.phase = "settled" /\ n.updated = TRUE
  BY <1>2, SaveChange
<1>4. request' = [request EXCEPT ![r] = n]
  BY <1>1, <1>2 DEF PutSave
<1>5. Kept(request[r], n) /\ (request[r].updated => n.updated) /\ n.phase \notin {"idle", "arrived", "failed"}
  BY <1>1, <1>3
<1>6. Advances(r) /\ request'[r] = n
  <2>1. after' = after /\ request[r].phase \notin {"idle", "done", "failed"}
    BY <1>0 DEF PutSave
  <2> QED
    BY <1>4, <1>5, <2>1, StepAdvances
<1> QED
  BY <1>1, <1>3, <1>6 DEF DidSave, AtPoint, PutSave

LEMMA PutStillDoes ==
  ASSUME Types_, NEW r \in Requests, Known(r), PutStill(r)
  PROVE  DidStill(r)
<1>0. request[r].kind = "put" /\ request[r].phase = "read"
  BY DEF PutStill, In
<1>1. PICK s \in State : s = request[r]
  BY OfRequest
<1>2. PICK p \in {"touching", "settled"} : p = IF TouchDue(r) THEN "touching" ELSE "settled"
  OBVIOUS
<1>3. PICK n : StillTo(s, n, p, clock)
  BY DEF StillTo
<1>4. clock \in Nat
  BY DEF Types_
<1>5. Kept(s, n) /\ KeptSearch(s, n) /\ n.phase = p /\ n.now = clock /\ n.updated = s.updated
  BY <1>3, <1>4, StillChange
<1>6. request' = [request EXCEPT ![r] = n]
  BY <1>1, <1>2, <1>3 DEF PutStill, StillTo
<1>7. Kept(request[r], n) /\ (request[r].updated => n.updated) /\ n.phase \notin {"idle", "arrived", "failed"}
  BY <1>1, <1>2, <1>5
<1>8. Advances(r) /\ request'[r] = n
  <2>1. after' = after /\ request[r].phase \notin {"idle", "done", "failed"}
    BY <1>0 DEF PutStill
  <2> QED
    BY <1>6, <1>7, <2>1, StepAdvances
<1>9. /\ request[r].current \in Ubicacion /\ request[r].current # NULL
      /\ ~(Distance(request[r].current.at, request[r].at) >= MinMove)
  BY OfRequest DEF PutStill, Moved
<1>10. p = "settled" => ~(clock - request[r].current.actualizada_en >= TouchAfter)
  BY <1>2 DEF TouchDue
<1> QED
  <2> HIDE DEF Distance
  <2>1. request[r].current.actualizada_en \in Nat /\ request[r].current.at \in Places
    BY <1>9 DEF Ubicacion
  <2>2. p = "settled" => clock - request[r].current.actualizada_en < TouchAfter
    BY <1>4, <1>10, <2>1, LiveLocationAssumption
  <2>3. Distance(request[r].current.at, request[r].at) < MinMove
    <3>1. request[r].at \in Int /\ request[r].current.at \in Int
      BY <1>0, <2>1, LiveLocationAssumption DEF Known
    <3> QED
      BY <1>9, <3>1, LiveLocationAssumption DEF Distance
  <2> QED
    BY <1>1, <1>2, <1>5, <1>8, <1>9, <2>2, <2>3 DEF DidStill, AtPoint, PutStill, In

LEMMA PutTouchDoes ==
  ASSUME Types_, NEW r \in Requests, PutTouch(r)
  PROVE  DidTouch(r)
<1>1. "settled" \in Phase \ {"idle", "arrived", "failed"}
  BY DEF Phase
<1>2. /\ Go(r, "settled") /\ after' = after /\ request[r].phase \notin {"idle", "done", "failed"}
  BY DEF PutTouch, In
<1>3. /\ Advances(r) /\ request'[r].phase = "settled"
      /\ KeptPut(request[r], request'[r]) /\ KeptSearch(request[r], request'[r])
  BY <1>1, <1>2, GoAdvances
<1> QED
  BY <1>3 DEF DidTouch, AtPoint, PutTouch

LEMMA PutAnswerDoes ==
  ASSUME Types_, NEW r \in Requests, Known(r), PutAnswer(r)
  PROVE  DidAnswer(r)
<1>0. request[r].kind = "put" /\ request[r].phase = "settled"
  BY DEF PutAnswer, In
<1>1. PICK s \in State : s = request[r]
  BY OfRequest
<1>2. PICK row : row = ubicacion[request[r].user]
  OBVIOUS
<1>3. row \in Ubicacion \cup {NULL}
  BY <1>0, <1>2 DEF Known, Types_
<1>4. PICK a \in Nat \cup {NULL} : a = IF row = NULL THEN NULL ELSE row.actualizada_en
  BY <1>3 DEF Ubicacion
<1>5. PICK n : AnswerTo(s, n, a)
  BY DEF AnswerTo
<1>6. Kept(s, n) /\ KeptSearch(s, n) /\ n.phase = "done" /\ n.answer = a /\ n.now = s.now /\ n.updated = s.updated
  BY <1>5, AnswerChange
<1>7. request' = [request EXCEPT ![r] = n]
  BY <1>1, <1>2, <1>4, <1>5 DEF PutAnswer, AnswerTo
<1>8. Kept(request[r], n) /\ (request[r].updated => n.updated) /\ n.phase \notin {"idle", "arrived", "failed"}
  BY <1>1, <1>6
<1>9. Advances(r) /\ request'[r] = n
  <2>1. after' = after /\ request[r].phase \notin {"idle", "done", "failed"}
    BY <1>0 DEF PutAnswer
  <2> QED
    BY <1>7, <1>8, <2>1, StepAdvances
<1> QED
  BY <1>0, <1>1, <1>2, <1>4, <1>6, <1>9 DEF DidAnswer, AtPoint, PutAnswer, In

LEMMA DropCommitDoes ==
  ASSUME Types_, NEW r \in Requests, DropCommit(r)
  PROVE  DidDrop(r)
<1>1. "done" \in Phase \ {"idle", "arrived", "failed"}
  BY DEF Phase
<1>2. /\ Go(r, "done") /\ after' = after /\ request[r].phase \notin {"idle", "done", "failed"}
  BY DEF DropCommit, In
<1>3. /\ Advances(r) /\ request'[r].phase = "done"
      /\ KeptPut(request[r], request'[r]) /\ KeptSearch(request[r], request'[r])
  BY <1>1, <1>2, GoAdvances
<1> QED
  BY <1>3 DEF DidDrop, Passes, AtPoint, DropCommit

LEMMA RemovalLookUpDoes ==
  ASSUME Types_, NEW r \in Requests, RemovalLookUp(r)
  PROVE  DidFind(r) \/ Stops(r)
<1>0. /\ request[r].phase \notin {"idle", "done", "failed"}
      /\ UNCHANGED <<clock, activo, ubicacion, auditoria, after>>
  BY DEF RemovalLookUp, In
<1>1. CASE Go(r, "found")
  <2>1. "found" \in Phase \ {"idle", "arrived", "failed"} /\ after' = after
    BY <1>0 DEF Phase
  <2>2. /\ Advances(r) /\ request'[r].phase = "found"
        /\ KeptPut(request[r], request'[r]) /\ KeptSearch(request[r], request'[r])
    BY <1>0, <1>1, <2>1, GoAdvances
  <2> QED
    BY <1>0, <2>2 DEF DidFind, Passes, AtPoint, RemovalLookUp
<1>2. CASE Refuse(r)
  BY <1>0, <1>2, RefuseStops
<1> QED
  BY <1>1, <1>2 DEF RemovalLookUp

LEMMA RemovalAuditDoes ==
  ASSUME Types_, NEW r \in Requests, RemovalAudit(r)
  PROVE  DidRecord(r)
<1>1. "audited" \in Phase \ {"idle", "arrived", "failed"}
  BY DEF Phase
<1>2. /\ Go(r, "audited") /\ after' = after /\ request[r].phase \notin {"idle", "done", "failed"}
  BY DEF RemovalAudit, In
<1>3. /\ Advances(r) /\ request'[r].phase = "audited"
      /\ KeptPut(request[r], request'[r]) /\ KeptSearch(request[r], request'[r])
  BY <1>1, <1>2, GoAdvances
<1> QED
  BY <1>3 DEF DidRecord, Passes, AtPoint, RemovalAudit

LEMMA RemovalDeleteDoes ==
  ASSUME Types_, NEW r \in Requests, RemovalDelete(r)
  PROVE  DidDelete(r)
<1>1. {"deleted", "missed"} \subseteq Phase \ {"idle", "arrived", "failed"}
  BY DEF Phase
<1>2. PICK p \in {"deleted", "missed"} : Go(r, p) /\ (p = "missed" => ubicacion[request[r].user] = NULL)
  BY DEF RemovalDelete
<1>3. In(r, "removal", "audited") /\ UNCHANGED <<clock, activo, ubicacion, auditoria, after>>
  BY DEF RemovalDelete
<1>4. /\ Advances(r) /\ request'[r].phase = p
      /\ KeptPut(request[r], request'[r]) /\ KeptSearch(request[r], request'[r])
  BY <1>1, <1>2, <1>3, GoAdvances DEF In
<1> QED
  BY <1>2, <1>3, <1>4 DEF DidDelete, Passes, AtPoint

LEMMA RemovalCommitDoes ==
  ASSUME Types_, NEW r \in Requests, RemovalCommit(r)
  PROVE  DidRemove(r)
<1>1. "done" \in Phase \ {"idle", "arrived", "failed"}
  BY DEF Phase
<1>2. /\ Go(r, "done") /\ after' = after /\ request[r].phase \notin {"idle", "done", "failed"}
  BY DEF RemovalCommit, In
<1>3. /\ Advances(r) /\ request'[r].phase = "done"
      /\ KeptPut(request[r], request'[r]) /\ KeptSearch(request[r], request'[r])
  BY <1>1, <1>2, GoAdvances
<1> QED
  BY <1>3 DEF DidRemove, Passes, AtPoint, RemovalCommit, In

LEMMA SearchStartDoes ==
  ASSUME Types_, NEW r \in Requests, SearchStart(r)
  PROVE  DidStart(r)
<1>0. request[r].kind = "search" /\ request[r].phase = "arrived"
  BY DEF SearchStart, In
<1>1. PICK s \in State : s = request[r]
  BY OfRequest
<1>2. PICK m \in Int : m = clock - MaxAge
  BY LiveLocationAssumption DEF Types_
<1>3. PICK n : StartTo(s, n, m)
  BY DEF StartTo
<1>4. Kept(s, n) /\ KeptPut(s, n) /\ KeptSearch(s, n) /\ n.phase = "started"
  BY <1>3, StartChange
<1>5. request' = [request EXCEPT ![r] = n]
  BY <1>1, <1>2, <1>3 DEF SearchStart, StartTo
<1>6. Kept(request[r], n) /\ (request[r].updated => n.updated) /\ n.phase \notin {"idle", "arrived", "failed"}
  BY <1>1, <1>4 DEF KeptPut
<1>7. Advances(r) /\ request'[r] = n
  <2>1. after' = after /\ request[r].phase \notin {"idle", "done", "failed"}
    BY <1>0 DEF SearchStart
  <2> QED
    BY <1>5, <1>6, <2>1, StepAdvances
<1> QED
  BY <1>0, <1>1, <1>4, <1>7 DEF DidStart, Passes, AtPoint, SearchStart, In

\* Where a search places somebody.
LEMMA PlacedIs ==
  ASSUME Types_, NEW u \in Accounts, NEW since
  PROVE  Placed(u, since) \in Place /\ (Placed(u, since).live => ubicacion[u] # NULL)
BY LiveLocationAssumption DEF Types_, Placed, Place, Ubicacion

LEMMA SearchOriginDoes ==
  ASSUME Types_, NEW r \in Requests, Known(r), NEW radius \in BOOLEAN, SearchOrigin(r, radius)
  PROVE  DidPlace(r) \/ Stops(r)
<1>0. /\ request[r].kind = "search" /\ request[r].phase = "started"
      /\ UNCHANGED <<clock, activo, ubicacion, auditoria, after>>
  BY DEF SearchOrigin, In
<1>1. PICK s \in State : s = request[r]
  BY OfRequest
<1>2. PICK o : o = Placed(request[r].user, request[r].since)
  OBVIOUS
<1>3. o \in Place /\ (o.live => ubicacion[request[r].user] # NULL)
  <2>1. request[r].user \in Accounts
    BY <1>0 DEF Known
  <2> QED
    BY <1>2, <2>1, PlacedIs
<1>4. CASE Refuse(r)
  BY <1>0, <1>4, RefuseStops
<1>5. CASE ~Refuse(r)
  <2>1. PICK n : PlaceTo(s, n, o)
    BY DEF PlaceTo
  <2>2. Kept(s, n) /\ KeptPut(s, n) /\ n.phase = "placed" /\ n.origin = o /\ n.shown = s.shown
    BY <1>3, <2>1, PlaceChange
  <2>3. request' = [request EXCEPT ![r] = n]
    BY <1>1, <1>2, <1>5, <2>1 DEF SearchOrigin, PlaceTo
  <2>4. Kept(request[r], n) /\ (request[r].updated => n.updated) /\ n.phase \notin {"idle", "arrived", "failed"}
    BY <1>1, <2>2 DEF KeptPut
  <2>5. Advances(r) /\ request'[r] = n
    <3>1. after' = after /\ request[r].phase \notin {"idle", "done", "failed"}
      BY <1>0
    <3> QED
      BY <2>3, <2>4, <3>1, StepAdvances
  <2> QED
    BY <1>0, <1>1, <1>3, <2>2, <2>5 DEF DidPlace, AtPoint, In
<1> QED
  BY <1>4, <1>5

LEMMA SearchQueryDoes ==
  ASSUME Types_, NEW r \in Requests, NEW shown \in SUBSET Athletes, SearchQuery(r, shown)
  PROVE  DidShow(r)
<1>0. /\ request[r].kind = "search" /\ request[r].phase = "placed"
      /\ UNCHANGED <<clock, activo, ubicacion, auditoria, after>>
  BY DEF SearchQuery, In
<1>1. PICK s \in State : s = request[r]
  BY OfRequest
<1>2. PICK cards : cards = {[user |-> c, place |-> Placed(c, request[r].since)] : c \in shown}
  OBVIOUS
<1>3. \A c \in shown : c \in Accounts /\ activo[c]
  BY LiveLocationAssumption DEF SearchQuery, Candidate
<1>4. \A card \in cards : activo[card.user] /\ (card.place.live => ubicacion[card.user] # NULL)
  BY <1>2, <1>3, PlacedIs
<1>5. cards \in SUBSET Card
  <2>1. \A c \in shown : Placed(c, request[r].since) \in Place
    BY <1>3, PlacedIs
  <2> QED
    BY <1>2, <1>3, <2>1 DEF Card
<1>6. PICK n : ShowTo(s, n, cards)
  BY DEF ShowTo
<1>7. Kept(s, n) /\ KeptPut(s, n) /\ n.phase = "found" /\ n.origin = s.origin /\ n.shown = cards
  BY <1>5, <1>6, ShowChange
<1>8. request' = [request EXCEPT ![r] = n]
  BY <1>1, <1>2, <1>6 DEF SearchQuery, ShowTo
<1>9. Kept(request[r], n) /\ (request[r].updated => n.updated) /\ n.phase \notin {"idle", "arrived", "failed"}
  BY <1>1, <1>7 DEF KeptPut
<1>10. Advances(r) /\ request'[r] = n
  <2>1. after' = after /\ request[r].phase \notin {"idle", "done", "failed"}
    BY <1>0
  <2> QED
    BY <1>8, <1>9, <2>1, StepAdvances
<1> QED
  BY <1>0, <1>1, <1>4, <1>7, <1>10 DEF DidShow, AtPoint, In

LEMMA SearchAuditDoes ==
  ASSUME Types_, NEW r \in Requests, SearchAudit(r)
  PROVE  DidEnd(r)
<1>1. "done" \in Phase \ {"idle", "arrived", "failed"}
  BY DEF Phase
<1>2. /\ Go(r, "done") /\ after' = after /\ request[r].phase \notin {"idle", "done", "failed"}
  BY DEF SearchAudit, In
<1>3. /\ Advances(r) /\ request'[r].phase = "done"
      /\ KeptPut(request[r], request'[r]) /\ KeptSearch(request[r], request'[r])
  BY <1>1, <1>2, GoAdvances
<1> QED
  BY <1>3 DEF DidEnd, Passes, AtPoint, SearchAudit

LEMMA FailDoes ==
  ASSUME Types_, NEW r \in Requests, Fail(r)
  PROVE  Stops(r)
BY RefuseStops DEF Fail, Over

LEMMA ArriveDoes ==
  ASSUME Types_, NEW r \in Requests, Known(r),
         PutArrive(r) \/ DropArrive(r) \/ RemovalArrive(r) \/ SearchArrive(r)
  PROVE  Enters(r)
<1>0. request[r].phase = "idle" => request[r] = Idle
  BY DEF Known
<1>1. PICK kind \in Kind, by \in Accounts, u \in Accounts, at \in Places \cup {NULL} :
        (kind = "put" => at \in Places /\ by = u) /\ Arrives(r, kind, by, u, at)
  <2>1. {"put", "drop", "removal", "search"} \subseteq Kind
    BY DEF Kind
  <2> QED
    BY <2>1, LiveLocationAssumption DEF PutArrive, DropArrive, RemovalArrive, SearchArrive
<1> QED
  BY <1>0, <1>1, ArrivesEnters

\* Whatever the step, one of these is what it did.
Did(r) ==
  \/ Enters(r) \/ Stops(r)
  \/ DidRead(r) \/ DidSave(r) \/ DidStill(r) \/ DidTouch(r) \/ DidAnswer(r)
  \/ DidDrop(r) \/ DidFind(r) \/ DidRecord(r) \/ DidDelete(r) \/ DidRemove(r)
  \/ DidStart(r) \/ DidPlace(r) \/ DidShow(r) \/ DidEnd(r)

Ticks ==
  /\ clock < MaxTime /\ clock' = clock + 1
  /\ UNCHANGED <<activo, ubicacion, auditoria, request, after>>

LEMMA Steps ==
  ASSUME Types_, \A q \in Requests : Known(q), [Next]_vars
  PROVE  UNCHANGED vars \/ Ticks \/ \E r \in Requests : Did(r)
<1>1. CASE Tick
  BY <1>1 DEF Tick, Ticks
<1>2. ASSUME NEW r \in Requests, Put(r) PROVE Did(r)
  BY <1>2, ArriveDoes, PutReadDoes, PutSaveDoes, PutStillDoes, PutTouchDoes, PutAnswerDoes DEF Put, Did
<1>3. ASSUME NEW r \in Requests, Drop(r) \/ Removal(r) PROVE Did(r)
  BY <1>3, ArriveDoes, DropCommitDoes, RemovalLookUpDoes, RemovalAuditDoes, RemovalDeleteDoes, RemovalCommitDoes
     DEF Drop, Removal, Did
<1>4. ASSUME NEW r \in Requests, Search(r) PROVE Did(r)
  BY <1>4, ArriveDoes, SearchStartDoes, SearchOriginDoes, SearchQueryDoes, SearchAuditDoes DEF Search, Did
<1>5. ASSUME NEW r \in Requests, Fail(r) PROVE Did(r)
  BY <1>5, FailDoes DEF Did
<1> QED
  BY <1>1, <1>2, <1>3, <1>4, <1>5 DEF Next

-----------------------------------------------------------------------------
(* What every step leaves to the requests                                   *)

\* A request that is over stands still, one that is under way stays of whom it is, what was saved stays saved, and
\* a request arrives with what was over by then.
Forward(q) ==
  /\ Over(q) => request'[q] = request[q]
  /\ request[q].phase # "idle" => after'[q] = after[q] /\ request'[q].phase # "idle"
  /\ request[q].phase = "idle" /\ request'[q] # request[q] =>
       /\ request'[q].phase = "arrived" /\ request'[q].user \in Accounts
       /\ request'[q].kind = "put" => request'[q].at \in Places /\ activo[request'[q].user]
       /\ request'[q].updated = FALSE /\ request'[q].origin = NULL /\ request'[q].shown = {}
       /\ after'[q] = Settled
  /\ request'[q] = request[q] => after'[q] = after[q]
  /\ request[q].phase # "idle" /\ (request[q].updated \/ request'[q].phase # "failed") =>
       /\ request'[q].kind = request[q].kind /\ request'[q].user = request[q].user /\ request'[q].at = request[q].at
  /\ request[q].phase # "idle" /\ request[q].updated => request'[q].updated
  /\ ~Over(q) /\ ~request[q].updated /\ request'[q].phase = "failed" => ~request'[q].updated

LEMMA DidForward ==
  ASSUME Types_, NEW r \in Requests, Did(r), NEW q \in Requests
  PROVE  Forward(q)
<1>1. CASE q = r /\ Advances(r)
  BY <1>1 DEF Forward, Advances, Kept, Over
<1>2. CASE q = r /\ Stops(r)
  BY <1>2 DEF Forward, Stops, Refused, Kept, KeptPut, Over
<1>3. CASE q = r /\ Enters(r)
  BY <1>3 DEF Forward, Enters, Arrived, Over
<1>4. CASE q # r /\ (Advances(r) \/ Stops(r) \/ Enters(r))
  BY <1>4 DEF Forward, Advances, Stops, Enters
<1> QED
  BY <1>1, <1>2, <1>3, <1>4
     DEF Did, DidRead, DidSave, DidStill, DidTouch, DidAnswer, DidDrop, DidFind, DidRecord, DidDelete, DidRemove,
         DidStart,
         DidPlace, DidShow, DidEnd, Passes, AtPoint

LEMMA NextForward ==
  ASSUME Types_, \A q \in Requests : Known(q), [Next]_vars
  PROVE  \A q \in Requests : Forward(q)
<1>1. CASE UNCHANGED vars \/ Ticks
  BY <1>1 DEF Forward, vars, Ticks
<1>2. CASE \E r \in Requests : Did(r)
  BY <1>2, DidForward
<1> QED
  BY <1>1, <1>2, Steps

\* The tables, in the types of their columns.
LEMMA TypesStep ==
  ASSUME Types_, \A q \in Requests : Known(q), [Next]_vars
  PROVE  Types_'
<1>1. CASE UNCHANGED vars
  BY <1>1 DEF Types_, vars
<1>2. CASE Ticks
  BY <1>2, LiveLocationAssumption DEF Types_, Ticks
<1>3. ASSUME NEW r \in Requests, Did(r) PROVE Types_'
  <2>1. request' \in [Requests -> State] /\ after' \in [Requests -> SUBSET Requests]
    BY <1>3
       DEF Types_, Did, Advances, Stops, Enters, DidRead, DidSave, DidStill, DidTouch, DidAnswer, DidDrop, DidFind,
           DidRecord, DidDelete, DidRemove, DidStart, DidPlace, DidShow, DidEnd, Passes, AtPoint
  <2>2. CASE UNCHANGED <<clock, activo, ubicacion>> /\ (auditoria' = auditoria \/ auditoria' = auditoria \cup {r})
    BY <2>1, <2>2 DEF Types_
  <2>3. CASE DidSave(r)
    <3>1. request[r].user \in Accounts /\ request[r].at \in Places
      BY <2>3 DEF DidSave, AtPoint, In, Known
    <3>2. [at |-> request[r].at, actualizada_en |-> clock] \in Ubicacion
      BY <3>1 DEF Ubicacion, Types_
    <3>3. ubicacion' \in [Accounts -> Ubicacion \cup {NULL}]
      BY <2>3, <3>2 DEF DidSave, Types_
    <3> QED
      BY <2>1, <2>3, <3>3 DEF DidSave, Types_
  <2>4. CASE DidTouch(r)
    <3>1. request[r].user \in Accounts
      BY <2>4 DEF DidTouch, AtPoint, In, Known
    <3>2. Touched(r) \in Ubicacion \cup {NULL}
      BY <3>1 DEF Touched, Ubicacion, Types_
    <3>3. ubicacion' \in [Accounts -> Ubicacion \cup {NULL}]
      BY <2>4, <3>2 DEF DidTouch, Types_
    <3> QED
      BY <2>1, <2>4, <3>3 DEF DidTouch, Types_
  <2>5. CASE DidDrop(r) \/ DidRemove(r)
    BY <2>1, <2>5 DEF DidDrop, DidRemove, Types_
  <2> QED
    BY <1>3, <2>2, <2>3, <2>4, <2>5
       DEF Did, Stops, Enters, DidRead, DidStill, DidAnswer, DidFind, DidRecord, DidDelete, DidStart, DidPlace,
           DidShow, DidEnd
<1> QED
  BY <1>1, <1>2, <1>3, Steps

LEMMA KnownStep ==
  ASSUME Types_, \A q \in Requests : Known(q) /\ Forward(q)
  PROVE  \A q \in Requests : Known(q)'
<1> SUFFICES ASSUME NEW q \in Requests PROVE Known(q)'
  OBVIOUS
<1>1. CASE request'[q] = request[q]
  BY <1>1 DEF Known
<1>2. CASE request'[q] # request[q] /\ request[q].phase = "idle"
  BY <1>2 DEF Known, Forward
<1>3. CASE request'[q] # request[q] /\ request[q].phase # "idle"
  BY <1>3 DEF Known, Forward, Over
<1> QED
  BY <1>1, <1>2, <1>3

\* What a request found over when it arrived: less, or more, than another did.
History ==
  \A q \in Requests :
    /\ after[q] \subseteq Settled
    /\ \A p \in Requests : after[p] \subseteq after[q] \/ after[q] \subseteq after[p]

LEMMA HistoryStep ==
  ASSUME Types_, Types_', \A q \in Requests : Known(q) /\ Forward(q), History
  PROVE  History'
<1>1. Settled \subseteq Settled'
  BY DEF Settled, Over, Effect, Forward
<1>2. \A q \in Requests : after'[q] = after[q] \/ after'[q] = Settled
  BY DEF Forward
<1>3. \A q \in Requests : after[q] \subseteq Settled
  BY DEF History
<1>4. ASSUME NEW q \in Requests, NEW p \in Requests
      PROVE  after'[p] \subseteq after'[q] \/ after'[q] \subseteq after'[p]
  BY <1>2, <1>3 DEF History
<1>5. \A q \in Requests : after'[q] \subseteq Settled'
  BY <1>1, <1>2, <1>3
<1> QED
  BY <1>4, <1>5 DEF History

\* A request that is not over was not when any other arrived.
LEMMA NotBefore ==
  ASSUME Types_, \A q \in Requests : Known(q) /\ Forward(q), History, NEW d \in Requests, ~Over(d)
  PROVE  \A q \in Requests : d \notin after[q] /\ d \notin after'[q]
<1>1. d \notin Settled
  BY DEF Settled
<1>2. \A q \in Requests : after'[q] = after[q] \/ after'[q] = Settled
  BY DEF Forward
<1> QED
  BY <1>1, <1>2 DEF History

-----------------------------------------------------------------------------
(* Deletions                                                                *)

Recorded(q) == In(q, "removal", "audited") \/ In(q, "removal", "deleted") \/ In(q, "removal", "missed")

\* A deletion is recorded before it is done, and nothing makes an account active again.
Deletions ==
  /\ \A q \in Requests : Recorded(q) => q \in auditoria
  /\ \A u \in Accounts : ~activo[u] =>
       \E q \in auditoria : In(q, "removal", "done") /\ request[q].user = u
  /\ \A q \in Requests : In(q, "removal", "done") => ~activo[request[q].user]

\* Where a request that takes a step is then.
LEMMA Others ==
  ASSUME NEW r \in Requests, Did(r)
  PROVE  /\ ~Over(r)
         /\ \A q \in Requests : q # r => request'[q] = request[q]
BY DEF Did, Advances, Stops, Enters, Over, DidRead, DidSave, DidStill, DidTouch, DidAnswer, DidDrop, DidFind,
       DidRecord, DidDelete,
       DidRemove, DidStart, DidPlace, DidShow, DidEnd, Passes, AtPoint

LEMMA DeletionsStep ==
  ASSUME Types_, Types_', \A q \in Requests : Known(q) /\ Forward(q), Deletions, [Next]_vars
  PROVE  Deletions'
<1>1. CASE UNCHANGED vars \/ Ticks
  BY <1>1 DEF Deletions, Recorded, In, vars, Ticks
<1>2. ASSUME NEW r \in Requests, Did(r) PROVE Deletions'
  <2>1. auditoria \subseteq auditoria'
    BY <1>2
       DEF Did, Stops, Enters, DidRead, DidSave, DidStill, DidTouch, DidAnswer, DidDrop, DidFind, DidRecord,
           DidDelete, DidRemove,
           DidStart, DidPlace, DidShow, DidEnd
  <2>2. ASSUME NEW q \in Requests, Recorded(q)' PROVE q \in auditoria'
    <3>1. CASE q # r
      BY <1>2, <2>1, <2>2, <3>1, Others DEF Deletions, Recorded, In
    <3>2. CASE q = r
      BY <1>2, <2>1, <2>2, <3>2
         DEF Did, Deletions, Recorded, In, Advances, Kept, Enters, Stops, Arrived, Refused, DidRead, DidSave,
             DidStill, DidTouch, DidAnswer, DidDrop, DidFind,
             DidRecord, DidDelete, DidRemove, DidStart, DidPlace, DidShow, DidEnd, Passes, AtPoint
    <3> QED
      BY <3>1, <3>2
  <2>3. CASE DidRemove(r)
    <3>1. request[r].user \in Accounts /\ In(r, "removal", "done")' /\ request'[r].user = request[r].user
      BY <2>3 DEF DidRemove, Passes, AtPoint, In, Known, Advances, Kept
    <3>2. r \in auditoria'
      BY <2>3, <2>1 DEF DidRemove, Passes, AtPoint, Deletions, Recorded
    <3>3. activo' = [activo EXCEPT ![request[r].user] = FALSE]
      BY <2>3 DEF DidRemove
    <3>4. ASSUME NEW u \in Accounts, ~activo'[u]
          PROVE  \E q \in auditoria' : In(q, "removal", "done")' /\ request'[q].user = u
      <4>1. CASE u = request[r].user
        BY <3>1, <3>2, <4>1
      <4>2. CASE u # request[r].user
        <5>1. ~activo[u]
          BY <3>3, <3>4, <4>2 DEF Types_
        <5>2. PICK q \in auditoria : In(q, "removal", "done") /\ request[q].user = u
          BY <5>1 DEF Deletions
        <5>3. request'[q] = request[q]
          BY <5>2 DEF In, Forward, Over, Types_
        <5> QED
          BY <2>1, <5>2, <5>3 DEF In
      <4> QED
        BY <4>1, <4>2
    <3>5. ASSUME NEW q \in Requests, In(q, "removal", "done")' PROVE ~activo'[request'[q].user]
      <4>1. CASE q = r
        BY <3>1, <3>3, <4>1 DEF Types_
      <4>2. CASE q # r
        <5>1. request'[q] = request[q]
          BY <1>2, <4>2, Others
        <5>2. In(q, "removal", "done") /\ request[q].user \in Accounts
          BY <3>5, <5>1 DEF In, Known
        <5>3. ~activo[request[q].user]
          BY <5>2 DEF Deletions
        <5> QED
          BY <3>3, <5>1, <5>2, <5>3 DEF Types_
      <4> QED
        BY <4>1, <4>2
    <3> QED
      BY <2>2, <3>4, <3>5 DEF Deletions
  <2>4. CASE ~DidRemove(r)
    <3>1. activo' = activo
      BY <1>2, <2>4
         DEF Did, Stops, Enters, DidRead, DidSave, DidStill, DidTouch, DidAnswer, DidDrop, DidFind, DidRecord,
             DidDelete, DidStart,
             DidPlace, DidShow, DidEnd
    <3>2. ASSUME NEW q \in Requests, In(q, "removal", "done")' PROVE request'[q] = request[q]
      <4>1. CASE q # r
        BY <1>2, <4>1, Others
      <4>2. CASE q = r
        BY <1>2, <2>4, <3>2, <4>2
           DEF Did, In, Enters, Stops, Arrived, Refused, Advances, Kept, DidRead, DidSave, DidStill, DidTouch,
               DidAnswer,
               DidDrop, DidFind, DidRecord, DidDelete, DidStart, DidPlace, DidShow, DidEnd, Passes, AtPoint
      <4> QED
        BY <4>1, <4>2
    <3>3. ASSUME NEW u \in Accounts, ~activo'[u]
          PROVE  \E q \in auditoria' : In(q, "removal", "done")' /\ request'[q].user = u
      <4>1. PICK q \in auditoria : In(q, "removal", "done") /\ request[q].user = u
        BY <3>1, <3>3 DEF Deletions
      <4>2. request'[q] = request[q]
        BY <4>1 DEF In, Forward, Over, Types_
      <4> QED
        BY <2>1, <4>1, <4>2 DEF In
    <3>4. ASSUME NEW q \in Requests, In(q, "removal", "done")' PROVE ~activo'[request'[q].user]
      BY <3>1, <3>2, <3>4 DEF Deletions, In
    <3> QED
      BY <2>2, <3>3, <3>4 DEF Deletions
  <2> QED
    BY <2>3, <2>4
<1> QED
  BY <1>1, <1>2, Steps

-----------------------------------------------------------------------------
(* Removals                                                                 *)

\* Where the position of u comes from: the row that was there, or an update under way that has just saved it.
Source(u) ==
  \/ ubicacion[u] # NULL /\ ubicacion'[u].at = ubicacion[u].at
       /\ ubicacion'[u].actualizada_en \in {ubicacion[u].actualizada_en, clock}
  \/ /\ ubicacion'[u].actualizada_en = clock
     /\ \E r \in Requests :
          /\ ~Over(r) /\ request'[r].updated /\ request'[r].user = u /\ request'[r].at = ubicacion'[u].at
          /\ request'[r].kind = "put"

\* A removal leaves no row, but for a deletion of the account that found none to delete.
LEMMA Rows ==
  ASSUME Types_, \A q \in Requests : Known(q), [Next]_vars
  PROVE  /\ \A u \in Accounts : ubicacion'[u] # NULL => Source(u)
         /\ \A q \in Requests :
              ~Over(q) /\ request'[q].phase = "done" /\ request'[q].kind \in {"drop", "removal"} =>
                ubicacion'[request'[q].user] = NULL \/ In(q, "removal", "missed")
         /\ \A q \in Requests :
              In(q, "removal", "missed")' => ubicacion'[request'[q].user] = NULL \/ In(q, "removal", "missed")
<1>1. CASE UNCHANGED vars \/ Ticks
  BY <1>1 DEF Over, In, Source, vars, Ticks
<1>2. ASSUME NEW r \in Requests, Did(r), NEW u \in Accounts, ubicacion'[u] # NULL PROVE Source(u)
  <2>1. CASE ubicacion' = ubicacion
    BY <1>2, <2>1 DEF Source
  <2>2. CASE DidDrop(r) \/ DidRemove(r)
    BY <1>2, <2>2 DEF DidDrop, DidRemove, Source, Types_
  <2>3. CASE DidTouch(r)
    <3>1. CASE u = request[r].user
      <4>1. ubicacion'[u] = Touched(r)
        BY <2>3, <3>1 DEF DidTouch, Types_
      <4>2. ubicacion[u] # NULL /\ Touched(r) = [ubicacion[u] EXCEPT !.actualizada_en = clock]
        BY <1>2, <3>1, <4>1 DEF Touched
      <4>3. ubicacion[u] \in Ubicacion
        BY <4>2 DEF Types_
      <4>4. ubicacion'[u].at = ubicacion[u].at /\ ubicacion'[u].actualizada_en = clock
        BY <4>1, <4>2, <4>3 DEF Ubicacion
      <4> QED
        BY <4>2, <4>4 DEF Source
    <3>2. CASE u # request[r].user
      BY <1>2, <2>3, <3>2 DEF DidTouch, Source, Types_
    <3> QED
      BY <3>1, <3>2
  <2>4. CASE DidSave(r)
    <3>1. CASE u = request[r].user
      <4>1. ubicacion'[u] = [at |-> request[r].at, actualizada_en |-> clock]
        BY <2>4, <3>1 DEF DidSave, Types_
      <4>2. ubicacion'[u].at = request[r].at /\ ubicacion'[u].actualizada_en = clock
        BY <4>1
      <4>3. /\ ~Over(r) /\ request'[r].updated /\ request'[r].user = u /\ request'[r].at = request[r].at
            /\ request'[r].kind = "put"
        BY <2>4, <3>1 DEF DidSave, AtPoint, In, Advances, Over, Kept
      <4> QED
        BY <4>2, <4>3 DEF Source
    <3>2. CASE u # request[r].user
      BY <1>2, <2>4, <3>2 DEF DidSave, Source, Types_
    <3> QED
      BY <3>1, <3>2
  <2> QED
    BY <1>2, <2>1, <2>2, <2>3, <2>4
       DEF Did, Stops, Enters, DidRead, DidStill, DidAnswer, DidFind, DidRecord, DidDelete, DidStart, DidPlace,
           DidShow, DidEnd
<1>3. ASSUME NEW r \in Requests, Did(r), NEW q \in Requests,
             ~Over(q), request'[q].phase = "done", request'[q].kind \in {"drop", "removal"}
      PROVE  ubicacion'[request'[q].user] = NULL \/ In(q, "removal", "missed")
  <2>1. q = r
    BY <1>3, Others DEF Over
  <2>2. DidDrop(r) \/ DidRemove(r)
    BY <1>3, <2>1
       DEF Did, In, Enters, Stops, Arrived, Refused, Advances, Kept, DidRead, DidSave, DidStill, DidTouch, DidAnswer,
           DidFind, DidRecord, DidDelete, DidStart, DidPlace, DidShow, DidEnd, Passes, AtPoint
  <2>3. /\ request'[r].user = request[r].user /\ request[r].user \in Accounts
        /\ ubicacion' = [ubicacion EXCEPT ![request[r].user] = NULL] \/ In(r, "removal", "missed")
    BY <2>2 DEF DidDrop, DidRemove, Passes, AtPoint, In, Advances, Kept, Known
  <2> QED
    BY <2>1, <2>3 DEF Types_
<1>4. ASSUME NEW r \in Requests, Did(r), NEW q \in Requests, In(q, "removal", "missed")', ~In(q, "removal", "missed")
      PROVE  ubicacion'[request'[q].user] = NULL
  <2>1. q = r
    BY <1>4, Others DEF In
  <2>2. DidDelete(r)
    BY <1>4, <2>1
       DEF Did, In, Enters, Stops, Arrived, Refused, Advances, Kept, DidRead, DidSave, DidStill, DidTouch, DidAnswer,
           DidDrop, DidFind, DidRecord, DidRemove, DidStart, DidPlace, DidShow, DidEnd, Passes, AtPoint
  <2> QED
    BY <1>4, <2>1, <2>2 DEF DidDelete, Passes, AtPoint, Advances, Kept, In
<1> QED
  BY <1>1, <1>2, <1>3, <1>4, Steps

\* What was answered was over, or is answered by this step; by then it had arrived.
LEMMA AnsweredThen ==
  ASSUME Types_, \A q \in Requests : Known(q) /\ Forward(q),
         NEW kinds, NEW u, NEW d \in Answered(kinds, u)'
  PROVE  /\ d \in Requests /\ after'[d] = after[d]
         /\ Over(d) => d \in Answered(kinds, u)
         /\ request'[d].user = u /\ request'[d].kind \in kinds /\ request'[d].phase = "done"
BY DEF Answered, Forward, Over

LEMMA AnsweredStays ==
  ASSUME Types_, \A q \in Requests : Known(q) /\ Forward(q),
         NEW kinds, NEW u, NEW d \in Answered(kinds, u)
  PROVE  d \in Requests /\ Over(d) /\ d \in Answered(kinds, u)' /\ request'[d] = request[d] /\ after'[d] = after[d]
BY DEF Answered, Forward, Over

LEMMA SavedStays ==
  ASSUME Types_, \A q \in Requests : Known(q) /\ Forward(q),
         NEW u, NEW r \in Saved(u)
  PROVE  r \in Requests /\ r \in Saved(u)' /\ request'[r].at = request[r].at
<1>1. r \in Requests /\ request[r].updated /\ request[r].user = u
  BY DEF Saved
<1>2. request[r].phase # "idle"
  BY <1>1 DEF Known, Idle
<1>3. request'[r].updated /\ request'[r].user = u /\ request'[r].at = request[r].at
  BY <1>1, <1>2 DEF Forward
<1> QED
  BY <1>1, <1>3 DEF Saved

\* An update is let in before the account is deleted.
NoneLate ==
  \A q \in Requests : request[q].kind = "put" /\ (request[q].phase = "failed" => request[q].updated) =>
    \A d \in after[q] : In(d, "removal", "done") => request[d].user # request[q].user

LEMMA NoneLateStep ==
  ASSUME Types_, \A q \in Requests : Known(q) /\ Forward(q), History, Deletions, NoneLate
  PROVE  NoneLate'
<1> SUFFICES ASSUME NEW q \in Requests, request'[q].kind = "put", request'[q].phase = "failed" => request'[q].updated,
                    NEW d \in after'[q], In(d, "removal", "done")'
             PROVE  request'[d].user # request'[q].user
  BY DEF NoneLate
<1>1. d \in Settled /\ d \in Requests
  BY DEF Forward, History, Settled
<1>2. Over(d) /\ request'[d] = request[d] /\ In(d, "removal", "done")
  BY <1>1 DEF Settled, Forward, In
<1>3. CASE request[q].phase = "idle" /\ request'[q] # request[q]
  <2>1. activo[request'[q].user]
    BY <1>3 DEF Forward
  <2>2. ~activo[request[d].user]
    BY <1>1, <1>2 DEF Deletions
  <2> QED
    BY <1>2, <2>1, <2>2
<1>4. CASE request'[q] = request[q]
  BY <1>2, <1>4 DEF Forward, NoneLate
<1>5. CASE request[q].phase # "idle" /\ request'[q] # request[q]
  <2>1. after'[q] = after[q] /\ ~Over(q)
    BY <1>5 DEF Forward
  <2>2. CASE request[q].updated \/ request'[q].phase # "failed"
    BY <1>2, <1>5, <2>1, <2>2 DEF Forward, NoneLate, Over
  <2>3. CASE ~request[q].updated /\ request'[q].phase = "failed"
    BY <2>1, <2>3 DEF Forward
  <2> QED
    BY <2>2, <2>3
<1> QED
  BY <1>3, <1>4, <1>5

\* RemovedStaysRemoved, and the same of a deletion under way that found no position.
Removed(u) == Answered({"drop", "removal"}, u) \cup {q \in Requests : In(q, "removal", "missed") /\ request[q].user = u}

Removals ==
  \A u \in Accounts : ubicacion[u] # NULL =>
    \E r \in Saved(u) :
      /\ request[r].at = ubicacion[u].at
      /\ \A d \in Removed(u) : r \notin after[d]
      /\ \A d \in Answered({"removal"}, u) : d \notin after[r]

LEMMA RemovedStep ==
  ASSUME Types_, \A q \in Requests : Known(q) /\ Forward(q), History, NoneLate', Removals, [Next]_vars
  PROVE  Removals'
<1> SUFFICES ASSUME NEW u \in Accounts, ubicacion'[u] # NULL
             PROVE  \E r \in Saved(u)' :
                      /\ request'[r].at = ubicacion'[u].at
                      /\ \A d \in Removed(u)' : r \notin after'[d]
                      /\ \A d \in Answered({"removal"}, u)' : d \notin after'[r]
  BY DEF Removals
<1>1. ASSUME NEW d \in Removed(u)' PROVE d \in Removed(u) /\ after'[d] = after[d]
  <2>1. CASE d \in Answered({"drop", "removal"}, u)'
    <3>1. /\ d \in Requests /\ after'[d] = after[d] /\ (Over(d) => d \in Answered({"drop", "removal"}, u))
          /\ request'[d].user = u /\ request'[d].kind \in {"drop", "removal"} /\ request'[d].phase = "done"
      BY <2>1, AnsweredThen
    <3>2. Over(d) \/ In(d, "removal", "missed")
      BY <3>1, Rows
    <3>3. In(d, "removal", "missed") => request[d].user = u
      BY <3>1 DEF In, Forward
    <3> QED
      BY <3>1, <3>2, <3>3 DEF Removed
  <2>2. CASE d \in Requests /\ In(d, "removal", "missed")' /\ request'[d].user = u
    <3>1. In(d, "removal", "missed")
      BY <2>2, Rows
    <3>2. request[d].user = u /\ after'[d] = after[d]
      BY <2>2, <3>1 DEF In, Forward
    <3> QED
      BY <2>2, <3>1, <3>2 DEF Removed
  <2> QED
    BY <2>1, <2>2 DEF Removed
<1>2. Source(u)
  BY Rows
<1>3. CASE ubicacion[u] # NULL /\ ubicacion'[u].at = ubicacion[u].at
  <2>1. PICK r \in Saved(u) :
          /\ request[r].at = ubicacion[u].at
          /\ \A d \in Removed(u) : r \notin after[d]
          /\ \A d \in Answered({"removal"}, u) : d \notin after[r]
    BY <1>3 DEF Removals
  <2>2. r \in Requests /\ r \in Saved(u)' /\ request'[r].at = request[r].at
    BY SavedStays
  <2>3. after'[r] = after[r]
    BY <2>1, <2>2 DEF Saved, Known, Idle, Forward
  <2>4. ASSUME NEW d \in Answered({"removal"}, u)' PROVE d \notin after'[r]
    <3>1. d \in Requests /\ (Over(d) => d \in Answered({"removal"}, u))
      BY AnsweredThen
    <3>2. CASE Over(d)
      BY <2>1, <2>3, <3>1, <3>2
    <3>3. CASE ~Over(d)
      BY <2>2, <3>1, <3>3, NotBefore
    <3> QED
      BY <3>2, <3>3
  <2> QED
    BY <1>1, <1>3, <2>1, <2>2, <2>4
<1>4. CASE \E r \in Requests : /\ ~Over(r) /\ request'[r].updated /\ request'[r].user = u
                               /\ request'[r].at = ubicacion'[u].at /\ request'[r].kind = "put"
  <2>1. PICK r \in Requests : /\ ~Over(r) /\ request'[r].updated /\ request'[r].user = u
                              /\ request'[r].at = ubicacion'[u].at /\ request'[r].kind = "put"
    BY <1>4
  <2>2. r \in Saved(u)'
    BY <2>1 DEF Saved
  <2>3. \A d \in Requests : r \notin after'[d]
    BY <2>1, NotBefore
  <2>4. ASSUME NEW d \in Answered({"removal"}, u)' PROVE d \notin after'[r]
    BY <2>1 DEF NoneLate, Answered, In
  <2>5. \A d \in Removed(u)' : d \in Requests
    BY DEF Removed, Answered
  <2> QED
    BY <2>1, <2>2, <2>3, <2>4, <2>5
<1> QED
  BY <1>2, <1>3, <1>4 DEF Source

LEMMA RemovalsHold ==
  ASSUME Removals
  PROVE  RemovedStaysRemoved
BY DEF Removals, Removed, RemovedStaysRemoved

-----------------------------------------------------------------------------
(* Searches                                                                 *)

\* What a search shows it showed already, or reads now.
LEMMA Shows ==
  ASSUME Types_, \A q \in Requests : Known(q) /\ Forward(q), [Next]_vars, NEW s \in Requests
  PROVE  /\ \A card \in request'[s].shown :
              \/ card \in request[s].shown
              \/ activo[card.user] /\ (card.place.live => ubicacion[card.user] # NULL)
         /\ request'[s].origin # NULL =>
              /\ request'[s].user = request[s].user
              /\ request'[s].origin = request[s].origin \/
                 (request'[s].origin.live => ubicacion[request[s].user] # NULL)
         /\ request'[s].shown # {} \/ request'[s].origin # NULL => after'[s] = after[s]
<1>1. CASE request'[s] = request[s]
  BY <1>1 DEF Forward
<1>2. CASE request'[s] # request[s]
  <2>1. Did(s)
    <3>1. \A r \in Requests : Did(r) => r = s
      BY <1>2, Others
    <3> QED
      BY <1>2, <3>1, Steps DEF vars, Ticks
  <2>2. CASE Enters(s)
    BY <2>2 DEF Enters, Arrived
  <2>3. CASE Stops(s)
    <3>1. after' = after
      BY <2>3 DEF Stops
    <3> QED
      BY <2>3, <3>1 DEF Stops, Refused, Kept, KeptSearch
  <2>4. CASE DidPlace(s)
    BY <2>4 DEF DidPlace, AtPoint, Advances, Kept
  <2>5. CASE DidShow(s)
    BY <2>5 DEF DidShow, AtPoint, Advances, Kept
  <2>6. CASE KeptSearch(request[s], request'[s]) /\ Advances(s)
    BY <2>6 DEF KeptSearch, Advances, Kept
  <2> QED
    BY <2>1, <2>2, <2>3, <2>4, <2>5, <2>6
       DEF Did, DidRead, DidSave, DidStill, DidTouch, DidAnswer, DidDrop, DidFind, DidRecord, DidDelete, DidRemove,
           DidStart, DidEnd,
           Passes, AtPoint
<1> QED
  BY <1>1, <1>2

\* Whether a search places c at a live position.
Live(s, c) ==
  \/ \E card \in request[s].shown : card.user = c /\ card.place.live
  \/ request[s].origin # NULL /\ request[s].user = c /\ request[s].origin.live

Sees(s, c) ==
  /\ (\E card \in request[s].shown : card.user = c) => Answered({"removal"}, c) \cap after[s] = {}
  /\ Live(s, c) => \E r \in Saved(c) : \A d \in Answered({"drop"}, c) \cap after[s] : r \notin after[d]

LEMMA SeesIs == SearchSeesRemovals <=> \A s \in Requests, c \in Accounts : Sees(s, c)
<1>1. ASSUME NEW s \in Requests, NEW c \in Accounts
      PROVE  /\ ({card \in request[s].shown : card.user = c} # {}) <=> (\E card \in request[s].shown : card.user = c)
             /\ ({card \in {card \in request[s].shown : card.user = c} : card.place.live} # {} \/
                 (request[s].origin # NULL /\ request[s].user = c /\ request[s].origin.live)) <=> Live(s, c)
  BY DEF Live
<1> QED
  BY <1>1 DEF SearchSeesRemovals, Sees

LEMMA SearchesStep ==
  ASSUME Types_, \A q \in Requests : Known(q) /\ Forward(q), History, Deletions, RemovedStaysRemoved, SearchSeesRemovals,
         [Next]_vars
  PROVE  SearchSeesRemovals'
<1>1. ASSUME NEW s \in Requests, NEW c \in Accounts PROVE Sees(s, c)'
  <2>0. Sees(s, c)
    BY SeesIs
  <2>1. ASSUME NEW card \in request'[s].shown, card.user = c, NEW d \in Answered({"removal"}, c)', d \in after'[s]
        PROVE  FALSE
    <3>1. after'[s] = after[s]
      BY <2>1, Shows
    <3>2. d \in Requests /\ Over(d)
      BY <2>1, <3>1 DEF History, Settled
    <3>3. d \in Answered({"removal"}, c)
      BY <2>1, <3>2, AnsweredThen
    <3>4. ~activo[c]
      BY <3>3 DEF Answered, Deletions, In
    <3>5. card \in request[s].shown
      BY <2>1, <3>4, Shows
    <3> QED
      BY <2>0, <2>1, <3>1, <3>3, <3>5 DEF Sees
  <2>2. ASSUME Live(s, c)'
        PROVE  \E r \in Saved(c)' : \A d \in Answered({"drop"}, c)' \cap after'[s] : r \notin after'[d]
    <3>1. after'[s] = after[s]
      BY <2>2, Shows DEF Live
    <3>2. \A d \in Answered({"drop"}, c)' \cap after'[s] :
            d \in Answered({"drop"}, c) \cap after[s] /\ d \in Answered({"drop", "removal"}, c) /\ after'[d] = after[d]
      <4>1. ASSUME NEW d \in Answered({"drop"}, c)' \cap after'[s]
            PROVE  d \in Answered({"drop"}, c) \cap after[s] /\ after'[d] = after[d]
        <5>1. Over(d)
          BY <3>1, <4>1 DEF History, Settled
        <5> QED
          BY <3>1, <4>1, <5>1, AnsweredThen
      <4> QED
        BY <4>1 DEF Answered
    <3>3. CASE Live(s, c)
      <4>1. PICK r \in Saved(c) : \A d \in Answered({"drop"}, c) \cap after[s] : r \notin after[d]
        BY <2>0, <3>3 DEF Sees
      <4>2. r \in Saved(c)'
        BY SavedStays
      <4> QED
        BY <3>2, <4>1, <4>2
    <3>4. CASE ubicacion[c] # NULL
      <4>1. PICK r \in Saved(c) : \A d \in Answered({"drop", "removal"}, c) : r \notin after[d]
        BY <3>4 DEF RemovedStaysRemoved
      <4>2. r \in Saved(c)'
        BY SavedStays
      <4> QED
        BY <3>2, <4>1, <4>2
    <3> QED
      BY <2>2, <3>3, <3>4, Shows DEF Live
  <2> QED
    BY <2>1, <2>2 DEF Sees
<1>2. (SearchSeesRemovals <=> \A s \in Requests, c \in Accounts : Sees(s, c))'
  BY SeesIs, PTL
<1> QED
  BY <1>1, <1>2

-----------------------------------------------------------------------------
(* Dates                                                                    *)

\* What was read is not newer than what there is; an update that found its position recent, or has renewed it,
\* finds it recent until it answers.
Dated(q) ==
  LET row == ubicacion[request[q].user]
  IN /\ In(q, "put", "read") /\ request[q].current # NULL =>
          /\ request[q].current.actualizada_en <= clock
          /\ row = NULL \/ request[q].current.actualizada_en <= row.actualizada_en
     /\ In(q, "put", "touching") => request[q].now <= clock
     /\ In(q, "put", "settled") /\ ~request[q].updated =>
          /\ request[q].now <= clock
          /\ row = NULL \/ request[q].now - row.actualizada_en < TouchAfter
     /\ In(q, "put", "done") /\ ~request[q].updated /\ request[q].answer # NULL =>
          request[q].now - request[q].answer < TouchAfter

Dates ==
  /\ \A u \in Accounts : ubicacion[u] # NULL => ubicacion[u].actualizada_en <= clock
  /\ \A q \in Requests : Dated(q)

LEMMA DatesAre ==
  ASSUME Types_
  PROVE  /\ clock \in Nat /\ TouchAfter \in Nat \ {0}
         /\ \A u \in Accounts : ubicacion[u] # NULL => ubicacion[u].actualizada_en \in Nat /\ ubicacion[u].at \in Int
         /\ \A q \in Requests :
              /\ request[q].now \in Nat /\ request[q].answer \in Nat \cup {NULL}
              /\ request[q].current # NULL =>
                   request[q].current.actualizada_en \in Nat /\ request[q].current.at \in Int
<1>1. \A q \in Requests : request[q].now \in Nat /\ request[q].answer \in Nat \cup {NULL}
                          /\ request[q].current \in Ubicacion \cup {NULL}
  BY OfRequest
<1>2. \A row \in Ubicacion : row.actualizada_en \in Nat /\ row.at \in Int
  BY LiveLocationAssumption DEF Ubicacion
<1>3. \A u \in Accounts : ubicacion[u] # NULL => ubicacion[u] \in Ubicacion
  BY DEF Types_
<1>4. clock \in Nat /\ TouchAfter \in Nat \ {0}
  BY LiveLocationAssumption DEF Types_
<1> QED
  BY <1>1, <1>2, <1>3, <1>4

\* A request that takes no step: the row of its person, if there is one, is not older than before.
LEMMA DatedStays ==
  ASSUME Types_, Types_', Dates, NEW q \in Requests, request'[q] = request[q], clock' >= clock,
         LET u == request[q].user
         IN request[q].phase \notin {"idle", "failed"} =>
              /\ u \in Accounts
              /\ ubicacion'[u] # NULL =>
                   \/ ubicacion[u] # NULL /\ ubicacion'[u].actualizada_en = ubicacion[u].actualizada_en
                   \/ ubicacion'[u].actualizada_en = clock
  PROVE  Dated(q)'
<1> DEFINE u == request[q].user
<1>1. Dated(q)
  BY DEF Dates
<1>2. request[q].now \in Nat /\ clock \in Nat /\ clock' \in Nat /\ TouchAfter \in Nat \ {0}
  BY DatesAre, LiveLocationAssumption DEF Types_
<1>3. CASE In(q, "put", "read")
  <2>1. u \in Accounts
    BY <1>3 DEF In
  <2>2. CASE request[q].current = NULL
    BY <1>3, <2>2 DEF Dated, In
  <2>3. CASE request[q].current # NULL
    <3>1. request[q].current.actualizada_en \in Nat /\ request[q].current.actualizada_en <= clock
      BY <1>1, <1>3, <2>3, DatesAre DEF Dated
    <3>2. request[q].current.actualizada_en <= clock'
      BY <1>2, <3>1
    <3>3. ubicacion'[u] = NULL \/ request[q].current.actualizada_en <= ubicacion'[u].actualizada_en
      <4>1. CASE ubicacion'[u] # NULL /\ ubicacion'[u].actualizada_en = clock
        BY <3>1, <4>1
      <4>2. CASE ubicacion'[u] # NULL /\ ubicacion[u] # NULL /\ ubicacion'[u].actualizada_en = ubicacion[u].actualizada_en
        BY <1>1, <1>3, <2>3, <4>2 DEF Dated
      <4> QED
        BY <1>3, <4>1, <4>2 DEF In
    <3> QED
      BY <1>3, <3>2, <3>3 DEF Dated, In
  <2> QED
    BY <2>2, <2>3
<1>4. CASE In(q, "put", "touching")
  BY <1>1, <1>2, <1>4 DEF Dated, In
<1>5. CASE In(q, "put", "settled")
  <2>1. u \in Accounts
    BY <1>5 DEF In
  <2>2. CASE request[q].updated
    BY <1>5, <2>2 DEF Dated, In
  <2>3. CASE ~request[q].updated
    <3>1. request[q].now <= clock
      BY <1>1, <1>5, <2>3 DEF Dated
    <3>2. request[q].now <= clock'
      BY <1>2, <3>1
    <3>3. ubicacion'[u] = NULL \/ request[q].now - ubicacion'[u].actualizada_en < TouchAfter
      <4>1. CASE ubicacion'[u] # NULL /\ ubicacion'[u].actualizada_en = clock
        BY <1>2, <3>1, <4>1
      <4>2. CASE ubicacion'[u] # NULL /\ ubicacion[u] # NULL /\ ubicacion'[u].actualizada_en = ubicacion[u].actualizada_en
        BY <1>1, <1>5, <2>3, <4>2 DEF Dated
      <4> QED
        BY <1>5, <4>1, <4>2 DEF In
    <3> QED
      BY <1>5, <2>3, <3>2, <3>3 DEF Dated, In
  <2> QED
    BY <2>2, <2>3
<1>6. CASE request[q].kind # "put" \/ request[q].phase \notin {"read", "touching", "settled"}
  BY <1>1, <1>6 DEF Dated, In
<1> QED
  BY <1>3, <1>4, <1>5, <1>6 DEF In

\* The request that takes the step.
LEMMA DatedMoves ==
  ASSUME Types_, Types_', Dates, NEW r \in Requests, Known(r), Did(r)
  PROVE  Dated(r)'
<1>0. Dated(r) /\ clock \in Nat /\ TouchAfter \in Nat \ {0}
  BY DatesAre DEF Dates
<1>1. CASE DidRead(r)
  <2>1. /\ request'[r].kind = "put" /\ request'[r].phase = "read" /\ request'[r].user = request[r].user
        /\ request'[r].current = ubicacion[request[r].user] /\ request[r].user \in Accounts
        /\ UNCHANGED <<clock, ubicacion>>
    BY <1>1 DEF DidRead, AtPoint, In, Advances, Kept, Known
  <2>2. ubicacion[request[r].user] # NULL =>
          /\ ubicacion[request[r].user].actualizada_en \in Nat
          /\ ubicacion[request[r].user].actualizada_en <= clock
    BY <2>1, DatesAre DEF Dates
  <2> QED
    BY <2>1, <2>2 DEF Dated, In
<1>2. CASE DidSave(r)
  <2>1. request'[r].updated /\ request'[r].phase = "settled"
    BY <1>2 DEF DidSave, AtPoint
  <2> QED
    BY <2>1 DEF Dated, In
<1>3. CASE DidStill(r)
  <2>1. /\ In(r, "put", "read") /\ request[r].current # NULL
        /\ request'[r].user = request[r].user /\ request[r].user \in Accounts /\ request'[r].now = clock
        /\ UNCHANGED <<clock, ubicacion>>
    BY <1>3 DEF DidStill, AtPoint, In, Advances, Kept, Known
  <2>2. /\ request[r].current.actualizada_en \in Nat
        /\ \/ ubicacion[request[r].user] = NULL
           \/ request[r].current.actualizada_en <= ubicacion[request[r].user].actualizada_en
    BY <1>0, <2>1, DatesAre DEF Dated
  <2>3. CASE request'[r].phase = "touching"
    BY <1>0, <2>1, <2>3 DEF Dated, In
  <2>4. CASE request'[r].phase = "settled" /\ clock - request[r].current.actualizada_en < TouchAfter
    <3>1. ubicacion[request[r].user] # NULL => ubicacion[request[r].user].actualizada_en \in Nat
      BY <2>1, DatesAre
    <3>2. ubicacion[request[r].user] = NULL \/ clock - ubicacion[request[r].user].actualizada_en < TouchAfter
      BY <1>0, <2>2, <2>4, <3>1
    <3> QED
      BY <1>0, <2>1, <2>4, <3>2 DEF Dated, In
  <2> QED
    BY <1>3, <2>3, <2>4 DEF DidStill
<1>4. CASE DidTouch(r)
  <2>1. /\ request[r].kind = "put" /\ request[r].phase = "touching"
        /\ request'[r].phase = "settled" /\ request'[r].now = request[r].now /\ request'[r].user = request[r].user
        /\ request[r].user \in Accounts /\ clock' = clock
        /\ ubicacion' = [ubicacion EXCEPT ![request[r].user] = Touched(r)]
    BY <1>4 DEF DidTouch, KeptPut, AtPoint, In, Advances, Kept, Known
  <2>2. request[r].now \in Nat /\ request[r].now <= clock
    BY <1>0, <2>1, DatesAre DEF Dated, In
  <2>3. ubicacion'[request[r].user] = Touched(r)
    BY <2>1 DEF Types_
  <2>4. Touched(r) = NULL \/ Touched(r).actualizada_en = clock
    BY <2>1 DEF Touched, Types_, Ubicacion
  <2>5. ubicacion'[request[r].user] = NULL \/ request[r].now - ubicacion'[request[r].user].actualizada_en < TouchAfter
    BY <1>0, <2>2, <2>3, <2>4
  <2> QED
    BY <2>1, <2>2, <2>5 DEF Dated, In
<1>5. CASE DidAnswer(r)
  <2>1. /\ In(r, "put", "settled") /\ request'[r].phase = "done" /\ request'[r].now = request[r].now
        /\ request'[r].updated = request[r].updated /\ request[r].user \in Accounts
        /\ request'[r].answer =
             IF ubicacion[request[r].user] = NULL THEN NULL ELSE ubicacion[request[r].user].actualizada_en
    BY <1>5 DEF DidAnswer, AtPoint, In, Known
  <2>2. ~request[r].updated /\ request'[r].answer # NULL => request[r].now - request'[r].answer < TouchAfter
    BY <1>0, <2>1 DEF Dated
  <2> QED
    BY <2>1, <2>2 DEF Dated, In
<1>6. CASE request'[r].kind # "put" \/ request'[r].phase \in {"arrived", "failed"}
  BY <1>6 DEF Dated, In
<1>7. CASE Enters(r) \/ Stops(r)
  BY <1>6, <1>7 DEF Enters, Arrived, Stops, Refused
<1>8. CASE \/ DidDrop(r) \/ DidFind(r) \/ DidRecord(r) \/ DidDelete(r) \/ DidRemove(r)
           \/ DidStart(r) \/ DidPlace(r) \/ DidShow(r) \/ DidEnd(r)
  BY <1>6, <1>8
     DEF DidDrop, DidFind, DidRecord, DidDelete, DidRemove, DidStart, DidPlace, DidShow, DidEnd, Passes, AtPoint, In,
         Advances, Kept
<1> QED
  BY <1>1, <1>2, <1>3, <1>4, <1>5, <1>7, <1>8 DEF Did

LEMMA DatesStep ==
  ASSUME Types_, Types_', \A q \in Requests : Known(q) /\ Forward(q), Dates, [Next]_vars
  PROVE  Dates'
<1>0. clock \in Nat /\ clock' \in Nat /\ clock' >= clock
  <2>1. clock \in Nat
    BY DatesAre
  <2>2. clock' = clock \/ clock' = clock + 1
    BY Steps
       DEF vars, Ticks, Did, Stops, Enters, DidRead, DidSave, DidStill, DidTouch, DidAnswer, DidDrop, DidFind,
           DidRecord, DidDelete,
           DidRemove, DidStart, DidPlace, DidShow, DidEnd
  <2> QED
    BY <2>1, <2>2
<1>1. ASSUME NEW u \in Accounts, ubicacion'[u] # NULL
      PROVE  /\ \/ ubicacion[u] # NULL /\ ubicacion'[u].actualizada_en = ubicacion[u].actualizada_en
                \/ ubicacion'[u].actualizada_en = clock
             /\ ubicacion'[u].actualizada_en <= clock'
  <2>1. \/ ubicacion[u] # NULL /\ ubicacion'[u].actualizada_en = ubicacion[u].actualizada_en
        \/ ubicacion'[u].actualizada_en = clock
    BY <1>1, Rows DEF Source
  <2>2. ubicacion[u] # NULL => ubicacion[u].actualizada_en \in Nat /\ ubicacion[u].actualizada_en <= clock
    BY DatesAre DEF Dates
  <2> QED
    BY <1>0, <2>1, <2>2
<1>2. ASSUME NEW q \in Requests PROVE Dated(q)'
  <2>1. CASE request'[q] = request[q]
    <3>1. request[q].phase \notin {"idle", "failed"} => request[q].user \in Accounts
      BY DEF Known
    <3> QED
      BY <1>0, <1>1, <2>1, <3>1, DatedStays
  <2>2. CASE request'[q] # request[q]
    <3>1. Did(q)
      <4>1. \A r \in Requests : Did(r) => r = q
        BY <2>2, Others
      <4> QED
        BY <2>2, <4>1, Steps DEF vars, Ticks
    <3> QED
      BY <3>1, DatedMoves
  <2> QED
    BY <2>1, <2>2
<1> QED
  BY <1>1, <1>2 DEF Dates

-----------------------------------------------------------------------------
(* The position follows its owner                                           *)

\* An update that explains the position of u and that no answered one supersedes.
Explains(r, u) ==
  /\ r \in Saved(u) \cup Answered({"put"}, u)
  /\ Distance(request[r].at, ubicacion[u].at) < MinMove
  /\ \A q \in Answered({"put"}, u) : r \notin after[q]

\* The same of one that q does not supersede either.
Later(q, u) == \E r \in Requests : Explains(r, u) /\ r \notin after[q]

\* While an update is in progress, the position is the one it read, or what explains it was not over when the update
\* arrived; the same holds of one that found its own near enough, or that has saved it.
Near(q) ==
  LET u == request[q].user
  IN ubicacion[u] # NULL =>
       /\ In(q, "put", "read") /\ request[q].current # NULL =>
            request[q].current.at = ubicacion[u].at \/ Later(q, u)
       /\ In(q, "put", "touching") \/ In(q, "put", "settled") =>
            Distance(request[q].at, ubicacion[u].at) < MinMove \/ Later(q, u)

LEMMA Distances ==
  /\ \A p, q \in Int : Distance(p, q) = Distance(q, p)
  /\ \A p \in Int : Distance(p, p) < MinMove
BY LiveLocationAssumption DEF Distance

LEMMA ExplainsIs ==
  LocationFollowsOwner <=> \A u \in Accounts : ubicacion[u] # NULL => \E r \in Requests : Explains(r, u)
BY DEF LocationFollowsOwner, Explains, Saved, Answered

\* An explanation stays one while the position stays and no update that superseded it is answered.
LEMMA ExplainsStays ==
  ASSUME Types_, \A q \in Requests : Known(q) /\ Forward(q), NEW u \in Accounts, NEW r \in Requests, Explains(r, u),
         ubicacion'[u].at = ubicacion[u].at,
         \A a \in Answered({"put"}, u)' : Over(a) \/ r \notin after[a]
  PROVE  Explains(r, u)'
<1>1. r \in (Saved(u) \cup Answered({"put"}, u))' /\ request'[r].at = request[r].at
  BY SavedStays, AnsweredStays DEF Explains
<1>2. \A a \in Answered({"put"}, u)' : r \notin after'[a]
  BY AnsweredThen DEF Explains
<1> QED
  BY <1>1, <1>2 DEF Explains

\* An update that is under way and near enough once it has saved or is answered.
LEMMA ExplainsNow ==
  ASSUME Types_, \A q \in Requests : Known(q) /\ Forward(q), History, NEW u \in Accounts, NEW r \in Requests,
         ~Over(r), request'[r].user = u,
         request'[r].updated \/ (request'[r].kind = "put" /\ request'[r].phase = "done"),
         Distance(request'[r].at, ubicacion'[u].at) < MinMove
  PROVE  Explains(r, u)' /\ \A q \in Requests : r \notin after'[q]
<1>1. \A q \in Requests : r \notin after'[q]
  BY NotBefore
<1>2. r \in (Saved(u) \cup Answered({"put"}, u))'
  BY DEF Saved, Answered
<1>3. \A q \in Answered({"put"}, u)' : r \notin after'[q]
  BY <1>1 DEF Answered
<1> QED
  BY <1>1, <1>2, <1>3 DEF Explains

\* One explanation that nobody had found over serves everybody.
LEMMA NearAll ==
  ASSUME NEW u, NEW r \in Requests, Explains(r, u)', \A q \in Requests : r \notin after'[q],
         NEW q \in Requests, request'[q].user = u
  PROVE  Near(q)'
<1>1. Later(q, u)'
  BY DEF Later
<1> QED
  BY <1>1 DEF Near

\* Whether the request that takes the step is an update of u that is answered.
Answers(a, u) == DidAnswer(a) /\ request[a].user = u

LEMMA OnlyAnswers ==
  ASSUME Types_, \A q \in Requests : Known(q) /\ Forward(q), [Next]_vars, NEW u,
         NEW a \in Answered({"put"}, u)', ~Over(a)
  PROVE  Answers(a, u)
<1>1. a \in Requests /\ request'[a].phase = "done" /\ request'[a].kind = "put" /\ request'[a].user = u
  BY DEF Answered
<1>2. Did(a)
  <2>1. request'[a] # request[a]
    BY <1>1 DEF Over
  <2>2. \A r \in Requests : Did(r) => r = a
    BY <1>1, <2>1, Others
  <2> QED
    BY <2>1, <2>2, Steps DEF vars, Ticks
<1>3. DidAnswer(a)
  BY <1>1, <1>2
     DEF Did, Enters, Arrived, Stops, Refused, DidRead, DidSave, DidStill, DidTouch, DidDrop, DidFind, DidRecord,
         DidDelete,
         DidRemove, DidStart, DidPlace, DidShow, DidEnd, Passes, AtPoint, In, Advances, Kept
<1> QED
  BY <1>1, <1>3 DEF Answers, DidAnswer, AtPoint, Advances, Kept

\* The position of u is new: what saved it explains it.
LEMMA FollowsSaved ==
  ASSUME Types_, Types_', \A q \in Requests : Known(q) /\ Forward(q), History, NEW u \in Accounts, ubicacion'[u] # NULL,
         NEW r \in Requests, ~Over(r), request'[r].updated, request'[r].user = u, request'[r].at = ubicacion'[u].at
  PROVE  Explains(r, u)' /\ \A q \in Requests : r \notin after'[q]
<1>1. ubicacion'[u] \in Ubicacion
  BY DEF Types_
<1>2. ubicacion'[u].at \in Int
  BY <1>1, LiveLocationAssumption DEF Ubicacion
<1>3. Distance(request'[r].at, ubicacion'[u].at) < MinMove
  BY <1>2, Distances
<1>4. request'[r].updated \/ (request'[r].kind = "put" /\ request'[r].phase = "done")
  OBVIOUS
<1> QED
  BY <1>3, <1>4, ExplainsNow

\* The position stays where it was and no update of u is answered: what explained it does.
LEMMA LaterStays ==
  ASSUME Types_, \A q \in Requests : Known(q) /\ Forward(q), [Next]_vars, NEW u \in Accounts,
         ubicacion'[u].at = ubicacion[u].at, \A a \in Requests : ~Answers(a, u)
  PROVE  /\ \A r \in Requests : Explains(r, u) => Explains(r, u)'
         /\ \A q \in Requests : request[q].phase # "idle" /\ Later(q, u) => Later(q, u)'
<1>1. ASSUME NEW r \in Requests, Explains(r, u) PROVE Explains(r, u)'
  <2>1. \A a \in Answered({"put"}, u)' : Over(a)
    BY OnlyAnswers DEF Answered
  <2> QED
    BY <1>1, <2>1, ExplainsStays
<1>2. ASSUME NEW q \in Requests, request[q].phase # "idle", Later(q, u) PROVE Later(q, u)'
  <2>1. PICK r \in Requests : Explains(r, u) /\ r \notin after[q]
    BY <1>2 DEF Later
  <2>2. Explains(r, u)' /\ r \notin after'[q]
    BY <1>1, <1>2, <2>1 DEF Forward
  <2> QED
    BY <2>2 DEF Later
<1> QED
  BY <1>1, <1>2

\* An update of u is answered: it explains the position, or what did so still does, for it and for whom it served.
LEMMA FollowsAnswer ==
  ASSUME Types_, \A q \in Requests : Known(q) /\ Forward(q), History, NEW u \in Accounts, ubicacion'[u] # NULL,
         NEW a \in Requests, Answers(a, u), \A q \in Requests : Near(q)
  PROVE  /\ \E r \in Requests : Explains(r, u)'
         /\ \A q \in Requests : request'[q].user = u => Near(q)'
<1>1. /\ ubicacion' = ubicacion /\ after' = after /\ ~Over(a) /\ In(a, "put", "settled")
      /\ request'[a].kind = "put" /\ request'[a].phase = "done" /\ request'[a].user = u /\ request'[a].at = request[a].at
      /\ request[a].user = u
      /\ \A q \in Requests : q # a => request'[q] = request[q]
  BY DEF Answers, DidAnswer, AtPoint, Advances, Kept, In, Over
<1>2. CASE Distance(request[a].at, ubicacion[u].at) < MinMove
  <2>1. Explains(a, u)' /\ \A q \in Requests : a \notin after'[q]
    BY <1>1, <1>2, ExplainsNow
  <2> QED
    BY <2>1, NearAll
<1>3. CASE Later(a, u)
  <2>1. PICK r \in Requests : Explains(r, u) /\ r \notin after[a]
    BY <1>3 DEF Later
  <2>2. \A p \in Answered({"put"}, u)' : Over(p) \/ p = a
    BY <1>1 DEF Answered, Over
  <2>3. \A p \in Requests : Explains(p, u) /\ p \notin after[a] => Explains(p, u)'
    BY <1>1, <2>2, ExplainsStays
  <2>4. Explains(r, u)'
    BY <2>1, <2>3
  <2>5. ASSUME NEW q \in Requests, request[q].phase # "idle", q # a, Later(q, u) PROVE Later(q, u)'
    <3>1. PICK p \in Requests : Explains(p, u) /\ p \notin after[q]
      BY <2>5 DEF Later
    <3>2. CASE p \notin after[a]
      BY <1>1, <2>3, <3>1, <3>2 DEF Later
    <3>3. CASE p \in after[a]
      <4>1. after[q] \subseteq after[a]
        BY <3>1, <3>3 DEF History
      <4>2. r \notin after'[q]
        BY <1>1, <2>1, <4>1
      <4> QED
        BY <2>4, <4>2 DEF Later
    <3> QED
      BY <3>2, <3>3
  <2>6. ASSUME NEW q \in Requests, request'[q].user = u PROVE Near(q)'
    <3>1. CASE q = a
      BY <1>1, <3>1 DEF Near, In
    <3>2. CASE q # a /\ request[q].phase = "idle"
      BY <1>1, <3>2 DEF Near, In
    <3>3. CASE q # a /\ request[q].phase # "idle"
      <4>1. request'[q] = request[q] /\ Near(q)
        BY <1>1, <3>3
      <4> QED
        BY <1>1, <2>5, <2>6, <3>3, <4>1 DEF Near, In
    <3> QED
      BY <3>1, <3>2, <3>3
  <2> QED
    BY <2>4, <2>6
<1> QED
  <2>1. Near(a)
    OBVIOUS
  <2> QED
    BY <1>1, <1>2, <1>3, <2>1 DEF Near

\* No update of u is answered, and its position stays where it was.
LEMMA NearStays ==
  ASSUME Types_, Types_', \A q \in Requests : Known(q) /\ Forward(q), [Next]_vars, NEW u \in Accounts,
         ubicacion[u] # NULL, ubicacion'[u] # NULL, ubicacion'[u].at = ubicacion[u].at,
         \A a \in Requests : ~Answers(a, u), NEW q \in Requests, request'[q].user = u, Near(q)
  PROVE  Near(q)'
<1>0. request[q].phase # "idle" /\ Later(q, u) => Later(q, u)'
  BY LaterStays
<1>1. CASE request'[q] = request[q]
  BY <1>0, <1>1 DEF Near, In
<1>2. CASE request'[q] # request[q]
  <2>1. Did(q)
    <3>1. \A r \in Requests : Did(r) => r = q
      BY <1>2, Others
    <3> QED
      BY <1>2, <3>1, Steps DEF vars, Ticks
  <2>2. ubicacion[u].at \in Int
    BY DatesAre
  <2>3. CASE DidRead(q)
    <3>1. /\ request'[q].phase = "read" /\ request'[q].current = ubicacion[u]
      BY <2>3 DEF DidRead, AtPoint, Advances, Kept
    <3> QED
      BY <3>1 DEF Near, In
  <2>4. CASE DidSave(q)
    <3>1. /\ request'[q].phase = "settled" /\ request'[q].at = request[q].at
          /\ request[q].user = u /\ ubicacion' = [ubicacion EXCEPT ![u] = [at |-> request[q].at, actualizada_en |-> clock]]
      BY <2>4 DEF DidSave, AtPoint, Advances, Kept
    <3>2. ubicacion'[u] = [at |-> request[q].at, actualizada_en |-> clock]
      BY <3>1 DEF Types_
    <3>3. ubicacion'[u].at = request[q].at
      BY <3>2
    <3>4. Distance(request'[q].at, ubicacion'[u].at) < MinMove
      BY <2>2, <3>1, <3>3, Distances
    <3> QED
      BY <3>1, <3>4 DEF Near, In
  <2>5. CASE DidStill(q)
    <3>1. /\ In(q, "put", "read") /\ request[q].current # NULL /\ request[q].user = u
          /\ request'[q].at = request[q].at /\ request'[q].phase \in {"touching", "settled"}
          /\ request[q].at \in Places
          /\ Distance(request[q].current.at, request[q].at) < MinMove
      BY <2>5 DEF DidStill, AtPoint, In, Advances, Kept, Known
    <3>2. request[q].current.at = ubicacion[u].at \/ Later(q, u)
      BY <3>1 DEF Near
    <3>3. request[q].current.at = ubicacion[u].at => Distance(request'[q].at, ubicacion'[u].at) < MinMove
      <4>1. request[q].at \in Int
        BY <3>1, LiveLocationAssumption
      <4>2. Distance(ubicacion[u].at, request[q].at) = Distance(request[q].at, ubicacion[u].at)
        BY <2>2, <4>1, Distances
      <4> QED
        BY <3>1, <4>2
    <3>4. request'[q].phase # "read" /\ request[q].phase # "idle"
      BY <3>1 DEF In
    <3> QED
      BY <1>0, <3>2, <3>3, <3>4 DEF Near, In
  <2>6. CASE DidTouch(q)
    <3>1. /\ In(q, "put", "touching") /\ request'[q].phase = "settled" /\ request'[q].at = request[q].at
          /\ request[q].user = u
      BY <2>6 DEF DidTouch, AtPoint, Advances, Kept
    <3>2. Distance(request[q].at, ubicacion[u].at) < MinMove \/ Later(q, u)
      BY <3>1 DEF Near
    <3> QED
      BY <1>0, <3>1, <3>2 DEF Near, In
  <2>7. CASE request'[q].kind # "put" \/ request'[q].phase \in {"arrived", "done", "failed"}
    BY <2>7 DEF Near, In
  <2> QED
    BY <2>1, <2>3, <2>4, <2>5, <2>6, <2>7
       DEF Did, Enters, Arrived, Stops, Refused, DidAnswer, DidDrop, DidFind, DidRecord, DidDelete, DidRemove,
           DidStart, DidPlace,
           DidShow, DidEnd, Passes, AtPoint, In, Advances, Kept
<1> QED
  BY <1>1, <1>2

LEMMA FollowsStep ==
  ASSUME Types_, Types_', \A q \in Requests : Known(q) /\ Forward(q), \A q \in Requests : Known(q)', History,
         LocationFollowsOwner, \A q \in Requests : Near(q), [Next]_vars
  PROVE  LocationFollowsOwner' /\ \A q \in Requests : Near(q)'
<1>1. ASSUME NEW u \in Accounts, ubicacion'[u] # NULL
      PROVE  /\ \E r \in Requests : Explains(r, u)'
             /\ \A q \in Requests : request'[q].user = u => Near(q)'
  <2>1. CASE \E r \in Requests :
               ~Over(r) /\ request'[r].updated /\ request'[r].user = u /\ request'[r].at = ubicacion'[u].at
    <3>1. PICK r \in Requests :
            ~Over(r) /\ request'[r].updated /\ request'[r].user = u /\ request'[r].at = ubicacion'[u].at
      BY <2>1
    <3>2. Explains(r, u)' /\ \A q \in Requests : r \notin after'[q]
      BY <1>1, <3>1, FollowsSaved
    <3> QED
      BY <3>2, NearAll
  <2>2. CASE ubicacion[u] # NULL /\ ubicacion'[u].at = ubicacion[u].at
    <3>1. CASE \E a \in Requests : Answers(a, u)
      BY <1>1, <3>1, FollowsAnswer
    <3>2. CASE \A a \in Requests : ~Answers(a, u)
      <4>1. PICK r \in Requests : Explains(r, u)
        BY <2>2, ExplainsIs
      <4>2. Explains(r, u)'
        BY <2>2, <3>2, <4>1, LaterStays
      <4>3. \A q \in Requests : request'[q].user = u => Near(q)'
        BY <1>1, <2>2, <3>2, NearStays
      <4> QED
        BY <4>2, <4>3
    <3> QED
      BY <3>1, <3>2
  <2> QED
    BY <1>1, <2>1, <2>2, Rows DEF Source
<1>2. LocationFollowsOwner'
  <2>1. (LocationFollowsOwner <=> \A u \in Accounts : ubicacion[u] # NULL => \E r \in Requests : Explains(r, u))'
    BY ExplainsIs, PTL
  <2> QED
    BY <1>1, <2>1
<1>3. ASSUME NEW q \in Requests PROVE Near(q)'
  <2>1. CASE ubicacion'[request'[q].user] = NULL \/ request'[q].phase \in {"idle", "failed"}
    BY <2>1 DEF Near, In
  <2>2. CASE ubicacion'[request'[q].user] # NULL /\ request'[q].phase \notin {"idle", "failed"}
    <3>1. request'[q].user \in Accounts
      BY <2>2 DEF Known
    <3> QED
      BY <1>1, <2>2, <3>1
  <2> QED
    BY <2>1, <2>2
<1> QED
  BY <1>2, <1>3

-----------------------------------------------------------------------------
(* The inductive invariant                                                  *)

IInv ==
  /\ Types_
  /\ \A q \in Requests : Known(q) /\ Near(q)
  /\ History
  /\ Deletions
  /\ Dates
  /\ NoneLate
  /\ Removals
  /\ SearchSeesRemovals
  /\ LocationFollowsOwner

LEMMA InitIInv == Init => IInv
<1> SUFFICES ASSUME Init PROVE IInv
  OBVIOUS
<1>1. /\ Idle.kind = NULL /\ Idle.phase = "idle" /\ Idle.updated = FALSE /\ Idle.origin = NULL /\ Idle.shown = {}
  BY DEF Idle
<1>2. /\ \A q \in Requests : request[q] = Idle /\ after[q] = {}
      /\ \A u \in Accounts : ubicacion[u] = NULL /\ activo[u]
  BY DEF Init
<1>3. Types_
  BY IdleState, LiveLocationAssumption DEF Init, Types_
<1>4. ASSUME NEW q \in Requests PROVE Known(q) /\ Near(q) /\ Dated(q)
  BY <1>1, <1>2 DEF Known, Near, Dated, In
<1>5. History /\ Deletions
  BY <1>1, <1>2 DEF History, Deletions, Recorded, In
<1>6. Dates /\ NoneLate /\ Removals /\ LocationFollowsOwner
  BY <1>2, <1>4 DEF Dates, NoneLate, Removals, LocationFollowsOwner
<1>7. ASSUME NEW s \in Requests, NEW c \in Accounts PROVE Sees(s, c)
  BY <1>1, <1>2 DEF Sees, Live
<1>8. SearchSeesRemovals
  BY <1>7, SeesIs
<1> QED
  BY <1>3, <1>4, <1>5, <1>6, <1>8 DEF IInv

LEMMA NextIInv == IInv /\ [Next]_vars => IInv'
<1> SUFFICES ASSUME IInv, [Next]_vars PROVE IInv'
  OBVIOUS
<1>0. /\ Types_ /\ (\A q \in Requests : Known(q)) /\ (\A q \in Requests : Near(q)) /\ History /\ Deletions /\ Dates
      /\ NoneLate /\ Removals /\ SearchSeesRemovals /\ LocationFollowsOwner
  BY DEF IInv
<1>1. \A q \in Requests : Forward(q)
  BY <1>0, NextForward
<1>2. Types_'
  BY <1>0, TypesStep
<1>3. \A q \in Requests : Known(q) /\ Forward(q)
  BY <1>0, <1>1
<1>4. \A q \in Requests : Known(q)'
  BY <1>0, <1>3, KnownStep
<1>5. History' /\ Deletions' /\ Dates'
  BY <1>0, <1>2, <1>3, HistoryStep, DeletionsStep, DatesStep
<1>8. NoneLate'
  BY <1>0, <1>3, NoneLateStep
<1>6. Removals' /\ SearchSeesRemovals'
  BY <1>0, <1>3, <1>8, RemovedStep, SearchesStep, RemovalsHold
<1>7. LocationFollowsOwner' /\ \A q \in Requests : Near(q)'
  BY <1>0, <1>2, <1>3, <1>4, FollowsStep
<1> QED
  BY <1>2, <1>4, <1>5, <1>6, <1>7, <1>8 DEF IInv

\* The invariant holds in every state: each step keeps it.
THEOREM Inductive == Spec => []IInv
BY InitIInv, NextIInv, PTL DEF Spec

-----------------------------------------------------------------------------
(* Theorems                                                                 *)

\* Tables and local states keep their types.
THEOREM Types == Spec => []TypeOK
<1>1. IInv => TypeOK
  <2> SUFFICES ASSUME IInv PROVE TypeOK
    OBVIOUS
  <2>1. Types_
    BY DEF IInv
  <2> QED
    BY <2>1, OfRequest DEF TypeOK, Types_, Kind, Phase
<1> QED
  BY <1>1, Inductive, PTL

\* The position kept is less than the minimum move from what its person reported in an update that no later one,
\* answered, supersedes.
THEOREM FollowsOwner == Spec => []LocationFollowsOwner
<1>1. IInv => LocationFollowsOwner
  BY DEF IInv
<1> QED
  BY <1>1, Inductive, PTL

\* A position that was removed comes back only with an update that was under way; after a deletion of the account, with
\* one that had been let in before it.
THEOREM StaysRemoved == Spec => []RemovedStaysRemoved
<1>1. IInv => RemovedStaysRemoved
  BY RemovalsHold DEF IInv
<1> QED
  BY <1>1, Inductive, PTL

\* Who stays still has a position whose date is recent.
THEOREM StillRenewed == Spec => []StillPersonRenewed
<1>1. IInv => StillPersonRenewed
  BY DEF IInv, Dates, Dated, StillPersonRenewed
<1> QED
  BY <1>1, Inductive, PTL

\* A search shows nobody deleted, and no position removed, before it arrived.
THEOREM SearchesSee == Spec => []SearchSeesRemovals
<1>1. IInv => SearchSeesRemovals
  BY DEF IInv
<1> QED
  BY <1>1, Inductive, PTL

\* Every deletion of an account is in the audit.
THEOREM EveryDeletionRecorded == Spec => []DeletionRecorded
<1>1. IInv => DeletionRecorded
  BY DEF IInv, Deletions, In, DeletionRecorded
<1> QED
  BY <1>1, Inductive, PTL
=============================================================================
