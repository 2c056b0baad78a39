---------------------------- MODULE ContactProofs ----------------------------
(***************************************************************************)
(* What TLAPS proves of Contact for every value of the constants: any      *)
(* number of people and of requests of every kind, and any deletions.      *)
(* From "Sums over finite sets" on, what it proves of Suggestions: any     *)
(* people, sports, filters, places and limits.                             *)
(***************************************************************************)
EXTENDS Contact, Suggestions, FiniteSetTheorems, WellFoundedInduction, TLAPS

Kind == {NULL, "POST", "PUT", "unblock", "cards", "suggestions", "check", "mutes"}
Phase == {"idle", "arrived", "found", "placed", "recorded", "listed", "listing", "deleting", "inserting",
          "done", "failed", "KeyError"}

\* The local state of a request.
State ==
  [kind : Kind, phase : Phase, user : Accounts \cup {NULL}, ids : SUBSET Accounts, off : SUBSET Accounts,
   todo : SUBSET Accounts, shown : SUBSET Accounts, applied : BOOLEAN]

\* The types, as TypeOK states them and with every request a record.
Types_ ==
  /\ activo \in [Accounts -> BOOLEAN]
  /\ bloqueo \subseteq Pairs /\ silencio \subseteq Pairs
  /\ seen \in [Requests -> SUBSET Pairs] /\ held \in [Requests -> SUBSET Pairs]
  /\ after \in [Requests -> SUBSET Requests] /\ open \in [Requests -> SUBSET Accounts]
  /\ request \in [Requests -> State]

-----------------------------------------------------------------------------
(* How a step changes the request that takes it                             *)

Kept(s, n) == n \in State /\ n.kind = s.kind /\ n.user = s.user /\ n.ids = s.ids /\ n.off = s.off

GoTo(s, n, p) == n = [s EXCEPT !.phase = p]

LEMMA GoChange ==
  ASSUME NEW s \in State, NEW p \in Phase, NEW n, GoTo(s, n, p)
  PROVE  Kept(s, n) /\ n.phase = p /\ n.todo = s.todo /\ n.shown = s.shown /\ n.applied = s.applied
BY DEF State, Kept, GoTo

ApplyTo(s, n) == n = [s EXCEPT !.phase = "placed", !.applied = TRUE]

LEMMA ApplyChange ==
  ASSUME NEW s \in State, NEW n, ApplyTo(s, n)
  PROVE  Kept(s, n) /\ n.phase = "placed" /\ n.todo = s.todo /\ n.shown = s.shown /\ n.applied = TRUE
BY DEF State, Kept, ApplyTo, Phase

TodoTo(s, n, ids) == n = [s EXCEPT !.phase = "listing", !.todo = ids]

PutTo(s, n, p, ids) == n = [s EXCEPT !.phase = p, !.todo = ids]

LEMMA PutChange ==
  ASSUME NEW s \in State, NEW p \in Phase, NEW ids \in SUBSET Accounts, NEW n, PutTo(s, n, p, ids)
  PROVE  Kept(s, n) /\ n.phase = p /\ n.todo = ids /\ n.shown = s.shown /\ n.applied = s.applied
BY DEF State, Kept, PutTo

LEMMA TodoChange ==
  ASSUME NEW s \in State, NEW ids \in SUBSET Accounts, NEW n, TodoTo(s, n, ids)
  PROVE  Kept(s, n) /\ n.phase = "listing" /\ n.todo = ids /\ n.shown = s.shown /\ n.applied = s.applied
BY DEF State, Kept, TodoTo, Phase

ListTo(s, n, ids, people) == n = [s EXCEPT !.todo = ids, !.shown = people]

LEMMA ListChange ==
  ASSUME NEW s \in State, NEW ids \in SUBSET Accounts, NEW people \in SUBSET Accounts, NEW n, ListTo(s, n, ids, people)
  PROVE  Kept(s, n) /\ n.phase = s.phase /\ n.todo = ids /\ n.shown = people /\ n.applied = s.applied
BY DEF State, Kept, ListTo

ShowTo(s, n, p, people) == n = [s EXCEPT !.phase = p, !.shown = people]

LEMMA ShowChange ==
  ASSUME NEW s \in State, NEW p \in Phase, NEW people \in SUBSET Accounts, NEW n, ShowTo(s, n, p, people)
  PROVE  Kept(s, n) /\ n.phase = p /\ n.todo = s.todo /\ n.shown = people /\ n.applied = s.applied
BY DEF State, Kept, ShowTo

LEMMA MakeState ==
  ASSUME NEW kind \in Kind, NEW phase \in Phase, NEW user \in Accounts \cup {NULL}, NEW ids \in SUBSET Accounts,
         NEW off \in SUBSET Accounts, NEW todo \in SUBSET Accounts, NEW shown \in SUBSET Accounts, NEW applied \in BOOLEAN
  PROVE  [kind |-> kind, phase |-> phase, user |-> user, ids |-> ids, off |-> off, todo |-> todo, shown |-> shown,
          applied |-> applied] \in State
BY DEF State

LEMMA Empties ==
  /\ NULL \in Kind /\ NULL \in Accounts \cup {NULL} /\ {} \in SUBSET Accounts /\ FALSE \in BOOLEAN
  /\ "idle" \in Phase /\ "arrived" \in Phase /\ "failed" \in Phase
BY DEF Kind, Phase

LEMMA IdleState == Idle \in State
BY Empties, MakeState, Zenon DEF Idle

\* A request that arrives was idle.
Made(n, kind, u, ids, off, todo) ==
  n = [kind |-> kind, phase |-> "arrived", user |-> u, ids |-> ids, off |-> off, todo |-> todo, shown |-> {},
       applied |-> FALSE]

Arrived(n, kind, u, ids, off, todo) ==
  /\ n \in State /\ n.kind = kind /\ n.phase = "arrived" /\ n.user = u /\ n.ids = ids /\ n.off = off /\ n.todo = todo
  /\ n.shown = {} /\ n.applied = FALSE

LEMMA MadeArrives ==
  ASSUME NEW kind \in Kind, NEW u \in Accounts, NEW ids \in SUBSET Accounts, NEW off \in SUBSET Accounts,
         NEW todo \in SUBSET Accounts, NEW n, Made(n, kind, u, ids, off, todo)
  PROVE  Arrived(n, kind, u, ids, off, todo)
<1>1. n \in State
  BY Empties, MakeState, Zenon DEF Made
<1>2. /\ n.kind = kind /\ n.phase = "arrived" /\ n.user = u /\ n.ids = ids /\ n.off = off /\ n.todo = todo
      /\ n.shown = {} /\ n.applied = FALSE
  BY DEF Made
<1> QED
  BY <1>1, <1>2 DEF Arrived

Entry(n, kind, u, ids, off, todo) ==
  n = [Idle EXCEPT !.kind = kind, !.phase = "arrived", !.user = u, !.ids = ids, !.off = off, !.todo = todo]

LEMMA EntryMade ==
  ASSUME NEW kind, NEW u, NEW ids, NEW off, NEW todo, NEW n, Entry(n, kind, u, ids, off, todo)
  PROVE  Made(n, kind, u, ids, off, todo)
BY DEF Idle, Made, Entry

\* One that ends without success is forgotten, but for what it committed.
Refused(s, n) ==
  /\ n \in State /\ n.phase = "failed" /\ n.shown = {} /\ n.todo = {} /\ n.applied = s.applied
  /\ s.applied => Kept(s, n)
  /\ ~s.applied => n.kind = NULL

FailTo(s, n) == n = [s EXCEPT !.phase = "failed", !.todo = {}, !.shown = {}]
Blank(n) == n = [kind |-> NULL, phase |-> "failed", user |-> NULL, ids |-> {}, off |-> {}, todo |-> {}, shown |-> {},
                 applied |-> FALSE]

LEMMA FailChange ==
  ASSUME NEW s \in State, NEW n, FailTo(s, n)
  PROVE  Kept(s, n) /\ n.phase = "failed" /\ n.todo = {} /\ n.shown = {} /\ n.applied = s.applied
BY DEF State, Kept, FailTo, Phase

LEMMA BlankState ==
  ASSUME NEW n, Blank(n)
  PROVE  n \in State /\ n.kind = NULL /\ n.phase = "failed" /\ n.todo = {} /\ n.shown = {} /\ n.applied = FALSE
<1>1. n \in State
  BY Empties, MakeState, Zenon DEF Blank
<1>2. n.kind = NULL /\ n.phase = "failed" /\ n.todo = {} /\ n.shown = {} /\ n.applied = FALSE
  BY DEF Blank
<1> QED
  BY <1>1, <1>2

RefuseTo(s, n) ==
  n = IF s.applied THEN [s EXCEPT !.phase = "failed", !.todo = {}, !.shown = {}] ELSE [Idle EXCEPT !.phase = "failed"]

LEMMA RefusedState ==
  ASSUME NEW s \in State, NEW n, RefuseTo(s, n)
  PROVE  Refused(s, n)
<1>1. CASE s.applied
  <2>1. FailTo(s, n)
    BY <1>1 DEF FailTo, RefuseTo
  <2>2. Kept(s, n) /\ n.phase = "failed" /\ n.todo = {} /\ n.shown = {} /\ n.applied = s.applied
    BY <2>1, FailChange
  <2> QED
    BY <1>1, <2>2 DEF Refused, Kept
<1>2. CASE ~s.applied
  <2>1. Blank(n)
    BY <1>2 DEF Blank, Idle, RefuseTo
  <2>2. n \in State /\ n.kind = NULL /\ n.phase = "failed" /\ n.todo = {} /\ n.shown = {} /\ n.applied = FALSE
    BY <2>1, BlankState
  <2>3. s.applied = FALSE
    BY <1>2 DEF State
  <2> QED
    BY <1>2, <2>2, <2>3 DEF Refused
<1> QED
  BY <1>1, <1>2

-----------------------------------------------------------------------------
(* What a step does to the requests                                         *)

Shows == {"cards", "suggestions", "check"}

\* A step of r on its way, one that ends it without success, and its arrival.
Advances(r) ==
  /\ request[r].phase \notin {"idle", "done", "failed", "KeyError"}
  /\ request'[r].phase \notin {"idle", "arrived", "failed"} \/ request'[r].phase = request[r].phase
  /\ Kept(request[r], request'[r])
  /\ \A q \in Requests : q # r => request'[q] = request[q]
  /\ request' \in [Requests -> State]
  /\ after' = after

Stops(r) ==
  /\ request[r].phase \notin {"idle", "done", "failed", "KeyError"}
  /\ Refused(request[r], request'[r])
  /\ \A q \in Requests : q # r => request'[q] = request[q]
  /\ request' \in [Requests -> State]
  /\ Reads

\* What a request is about, by its kind.
Asked(kind, u, ids, off, todo) ==
  /\ kind \in {"POST", "PUT", "unblock", "check"} => \E p \in Pairs : u = p[1] /\ ids = {p[2]}
  /\ kind \in Shows => todo = {}
  /\ kind = "mutes" => u \notin ids \cup off /\ ids \cap off = {}

Settled == {q \in Requests : Over(q)}

Enters(r) ==
  /\ request[r].phase = "idle"
  /\ \E kind \in Kind, u \in Accounts, ids, off, todo \in SUBSET Accounts :
       /\ Asked(kind, u, ids, off, todo) /\ Arrived(request'[r], kind, u, ids, off, todo)
       /\ open'[r] = Open(kind, bloqueo, u)
  /\ \A q \in Requests : q # r => request'[q] = request[q] /\ after'[q] = after[q] /\ open'[q] = open[q]
  /\ request' \in [Requests -> State]
  /\ after'[r] = Settled
  /\ after' \in [Requests -> SUBSET Requests] /\ open' \in [Requests -> SUBSET Accounts]
  /\ UNCHANGED <<activo, bloqueo, silencio>>

LEMMA Replaced ==
  ASSUME Types_, NEW r \in Requests, NEW n \in State, request' = [request EXCEPT ![r] = n]
  PROVE  /\ request'[r] = n
         /\ \A q \in Requests : q # r => request'[q] = request[q]
         /\ request' \in [Requests -> State]
BY DEF Types_

LEMMA OfRequest ==
  ASSUME Types_, NEW r \in Requests
  PROVE  /\ request[r] \in State
         /\ request[r].kind \in Kind /\ request[r].phase \in Phase /\ request[r].user \in Accounts \cup {NULL}
         /\ request[r].ids \in SUBSET Accounts /\ request[r].off \in SUBSET Accounts
         /\ request[r].todo \in SUBSET Accounts /\ request[r].shown \in SUBSET Accounts
         /\ request[r].applied \in BOOLEAN
BY DEF Types_, State

LEMMA OpenIn == \A kind, table, u : Open(kind, table, u) \in SUBSET Accounts
BY DEF Open

LEMMA RefuseStops ==
  ASSUME Types_, NEW r \in Requests, request[r].phase \notin {"idle", "done", "failed", "KeyError"}, Refuse(r), Reads
  PROVE  Stops(r)
<1>1. PICK s \in State : s = request[r]
  BY OfRequest
<1>2. PICK n : RefuseTo(s, n)
  BY DEF RefuseTo
<1>3. Refused(s, n)
  BY <1>2, RefusedState
<1>4. n \in State
  BY <1>3 DEF Refused
<1>5. request' = [request EXCEPT ![r] = n]
  BY <1>1, <1>2 DEF Refuse, RefuseTo
<1>6. request'[r] = n /\ (\A q \in Requests : q # r => request'[q] = request[q]) /\ request' \in [Requests -> State]
  BY <1>4, <1>5, Replaced
<1> QED
  BY <1>1, <1>3, <1>6 DEF Stops

LEMMA ArrivesEnters ==
  ASSUME Types_, NEW r \in Requests, NEW kind \in Kind, NEW u \in Accounts, NEW ids \in SUBSET Accounts,
         NEW off \in SUBSET Accounts, NEW todo \in SUBSET Accounts, Asked(kind, u, ids, off, todo),
         Arrives(r, kind, u, ids, off, todo), request[r].phase = "idle" => request[r] = Idle
  PROVE  Enters(r)
<1>1. PICK n : Entry(n, kind, u, ids, off, todo)
  BY DEF Entry
<1>2. Arrived(n, kind, u, ids, off, todo)
  <2>1. Made(n, kind, u, ids, off, todo)
    BY <1>1, EntryMade
  <2> QED
    BY <2>1, MadeArrives
<1>3. n \in State
  BY <1>2 DEF Arrived
<1>4. request' = [request EXCEPT ![r] = n]
  BY <1>1 DEF Arrives, Entry
<1>5. request'[r] = n /\ (\A q \in Requests : q # r => request'[q] = request[q]) /\ request' \in [Requests -> State]
  BY <1>3, <1>4, Replaced
<1>6. /\ after'[r] = Settled /\ (\A q \in Requests : q # r => after'[q] = after[q])
      /\ after' \in [Requests -> SUBSET Requests]
  BY DEF Arrives, Settled, Types_
<1>7. /\ open'[r] = Open(kind, bloqueo, u) /\ (\A q \in Requests : q # r => open'[q] = open[q])
      /\ open' \in [Requests -> SUBSET Accounts]
  BY OpenIn DEF Arrives, Types_
<1>8. request[r].phase = "idle" /\ UNCHANGED <<activo, bloqueo, silencio>>
  BY DEF Arrives
<1>9. \E k \in Kind, v \in Accounts, i, o, t \in SUBSET Accounts :
        Asked(k, v, i, o, t) /\ Arrived(request'[r], k, v, i, o, t) /\ open'[r] = Open(k, bloqueo, v)
  BY <1>2, <1>5, <1>7
<1> QED
  BY <1>5, <1>6, <1>7, <1>8, <1>9 DEF Enters

\* A step on the way: from what r holds to n.
LEMMA StepAdvances ==
  ASSUME Types_, NEW r \in Requests, NEW n, Kept(request[r], n),
         request[r].phase \notin {"idle", "done", "failed", "KeyError"},
         n.phase \notin {"idle", "arrived", "failed"} \/ n.phase = request[r].phase,
         request' = [request EXCEPT ![r] = n], after' = after
  PROVE  Advances(r) /\ request'[r] = n
<1>1. n \in State
  BY DEF Kept
<1>2. request'[r] = n /\ (\A q \in Requests : q # r => request'[q] = request[q]) /\ request' \in [Requests -> State]
  BY <1>1, Replaced
<1> QED
  BY <1>2 DEF Advances

-----------------------------------------------------------------------------
(* What each action does                                                    *)

\* A request that has not arrived tells nothing; one under way, or that changed the tables, is what it arrived as.
Known(q) ==
  /\ request[q].phase = "idle" => request[q] = Idle
  /\ request[q].phase \notin {"idle", "failed"} \/ request[q].applied =>
       /\ request[q].user \in Accounts
       /\ Asked(request[q].kind, request[q].user, request[q].ids, request[q].off, {})

LEMMA PairIs ==
  ASSUME NEW r \in Requests, NEW p \in Pairs, request[r].user = p[1], request[r].ids = {p[2]}
  PROVE  PairOf(r) = p
<1>1. (CHOOSE b \in {p[2]} : TRUE) = p[2]
  OBVIOUS
<1>2. p = <<p[1], p[2]>>
  BY DEF Pairs
<1> QED
  BY <1>1, <1>2 DEF PairOf

\* No more than where the request is, and whom it has left to look up or found, of those with an account.
DidList(r) ==
  /\ Advances(r) /\ request'[r].applied = request[r].applied
  /\ request'[r].phase # "KeyError"
  /\ request[r].kind \in Shows =>
       /\ request'[r].todo \subseteq request[r].todo
       /\ request'[r].shown \subseteq request[r].shown \cup {b \in request[r].todo : activo[b]}
  /\ Reads

\* The block is not there to be read back.
DidMiss(r) ==
  /\ Advances(r) /\ request'[r].applied = request[r].applied /\ request[r].kind = "POST"
  /\ request'[r].phase = "KeyError" /\ PairOf(r) \notin bloqueo
  /\ Reads

\* The list is drawn from those with no block.
DidDraw(r) ==
  /\ Advances(r) /\ request'[r].applied = request[r].applied /\ request[r].kind = "cards"
  /\ request'[r].phase # "KeyError" /\ request'[r].shown = request[r].shown
  /\ {b \in request'[r].todo : activo[b]} \subseteq Open("cards", bloqueo, request[r].user)
  /\ Reads

\* The answer itself is.
DidShow(r) ==
  /\ Advances(r) /\ request'[r].applied = request[r].applied /\ request[r].kind \in {"suggestions", "check"}
  /\ request'[r].phase # "KeyError" /\ request'[r].todo = request[r].todo
  /\ request'[r].shown \subseteq Open(request[r].kind, bloqueo, request[r].user)
  /\ Reads

\* A change is committed.
Applies(r) == Advances(r) /\ request'[r].applied = TRUE /\ request'[r].phase = "placed"

DidBlock(r) ==
  /\ Applies(r) /\ IsBlock(r)
  /\ bloqueo' = WithBlock(PairOf(r)) /\ Opened /\ UNCHANGED <<activo, silencio>>

DidUnblock(r) ==
  /\ Applies(r) /\ request[r].kind = "unblock"
  /\ bloqueo' = WithoutBlock(PairOf(r)) /\ Opened /\ UNCHANGED <<activo, silencio>>

DidMute(r) ==
  /\ Applies(r) /\ In(r, "mutes", "inserting") /\ request[r].todo = {}
  /\ silencio' = (silencio \ Deleted(r)) \cup Inserted(r)
  /\ seen' = [q \in Requests |-> seen[q] \ Deleted(r)]
  /\ held' = [held EXCEPT ![r] = {}]
  /\ UNCHANGED <<activo, bloqueo, open>>

Did(r) ==
  \/ Enters(r) \/ Stops(r) \/ DidList(r) \/ DidMiss(r) \/ DidDraw(r) \/ DidShow(r)
  \/ DidBlock(r) \/ DidUnblock(r) \/ DidMute(r)

\* What it does to the rows of the mutes that the requests found and hold.
Under(r) == request'[r].phase \in {"deleting", "inserting"}

Rests(r) ==
  /\ request'[r].kind = "mutes" => ~Under(r)
  /\ seen' \in [Requests -> SUBSET Pairs] /\ held' \in [Requests -> SUBSET Pairs]
  /\ \A q \in Requests : q # r => seen'[q] = seen[q] /\ held'[q] = held[q]

Moves(r) ==
  \/ MutesDelete(r) \/ MutesInsert(r) \/ DidMute(r) \/ Rests(r)
  \/ \E b \in Accounts : MutesDeleteRow(r, b) \/ MutesInsertRow(r, b)

Deletes ==
  /\ \E u \in Accounts : activo' = [activo EXCEPT ![u] = FALSE]
  /\ UNCHANGED <<bloqueo, silencio, request, after, open>> /\ UNCHANGED locks

LEMMA GoAdvances ==
  ASSUME Types_, NEW r \in Requests, NEW p \in Phase \ {"idle", "arrived", "failed"},
         request[r].phase \notin {"idle", "done", "failed", "KeyError"}, Go(r, p), after' = after
  PROVE  /\ Advances(r) /\ request'[r].phase = p /\ request'[r].applied = request[r].applied
         /\ request'[r].todo = request[r].todo /\ request'[r].shown = request[r].shown
<1>1. PICK s \in State : s = request[r]
  BY OfRequest
<1>2. PICK n : GoTo(s, n, p)
  BY DEF GoTo
<1>3. Kept(s, n) /\ n.phase = p /\ n.todo = s.todo /\ n.shown = s.shown /\ n.applied = s.applied
  BY <1>2, GoChange
<1>4. request' = [request EXCEPT ![r] = n]
  BY <1>1, <1>2 DEF Go, GoTo
<1>5. Kept(request[r], n) /\ n.phase \notin {"idle", "arrived", "failed"}
  BY <1>1, <1>3
<1>6. Advances(r) /\ request'[r] = n
  BY <1>4, <1>5, StepAdvances
<1> QED
  BY <1>1, <1>3, <1>6

LEMMA ApplyAdvances ==
  ASSUME Types_, NEW r \in Requests, request[r].phase \notin {"idle", "done", "failed", "KeyError"}, Apply(r),
         after' = after
  PROVE  Applies(r)
<1>1. PICK s \in State : s = request[r]
  BY OfRequest
<1>2. PICK n : ApplyTo(s, n)
  BY DEF ApplyTo
<1>3. Kept(s, n) /\ n.phase = "placed" /\ n.applied = TRUE
  BY <1>2, ApplyChange
<1>4. request' = [request EXCEPT ![r] = n]
  BY <1>1, <1>2 DEF Apply, ApplyTo
<1>5. Kept(request[r], n) /\ n.phase \notin {"idle", "arrived", "failed"}
  BY <1>1, <1>3
<1>6. Advances(r) /\ request'[r] = n
  BY <1>4, <1>5, StepAdvances
<1> QED
  BY <1>1, <1>3, <1>6 DEF Applies

\* A step that only goes on.
LEMMA GoLists ==
  ASSUME Types_, NEW r \in Requests, NEW p \in Phase \ {"idle", "arrived", "failed", "KeyError"},
         request[r].phase \notin {"idle", "done", "failed", "KeyError"}, Go(r, p), Reads
  PROVE  DidList(r) /\ request'[r].phase = p
<1>1. after' = after
  BY DEF Reads
<1>2. /\ Advances(r) /\ request'[r].phase = p /\ request'[r].applied = request[r].applied
      /\ request'[r].todo = request[r].todo /\ request'[r].shown = request[r].shown
  BY <1>1, GoAdvances
<1> QED
  BY <1>2 DEF DidList

LEMMA BlockDoes ==
  ASSUME Types_, NEW r \in Requests,
         BlockLookUp(r) \/ BlockCommit(r) \/ BlockAudit(r) \/ BlockReadBack(r) \/ BlockAnswer(r)
  PROVE  Did(r)
<1>0. {"found", "placed", "recorded", "listed", "done", "KeyError"} \subseteq Phase \ {"idle", "arrived", "failed"}
  BY DEF Phase
<1>1. CASE BlockLookUp(r)
  <2>1. request[r].phase = "arrived" /\ Reads /\ (Go(r, "found") \/ Refuse(r))
    BY <1>1 DEF BlockLookUp
  <2> QED
    BY <1>0, <2>1, GoLists, RefuseStops DEF Did
<1>2. CASE BlockCommit(r)
  <2>1. Applies(r)
    BY <1>2, ApplyAdvances DEF BlockCommit
  <2> QED
    BY <1>2, <2>1 DEF BlockCommit, DidBlock, Did
<1>3. CASE BlockAudit(r)
  <2>1. request[r].phase = "placed" /\ Reads /\ (Go(r, "recorded") \/ Go(r, "done"))
    BY <1>3 DEF BlockAudit
  <2> QED
    BY <1>0, <2>1, GoLists DEF Did
<1>4. CASE BlockReadBack(r)
  <2>1. request[r].phase = "recorded" /\ request[r].kind = "POST" /\ Reads
    BY <1>4 DEF BlockReadBack, In
  <2>2. CASE Go(r, "listed")
    BY <1>0, <2>1, <2>2, GoLists DEF Did
  <2>3. CASE Go(r, "KeyError") /\ PairOf(r) \notin bloqueo
    <3>1. after' = after
      BY <2>1 DEF Reads
    <3>2. Advances(r) /\ request'[r].phase = "KeyError" /\ request'[r].applied = request[r].applied
      BY <1>0, <2>1, <2>3, <3>1, GoAdvances
    <3> QED
      BY <2>1, <2>3, <3>2 DEF DidMiss, Did
  <2> QED
    BY <1>4, <2>2, <2>3 DEF BlockReadBack
<1>5. CASE BlockAnswer(r)
  <2>1. request[r].phase = "listed" /\ Reads /\ (Go(r, "done") \/ Refuse(r))
    BY <1>5 DEF BlockAnswer, In
  <2> QED
    BY <1>0, <2>1, GoLists, RefuseStops DEF Did
<1> QED
  BY <1>1, <1>2, <1>3, <1>4, <1>5

LEMMA UnblockDoes ==
  ASSUME Types_, NEW r \in Requests, UnblockCommit(r) \/ UnblockAudit(r)
  PROVE  Did(r)
<1>1. CASE UnblockCommit(r)
  <2>1. Applies(r)
    BY <1>1, ApplyAdvances DEF UnblockCommit, In
  <2> QED
    BY <1>1, <2>1 DEF UnblockCommit, In, DidUnblock, Did
<1>2. CASE UnblockAudit(r)
  <2>1. request[r].phase = "placed" /\ Reads /\ Go(r, "done") /\ "done" \in Phase
    BY <1>2 DEF UnblockAudit, In, Phase
  <2> QED
    BY <2>1, GoLists DEF Did
<1> QED
  BY <1>1, <1>2

LEMMA CardsReadDoes ==
  ASSUME Types_, NEW r \in Requests, CardsRead(r)
  PROVE  DidDraw(r)
<1>0. request[r].kind = "cards" /\ request[r].phase = "arrived" /\ Reads /\ after' = after
  BY DEF CardsRead, In, Reads
<1>1. PICK s \in State : s = request[r]
  BY OfRequest
<1>2. PICK ids : ids = request[r].ids \ BlockedWith(request[r].user, request[r].ids)
  OBVIOUS
<1>3. ids \in SUBSET Accounts
  BY <1>2, OfRequest
<1>4. PICK n : TodoTo(s, n, ids)
  BY DEF TodoTo
<1>5. Kept(s, n) /\ n.phase = "listing" /\ n.todo = ids /\ n.shown = s.shown /\ n.applied = s.applied
  BY <1>3, <1>4, TodoChange
<1>6. request' = [request EXCEPT ![r] = n]
  BY <1>1, <1>2, <1>4 DEF CardsRead, TodoTo
<1>7. Kept(request[r], n) /\ n.phase \notin {"idle", "arrived", "failed"}
  BY <1>1, <1>5
<1>8. Advances(r) /\ request'[r] = n
  BY <1>0, <1>6, <1>7, StepAdvances
<1>9. {b \in ids : activo[b]} \subseteq Open("cards", bloqueo, request[r].user)
  BY <1>2, <1>3 DEF Open, BlockedWith
<1> QED
  BY <1>0, <1>1, <1>5, <1>8, <1>9 DEF DidDraw

LEMMA ListNextDoes ==
  ASSUME Types_, NEW r \in Requests, NEW b \in Accounts, ListNext(r, b)
  PROVE  DidList(r) /\ request'[r].phase = request[r].phase
<1>0. request[r].phase = "listing" /\ Reads /\ after' = after /\ b \in request[r].todo
  BY DEF ListNext, Reads
<1>1. PICK s \in State : s = request[r]
  BY OfRequest
<1>2. PICK ids : ids = s.todo \ {b}
  OBVIOUS
<1>3. PICK people : people = s.shown \cup (IF activo[b] /\ (s.kind = "cards" => b \in Athletes) THEN {b} ELSE {})
  OBVIOUS
<1>4. ids \in SUBSET Accounts /\ people \in SUBSET Accounts
  BY <1>1, <1>2, <1>3, OfRequest
<1>5. PICK n : ListTo(s, n, ids, people)
  BY DEF ListTo
<1>6. Kept(s, n) /\ n.phase = s.phase /\ n.todo = ids /\ n.shown = people /\ n.applied = s.applied
  BY <1>4, <1>5, ListChange
<1>7. request' = [request EXCEPT ![r] = n]
  BY <1>1, <1>2, <1>3, <1>5 DEF ListNext, ListTo
<1>8. Kept(request[r], n) /\ n.phase = request[r].phase
  BY <1>1, <1>6
<1>9. Advances(r) /\ request'[r] = n
  BY <1>0, <1>7, <1>8, StepAdvances
<1>10. ids \subseteq request[r].todo /\ people \subseteq request[r].shown \cup {c \in request[r].todo : activo[c]}
  BY <1>0, <1>1, <1>2, <1>3
<1> QED
  BY <1>0, <1>1, <1>6, <1>8, <1>9, <1>10 DEF DidList

LEMMA SuggestionsQueryDoes ==
  ASSUME Types_, NEW r \in Requests, NEW people \in SUBSET Athletes, SuggestionsQuery(r, people)
  PROVE  DidShow(r)
<1>0. request[r].kind = "suggestions" /\ request[r].phase = "arrived" /\ Reads /\ after' = after
  BY DEF SuggestionsQuery, In, Reads
<1>1. PICK s \in State : s = request[r]
  BY OfRequest
<1>2. people \in SUBSET Accounts /\ "listing" \in Phase
  BY ContactAssumption DEF Phase
<1>3. PICK n : ShowTo(s, n, "listing", people)
  BY DEF ShowTo
<1>4. Kept(s, n) /\ n.phase = "listing" /\ n.todo = s.todo /\ n.shown = people /\ n.applied = s.applied
  BY <1>2, <1>3, ShowChange
<1>5. request' = [request EXCEPT ![r] = n]
  BY <1>1, <1>3 DEF SuggestionsQuery, ShowTo
<1>6. Kept(request[r], n) /\ n.phase \notin {"idle", "arrived", "failed"}
  BY <1>1, <1>4
<1>7. Advances(r) /\ request'[r] = n
  BY <1>0, <1>5, <1>6, StepAdvances
<1>8. people \subseteq Open("suggestions", bloqueo, request[r].user)
  BY <1>2 DEF SuggestionsQuery, Candidate, Open
<1> QED
  BY <1>0, <1>1, <1>4, <1>7, <1>8 DEF DidShow

LEMMA CheckAnswerDoes ==
  ASSUME Types_, NEW r \in Requests, Known(r), CheckAnswer(r)
  PROVE  DidShow(r)
<1>0. request[r].kind = "check" /\ request[r].phase = "arrived" /\ Reads /\ after' = after
  BY DEF CheckAnswer, In, Reads
<1>1. PICK s \in State : s = request[r]
  BY OfRequest
<1>2. PICK p \in Pairs : request[r].user = p[1] /\ request[r].ids = {p[2]}
  BY <1>0 DEF Known, Asked
<1>3. PairOf(r) = p /\ p[2] \in Accounts
  BY <1>2, PairIs DEF Pairs
<1>4. PICK people : people = IF Blocked(bloqueo, p[1], p[2]) THEN {} ELSE {p[2]}
  OBVIOUS
<1>5. people \in SUBSET Accounts /\ "done" \in Phase
  BY <1>3, <1>4 DEF Phase
<1>6. PICK n : ShowTo(s, n, "done", people)
  BY DEF ShowTo
<1>7. Kept(s, n) /\ n.phase = "done" /\ n.todo = s.todo /\ n.shown = people /\ n.applied = s.applied
  BY <1>5, <1>6, ShowChange
<1>8. request' = [request EXCEPT ![r] = n]
  BY <1>1, <1>3, <1>4, <1>6 DEF CheckAnswer, ShowTo
<1>9. Kept(request[r], n) /\ n.phase \notin {"idle", "arrived", "failed"}
  BY <1>1, <1>7
<1>10. Advances(r) /\ request'[r] = n
  BY <1>0, <1>8, <1>9, StepAdvances
<1>11. people \subseteq Open("check", bloqueo, request[r].user)
  BY <1>2, <1>3, <1>4 DEF Open
<1> QED
  BY <1>0, <1>1, <1>7, <1>10, <1>11 DEF DidShow

\* A PATCH goes on, its list as it is or with one less to look up, to insert or to show.
LEMMA MutesGoes ==
  ASSUME Types_, NEW r \in Requests, NEW p \in Phase \ {"idle", "failed", "KeyError"}, NEW ids \in SUBSET Accounts,
         request[r].kind = "mutes", request[r].phase \notin {"idle", "done", "failed", "KeyError"},
         p # "arrived" \/ p = request[r].phase,
         request' = [request EXCEPT ![r] = [request[r] EXCEPT !.phase = p, !.todo = ids]], Reads
  PROVE  DidList(r) /\ request'[r].phase = p /\ request'[r].todo = ids
<1>0. after' = after
  BY DEF Reads
<1>1. PICK s \in State : s = request[r]
  BY OfRequest
<1>2. PICK n : PutTo(s, n, p, ids)
  BY DEF PutTo
<1>3. Kept(s, n) /\ n.phase = p /\ n.todo = ids /\ n.shown = s.shown /\ n.applied = s.applied
  BY <1>2, PutChange
<1>4. request' = [request EXCEPT ![r] = n]
  BY <1>1, <1>2 DEF PutTo
<1>5. Kept(request[r], n) /\ (n.phase \notin {"idle", "arrived", "failed"} \/ n.phase = request[r].phase)
  BY <1>1, <1>3
<1>6. Advances(r) /\ request'[r] = n
  BY <1>0, <1>4, <1>5, StepAdvances
<1> QED
  BY <1>1, <1>3, <1>6 DEF DidList, Shows

\* A record with one field replaced, and with the phase it has.
LEMMA TodoAlone ==
  ASSUME NEW r \in Requests, Types_, NEW ids, request' = [request EXCEPT ![r].todo = ids]
  PROVE  request' = [request EXCEPT ![r] = [request[r] EXCEPT !.phase = request[r].phase, !.todo = ids]]
BY OfRequest DEF State

LEMMA LocksRest ==
  ASSUME Types_, NEW r \in Requests, UNCHANGED locks, request'[r].kind = "mutes" => ~Under(r)
  PROVE  Rests(r)
BY DEF Types_, Rests, locks

LEMMA MutesLookUpDoes ==
  ASSUME Types_, NEW r \in Requests, NEW b \in Accounts, MutesLookUp(r, b)
  PROVE  Did(r) /\ Moves(r)
<1>0. request[r].kind = "mutes" /\ request[r].phase = "arrived" /\ Reads /\ UNCHANGED locks
  BY DEF MutesLookUp, In
<1>1. CASE Refuse(r)
  <2>1. Stops(r)
    BY <1>0, <1>1, RefuseStops
  <2>2. ~Under(r)
    BY <2>1 DEF Stops, Refused, Under
  <2> QED
    BY <1>0, <2>1, <2>2, LocksRest DEF Did, Moves
<1>2. CASE request' = [request EXCEPT ![r].todo = @ \ {b}]
  <2>1. PICK ids \in SUBSET Accounts : ids = request[r].todo \ {b}
    BY OfRequest
  <2>2. request' = [request EXCEPT ![r] = [request[r] EXCEPT !.phase = request[r].phase, !.todo = ids]]
    BY <1>2, <2>1, TodoAlone
  <2>3. request[r].phase \in Phase \ {"idle", "failed", "KeyError"}
    BY <1>0 DEF Phase
  <2>4. DidList(r) /\ request'[r].phase = request[r].phase
    BY <1>0, <2>2, <2>3, MutesGoes
  <2>5. ~Under(r)
    BY <1>0, <2>4 DEF Under
  <2> QED
    BY <1>0, <2>4, <2>5, LocksRest DEF Did, Moves
<1> QED
  BY <1>1, <1>2 DEF MutesLookUp

LEMMA MutesDeletes ==
  ASSUME Types_, NEW r \in Requests, MutesDelete(r) \/ \E b \in Accounts : MutesDeleteRow(r, b)
  PROVE  DidList(r) /\ request'[r].phase = "deleting"
<1>1. CASE MutesDelete(r)
  <2>1. request[r].phase = "arrived" /\ Go(r, "deleting") /\ Reads /\ "deleting" \in Phase
    BY <1>1 DEF MutesDelete, In, Phase
  <2> QED
    BY <2>1, GoLists
<1>2. CASE \E b \in Accounts : MutesDeleteRow(r, b)
  <2>1. request[r].kind = "mutes" /\ request[r].phase = "deleting" /\ Reads /\ request' = request /\ after' = after
    BY <1>2 DEF MutesDeleteRow, In, Reads
  <2>2. request[r] \in State /\ request \in [Requests -> State]
    BY DEF Types_
  <2> QED
    BY <2>1, <2>2 DEF DidList, Advances, Kept, Shows
<1> QED
  BY <1>1, <1>2

LEMMA MutesInserts ==
  ASSUME Types_, NEW r \in Requests, MutesInsert(r)
  PROVE  DidList(r) /\ request'[r].todo = request[r].ids
<1>1. PICK ids \in SUBSET Accounts : ids = request[r].ids
  BY OfRequest
<1>2. PICK p \in Phase \ {"idle", "failed", "KeyError"} : p = "inserting"
  BY DEF Phase
<1>3. request[r].kind = "mutes" /\ request[r].phase \notin {"idle", "done", "failed", "KeyError"} /\ Reads
  BY DEF MutesInsert, In
<1>4. request' = [request EXCEPT ![r] = [request[r] EXCEPT !.phase = p, !.todo = ids]]
  BY <1>1, <1>2 DEF MutesInsert
<1>5. p # "arrived" \/ p = request[r].phase
  BY <1>2
<1>6. DidList(r) /\ request'[r].todo = ids
  BY <1>3, <1>4, <1>5, MutesGoes
<1> QED
  BY <1>1, <1>6

LEMMA MutesInsertsRow ==
  ASSUME Types_, NEW r \in Requests, NEW b \in Accounts, MutesInsertRow(r, b)
  PROVE  DidList(r) /\ request'[r].todo = request[r].todo \ {b}
<1>1. /\ request[r].kind = "mutes" /\ request[r].phase = "inserting" /\ Reads
      /\ request' = [request EXCEPT ![r].todo = @ \ {b}]
  BY DEF MutesInsertRow, In
<1>2. PICK ids \in SUBSET Accounts : ids = request[r].todo \ {b}
  BY OfRequest
<1>3. request' = [request EXCEPT ![r] = [request[r] EXCEPT !.phase = request[r].phase, !.todo = ids]]
  BY <1>1, <1>2, TodoAlone
<1>4. request[r].phase \in Phase \ {"idle", "failed", "KeyError"}
  BY <1>1 DEF Phase
<1>5. DidList(r) /\ request'[r].todo = ids
  BY <1>1, <1>3, <1>4, MutesGoes
<1> QED
  BY <1>2, <1>5

LEMMA MutesEnds ==
  ASSUME Types_, NEW r \in Requests, MutesCommit(r) \/ MutesAudit(r) \/ MutesRead(r)
  PROVE  Did(r) /\ Moves(r)
<1>1. CASE MutesCommit(r)
  <2>1. Applies(r)
    BY <1>1, ApplyAdvances DEF MutesCommit, In
  <2> QED
    BY <1>1, <2>1 DEF MutesCommit, In, DidMute, Did, Moves
<1>2. CASE MutesAudit(r)
  <2>1. request[r].phase = "placed" /\ Reads /\ Go(r, "recorded") /\ "recorded" \in Phase /\ UNCHANGED locks
    BY <1>2 DEF MutesAudit, In, Phase
  <2>2. DidList(r) /\ request'[r].phase = "recorded"
    BY <2>1, GoLists
  <2>3. ~Under(r)
    BY <2>2 DEF Under
  <2> QED
    BY <2>1, <2>2, <2>3, LocksRest DEF Did, Moves
<1>3. CASE MutesRead(r)
  <2>0. request[r].kind = "mutes" /\ request[r].phase = "recorded" /\ Reads /\ UNCHANGED locks
    BY <1>3 DEF MutesRead, In
  <2>1. PICK ids \in SUBSET Accounts : ids = {b \in Accounts : <<request[r].user, b>> \in silencio}
    OBVIOUS
  <2>2. request' = [request EXCEPT ![r] = [request[r] EXCEPT !.phase = "listing", !.todo = ids]]
    BY <1>3, <2>1 DEF MutesRead
  <2>5. "listing" \in Phase \ {"idle", "failed", "KeyError"}
    BY DEF Phase
  <2>3. DidList(r) /\ request'[r].phase = "listing"
    BY <2>0, <2>2, <2>5, MutesGoes
  <2>4. ~Under(r)
    BY <2>3 DEF Under
  <2> QED
    BY <2>0, <2>3, <2>4, LocksRest DEF Did, Moves
<1> QED
  BY <1>1, <1>2, <1>3

LEMMA ArriveDoes ==
  ASSUME Types_, NEW r \in Requests, Known(r),
         \/ BlockArrive(r) \/ UnblockArrive(r) \/ CardsArrive(r) \/ SuggestionsArrive(r) \/ CheckArrive(r)
         \/ MutesArrive(r)
  PROVE  Enters(r)
<1>0. request[r].phase = "idle" => request[r] = Idle
  BY DEF Known
<1>1. {"POST", "PUT", "unblock", "cards", "suggestions", "check", "mutes"} \subseteq Kind
  BY DEF Kind
<1>2. ASSUME NEW p \in Pairs, NEW kind \in {"POST", "PUT", "unblock", "check"},
             Arrives(r, kind, p[1], {p[2]}, {}, {})
      PROVE  Enters(r)
  <2>1. p[1] \in Accounts /\ {p[2]} \in SUBSET Accounts /\ {} \in SUBSET Accounts /\ kind \in Kind
    BY <1>1 DEF Pairs
  <2>2. Asked(kind, p[1], {p[2]}, {}, {})
    BY DEF Asked, Shows
  <2> QED
    BY <1>0, <1>2, <2>1, <2>2, ArrivesEnters
<1>3. CASE CardsArrive(r)
  <2>1. PICK u \in Athletes, ids \in SUBSET Accounts : Arrives(r, "cards", u, ids, {}, {})
    BY <1>3 DEF CardsArrive
  <2>2. u \in Accounts /\ {} \in SUBSET Accounts /\ "cards" \in Kind /\ Asked("cards", u, ids, {}, {})
    BY <1>1, ContactAssumption DEF Asked, Shows
  <2> QED
    BY <1>0, <2>1, <2>2, ArrivesEnters
<1>4. CASE SuggestionsArrive(r)
  <2>1. PICK u \in Accounts : Arrives(r, "suggestions", u, {}, {}, {})
    BY <1>4 DEF SuggestionsArrive
  <2>2. {} \in SUBSET Accounts /\ "suggestions" \in Kind /\ Asked("suggestions", u, {}, {}, {})
    BY <1>1 DEF Asked, Shows
  <2> QED
    BY <1>0, <2>1, <2>2, ArrivesEnters
<1>5. CASE MutesArrive(r)
  <2>1. PICK u \in Accounts, mute \in SUBSET Accounts :
          /\ u \notin mute
          /\ \E unmute \in SUBSET (Accounts \ (mute \cup {u})) : Arrives(r, "mutes", u, mute, unmute, mute)
    BY <1>5 DEF MutesArrive
  <2>2. PICK unmute \in SUBSET (Accounts \ (mute \cup {u})) : Arrives(r, "mutes", u, mute, unmute, mute)
    BY <2>1
  <2>3. mute \in SUBSET Accounts /\ unmute \in SUBSET Accounts /\ "mutes" \in Kind
    BY <1>1
  <2>4. u \notin mute \cup unmute /\ mute \cap unmute = {}
    BY <2>1
  <2>5. Asked("mutes", u, mute, unmute, mute)
    BY <2>4 DEF Asked, Shows
  <2> QED
    BY <1>0, <2>2, <2>3, <2>5, ArrivesEnters
<1> QED
  BY <1>2, <1>3, <1>4, <1>5 DEF BlockArrive, UnblockArrive, CheckArrive

LEMMA FailDoes ==
  ASSUME Types_, NEW r \in Requests, Fail(r)
  PROVE  Stops(r)
BY RefuseStops DEF Fail, Over

LEMMA ListAnswerDoes ==
  ASSUME Types_, NEW r \in Requests, ListAnswer(r)
  PROVE  DidList(r) /\ request'[r].phase = "done"
<1>1. request[r].phase = "listing" /\ Reads /\ Go(r, "done") /\ "done" \in Phase
  BY DEF ListAnswer, Phase
<1> QED
  BY <1>1, GoLists

LEMMA Shape ==
  ASSUME NEW r \in Requests, Did(r)
  PROVE  Enters(r) \/ Stops(r) \/ Advances(r)
BY DEF Did, DidList, DidMiss, DidDraw, DidShow, DidBlock, DidUnblock, DidMute, Applies

\* Nothing but a PATCH of mutes comes into its two statements.
LEMMA OutOfMutes ==
  ASSUME Types_, NEW r \in Requests, Did(r), UNCHANGED locks,
         \/ request[r].phase = "idle" \/ request[r].kind # "mutes" \/ request'[r].phase \notin {"deleting", "inserting"}
  PROVE  Moves(r)
<1>1. ASSUME request'[r].kind = "mutes" PROVE ~Under(r)
  <2>1. CASE Enters(r)
    BY <2>1 DEF Enters, Arrived, Under
  <2>2. CASE Stops(r)
    BY <2>2 DEF Stops, Refused, Under
  <2>3. CASE Advances(r)
    BY <1>1, <2>3 DEF Advances, Kept, Under
  <2> QED
    BY <2>1, <2>2, <2>3, Shape
<1> QED
  BY <1>1, LocksRest DEF Moves

LEMMA BlockMoves ==
  ASSUME Types_, NEW r \in Requests, Known(r), Block(r) \/ Unblock(r), UNCHANGED locks
  PROVE  Did(r) /\ Moves(r)
<1>1. Did(r)
  BY ArriveDoes, BlockDoes, UnblockDoes DEF Block, Unblock, Did
<1>2. request[r].phase = "idle" \/ request[r].kind # "mutes"
  BY DEF Block, Unblock, BlockArrive, BlockLookUp, BlockCommit, BlockAudit, BlockReadBack, BlockAnswer, IsBlock, In,
         UnblockArrive, UnblockCommit, UnblockAudit, Arrives
<1> QED
  BY <1>1, <1>2, OutOfMutes

LEMMA ShowMoves ==
  ASSUME Types_, NEW r \in Requests, Known(r), Show(r), UNCHANGED locks
  PROVE  Did(r) /\ Moves(r)
<1>1. CASE CardsArrive(r) \/ SuggestionsArrive(r) \/ CheckArrive(r)
  <2>1. Did(r) /\ request[r].phase = "idle"
    BY <1>1, ArriveDoes DEF Did, Enters
  <2> QED
    BY <2>1, OutOfMutes
<1>2. CASE CardsRead(r) \/ CheckAnswer(r) \/ \E shown \in SUBSET Athletes : SuggestionsQuery(r, shown)
  <2>1. Did(r)
    BY <1>2, CardsReadDoes, CheckAnswerDoes, SuggestionsQueryDoes DEF Did
  <2>2. request[r].kind # "mutes"
    BY <1>2 DEF CardsRead, CheckAnswer, SuggestionsQuery, In
  <2> QED
    BY <2>1, <2>2, OutOfMutes
<1>3. CASE ListAnswer(r) \/ \E b \in Accounts : ListNext(r, b)
  <2>1. DidList(r) /\ request'[r].phase \in {"listing", "done"}
    BY <1>3, ListAnswerDoes, ListNextDoes DEF ListNext
  <2> QED
    BY <2>1, OutOfMutes DEF Did
<1> QED
  BY <1>1, <1>2, <1>3 DEF Show

LEMMA MutesMoves ==
  ASSUME Types_, NEW r \in Requests, Known(r), Mutes(r)
  PROVE  Did(r) /\ Moves(r)
<1>1. CASE MutesArrive(r)
  <2>1. Did(r) /\ request[r].phase = "idle" /\ UNCHANGED locks
    BY <1>1, ArriveDoes DEF Did, Enters, MutesArrive
  <2> QED
    BY <2>1, OutOfMutes
<1>2. CASE \E b \in Accounts : MutesLookUp(r, b)
  BY <1>2, MutesLookUpDoes
<1>3. CASE MutesDelete(r) \/ \E b \in Accounts : MutesDeleteRow(r, b)
  BY <1>3, MutesDeletes DEF Did, Moves
<1>4. CASE MutesInsert(r) \/ \E b \in Accounts : MutesInsertRow(r, b)
  BY <1>4, MutesInserts, MutesInsertsRow DEF Did, Moves
<1>5. CASE MutesCommit(r) \/ MutesAudit(r) \/ MutesRead(r)
  BY <1>5, MutesEnds
<1> QED
  BY <1>1, <1>2, <1>3, <1>4, <1>5 DEF Mutes

LEMMA FailMoves ==
  ASSUME Types_, NEW r \in Requests, Fail(r)
  PROVE  Did(r) /\ Moves(r)
<1>1. Stops(r)
  BY FailDoes
<1>2. ~Under(r)
  BY <1>1 DEF Stops, Refused, Under
<1>3. Rests(r)
  BY <1>2 DEF Fail, Types_, Rests
<1> QED
  BY <1>1, <1>3 DEF Did, Moves

\* Whatever the step, one of these is what it did.
LEMMA Steps ==
  ASSUME Types_, \A q \in Requests : Known(q), [Next]_vars
  PROVE  UNCHANGED vars \/ Deletes \/ \E r \in Requests : Did(r) /\ Moves(r)
<1>1. ASSUME NEW u \in Accounts, Deactivate(u), UNCHANGED locks PROVE Deletes
  BY <1>1 DEF Deactivate, Deletes
<1> QED
  BY <1>1, BlockMoves, ShowMoves, MutesMoves, FailMoves DEF Next

-----------------------------------------------------------------------------
(* What every step keeps                                                    *)

\* What a request is about and what it committed: from its arrival it does not change.
Same(q) ==
  /\ request'[q].kind = request[q].kind /\ request'[q].user = request[q].user
  /\ request'[q].ids = request[q].ids /\ request'[q].off = request[q].off

Stays(q) == request[q].applied => Same(q) /\ request'[q].applied /\ after'[q] = after[q]

LEMMA AppliedStays ==
  ASSUME NEW r \in Requests, Did(r), request[r].applied
  PROVE  Enters(r) \/ request'[r].applied
<1>1. CASE Stops(r)
  BY <1>1 DEF Stops, Refused
<1> QED
  BY <1>1 DEF Did, DidList, DidMiss, DidDraw, DidShow, DidBlock, DidUnblock, DidMute, Applies

LEMMA Others ==
  ASSUME NEW r \in Requests, Did(r), NEW q \in Requests, q # r
  PROVE  request'[q] = request[q] /\ after'[q] = after[q]
BY Shape DEF Enters, Stops, Advances, Reads

\* A step takes nobody out of the requests that are over, and what was applied stays applied.
LEMMA Onward ==
  ASSUME Types_, \A q \in Requests : Known(q), NEW r \in Requests, Did(r)
  PROVE  /\ r \notin Settled /\ Settled \subseteq Settled'
         /\ \A q \in Requests : Stays(q)
<1>1. request[r].phase \notin {"done", "failed", "KeyError"}
  BY Shape DEF Enters, Stops, Advances
<1>2. r \notin Settled
  BY <1>1 DEF Settled, Over
<1>3. Settled \subseteq Settled'
  BY <1>2, Others DEF Settled, Over
<1>4. ASSUME NEW q \in Requests, q # r PROVE Stays(q)
  BY <1>4, Others DEF Stays, Same
<1>5. Stays(r)
  <2>1. SUFFICES ASSUME request[r].applied PROVE Same(r) /\ request'[r].applied /\ after'[r] = after[r]
    BY DEF Stays
  <2>2. request[r].phase # "idle"
    BY <2>1 DEF Known, Idle
  <2>3. ~Enters(r)
    BY <2>2 DEF Enters
  <2>4. request'[r].applied
    BY <2>1, <2>3, AppliedStays
  <2>5. (Stops(r) \/ Advances(r)) /\ Kept(request[r], request'[r])
    BY <2>1, <2>3, Shape DEF Stops, Advances, Refused
  <2>6. Same(r) /\ after'[r] = after[r]
    BY <2>5 DEF Kept, Same, Stops, Advances, Reads
  <2> QED
    BY <2>4, <2>6
<1> QED
  BY <1>2, <1>3, <1>4, <1>5

LEMMA StaysPair ==
  ASSUME NEW q \in Requests, Same(q)
  PROVE  PairOf(q)' = PairOf(q)
BY DEF Same, PairOf

LEMMA KnownPair ==
  ASSUME NEW r \in Requests, Known(r), request[r].phase \notin {"idle", "failed"} \/ request[r].applied,
         request[r].kind \in {"POST", "PUT", "unblock", "check"}
  PROVE  PairOf(r) \in Pairs
<1>1. PICK p \in Pairs : request[r].user = p[1] /\ request[r].ids = {p[2]}
  BY DEF Known, Asked
<1> QED
  BY <1>1, PairIs

LEMMA KnownStep ==
  ASSUME Types_, \A q \in Requests : Known(q), NEW r \in Requests, Did(r)
  PROVE  \A q \in Requests : Known(q)'
<1>1. ASSUME NEW q \in Requests, q # r PROVE Known(q)'
  BY <1>1, Others DEF Known
<1>2. Known(r)'
  <2>1. CASE Enters(r)
    <3>1. PICK kind \in Kind, u \in Accounts, ids, off, todo \in SUBSET Accounts :
            Asked(kind, u, ids, off, todo) /\ Arrived(request'[r], kind, u, ids, off, todo)
      BY <2>1 DEF Enters
    <3>2. Asked(kind, u, ids, off, {})
      BY <3>1 DEF Asked
    <3> QED
      BY <3>1, <3>2 DEF Known, Arrived
  <2>2. CASE Stops(r)
    <3>1. request'[r].phase = "failed" /\ (request'[r].applied => request[r].applied /\ Kept(request[r], request'[r]))
      BY <2>2 DEF Stops, Refused
    <3> QED
      BY <3>1 DEF Known, Kept
  <2>3. CASE Advances(r)
    <3>1. /\ request[r].phase \notin {"idle", "failed"} /\ request'[r].phase # "idle"
          /\ Kept(request[r], request'[r])
      BY <2>3 DEF Advances
    <3> QED
      BY <3>1 DEF Known, Kept
  <2> QED
    BY <2>1, <2>2, <2>3, Shape
<1> QED
  BY <1>1, <1>2

\* A PATCH of u that was not over when q arrived muted b, or unmuted b.
SaidOn(q, u, b) == \E p \in Mutings(u) : b \in request[p].ids /\ p \notin after[q]
SaidOff(q, u, b) == \E p \in Mutings(u) : b \in request[p].off /\ p \notin after[q]

\* The rows of a PATCH that is in its two statements: those it unmutes are taken, or to be taken, or not there; those
\* it inserted are its own or there already; unless another PATCH said the opposite.
Leaves(q, b) == Row(q, b) \in seen[q] \cup held[q] \/ Row(q, b) \notin silencio \/ SaidOn(q, request[q].user, b)
Joins(q, b) == Row(q, b) \in silencio \cup held[q] \/ SaidOff(q, request[q].user, b)

Progress(q) ==
  request[q].kind = "mutes" /\ request[q].phase \in {"deleting", "inserting"} =>
    /\ \A b \in request[q].off : Leaves(q, b)
    /\ request[q].phase = "inserting" =>
         /\ seen[q] = {} /\ request[q].todo \subseteq request[q].ids
         /\ \A b \in request[q].ids \ request[q].todo : Joins(q, b)

LEMMA RowsStep ==
  ASSUME Types_, NEW r \in Requests, Known(r), Progress(r), Moves(r)
  PROVE  seen' \in [Requests -> SUBSET Pairs] /\ held' \in [Requests -> SUBSET Pairs]
<1>1. \A q \in Requests : seen[q] \in SUBSET Pairs /\ held[q] \in SUBSET Pairs
  BY DEF Types_
<1>2. CASE MutesDelete(r)
  <2>1. {Row(r, b) : b \in request[r].off} \cap silencio \in SUBSET Pairs
    BY DEF Types_
  <2> QED
    BY <1>2, <2>1 DEF MutesDelete, Types_
<1>3. CASE MutesInsert(r) \/ Rests(r)
  BY <1>3 DEF MutesInsert, Rests, Types_, locks
<1>4. CASE DidMute(r)
  <2>1. \A q \in Requests : seen[q] \ Deleted(r) \in SUBSET Pairs
    BY <1>1
  <2> QED
    BY <1>4, <2>1 DEF DidMute, Types_
<1>5. ASSUME NEW b \in Accounts, MutesDeleteRow(r, b)
      PROVE  seen' \in [Requests -> SUBSET Pairs] /\ held' \in [Requests -> SUBSET Pairs]
  <2>1. seen[r] \ {Row(r, b)} \in SUBSET Pairs /\ held[r] \cup {Row(r, b)} \in SUBSET Pairs
    BY <1>1, <1>5 DEF MutesDeleteRow
  <2> QED
    BY <1>5, <2>1 DEF MutesDeleteRow, Types_
<1>6. ASSUME NEW b \in Accounts, MutesInsertRow(r, b)
      PROVE  seen' \in [Requests -> SUBSET Pairs] /\ held' \in [Requests -> SUBSET Pairs]
  <2>1. request[r].kind = "mutes" /\ request[r].phase = "inserting" /\ b \in request[r].todo
    BY <1>6 DEF MutesInsertRow, In
  <2>2. b \in request[r].ids /\ request[r].user \in Accounts /\ request[r].user \notin request[r].ids
    BY <2>1 DEF Known, Asked, Progress
  <2>3. Row(r, b) \in Pairs
    BY <2>2 DEF Row, Pairs
  <2>4. held[r] \cup ({Row(r, b)} \ silencio) \in SUBSET Pairs
    BY <1>1, <2>3
  <2> QED
    BY <1>6, <2>4 DEF MutesInsertRow, Types_
<1> QED
  BY <1>2, <1>3, <1>4, <1>5, <1>6 DEF Moves

LEMMA TypesStep ==
  ASSUME Types_, \A q \in Requests : Known(q), NEW r \in Requests, Progress(r), Did(r), Moves(r)
  PROVE  Types_'
<1>0. seen' \in [Requests -> SUBSET Pairs] /\ held' \in [Requests -> SUBSET Pairs]
  BY RowsStep
<1>1. request' \in [Requests -> State]
  BY Shape DEF Enters, Stops, Advances
<1>2. after' \in [Requests -> SUBSET Requests]
  BY Shape DEF Enters, Stops, Advances, Reads, Types_
<1>3. ASSUME Opened PROVE open' \in [Requests -> SUBSET Accounts]
  <2>1. \A q \in Requests : open[q] \in SUBSET Accounts
    BY DEF Types_
  <2>2. \A q \in Requests : (IF Over(q) THEN open[q] ELSE open[q] \cup Open(request[q].kind, bloqueo', request[q].user))
                              \in SUBSET Accounts
    BY <2>1, OpenIn
  <2> QED
    BY <1>3, <2>2 DEF Opened
<1>4. CASE DidBlock(r)
  <2>1. PairOf(r) \in Pairs
    BY <1>4, KnownPair DEF DidBlock, Applies, Advances, IsBlock
  <2> QED
    BY <1>0, <1>1, <1>2, <1>3, <1>4, <2>1 DEF DidBlock, WithBlock, Types_
<1>5. CASE DidUnblock(r)
  BY <1>0, <1>1, <1>2, <1>3, <1>5 DEF DidUnblock, WithoutBlock, Types_
<1>6. CASE DidMute(r)
  <2>1. Inserted(r) \subseteq Pairs
    BY DEF Inserted, Types_
  <2>2. silencio' \subseteq Pairs
    BY <1>6, <2>1 DEF DidMute, Types_
  <2> QED
    BY <1>0, <1>1, <1>2, <1>6, <2>2 DEF DidMute, Types_
<1>7. CASE Enters(r)
  BY <1>0, <1>1, <1>2, <1>7 DEF Enters, Types_
<1>8. CASE Reads
  BY <1>0, <1>1, <1>2, <1>8 DEF Reads, Types_
<1> QED
  BY <1>4, <1>5, <1>6, <1>7, <1>8 DEF Did, Stops, DidList, DidMiss, DidDraw, DidShow

-----------------------------------------------------------------------------
(* Whom a request may show                                                  *)

\* Until its answer, whoever a request may still show is among those it could show at some moment since it arrived:
\* those open to it now, and those it has left to look up and still have an account.
ShowsOpen(q) ==
  request[q].kind \in Shows =>
    /\ request[q].shown \subseteq open[q]
    /\ request[q].phase # "idle" /\ ~Over(q) =>
         /\ Open(request[q].kind, bloqueo, request[q].user) \subseteq open[q]
         /\ {b \in request[q].todo : activo[b]} \subseteq open[q]

LEMMA OpenGrows ==
  ASSUME Types_, NEW r \in Requests, Did(r), NEW q \in Requests, q # r, request[q].kind \in Shows
  PROVE  /\ activo' = activo /\ open[q] \subseteq open'[q]
         /\ ~Over(q) => bloqueo' = bloqueo \/ Open(request[q].kind, bloqueo', request[q].user) \subseteq open'[q]
<1>1. ASSUME Opened
      PROVE  open[q] \subseteq open'[q] /\ (~Over(q) => Open(request[q].kind, bloqueo', request[q].user) \subseteq open'[q])
  BY <1>1 DEF Opened
<1> QED
  BY <1>1 DEF Did, Enters, Stops, DidList, DidMiss, DidDraw, DidShow, DidBlock, DidUnblock, DidMute, Reads

LEMMA ShowsOpenOther ==
  ASSUME Types_, NEW r \in Requests, Did(r), NEW q \in Requests, q # r, ShowsOpen(q)
  PROVE  ShowsOpen(q)'
<1>1. request'[q] = request[q]
  BY Others
<1>2. CASE request[q].kind \notin Shows
  BY <1>1, <1>2 DEF ShowsOpen, Shows
<1>3. CASE request[q].kind \in Shows
  <2>1. /\ activo' = activo /\ open[q] \subseteq open'[q]
        /\ ~Over(q) => bloqueo' = bloqueo \/ Open(request[q].kind, bloqueo', request[q].user) \subseteq open'[q]
    BY <1>3, OpenGrows
  <2>2. request'[q].shown \subseteq open'[q]
    BY <1>1, <1>3, <2>1 DEF ShowsOpen
  <2>3. ASSUME request'[q].phase # "idle", ~Over(q)'
        PROVE  /\ Open(request[q].kind, bloqueo, request[q].user)' \subseteq open'[q]
               /\ {b \in request'[q].todo : activo'[b]} \subseteq open'[q]
    <3>1. request[q].phase # "idle" /\ ~Over(q)
      BY <1>1, <2>3 DEF Over
    <3>2. /\ Open(request[q].kind, bloqueo, request[q].user) \subseteq open[q]
          /\ {b \in request[q].todo : activo[b]} \subseteq open[q]
      BY <1>3, <3>1 DEF ShowsOpen
    <3>3. {b \in request'[q].todo : activo'[b]} \subseteq open'[q]
      BY <1>1, <2>1, <3>2
    <3>4. Open(request[q].kind, bloqueo', request[q].user) \subseteq open'[q]
      BY <2>1, <3>1, <3>2
    <3>5. Open(request[q].kind, bloqueo, request[q].user)' = Open(request[q].kind, bloqueo', request[q].user)
      BY <1>1, <2>1 DEF Open, Blocked
    <3> QED
      BY <3>3, <3>4, <3>5
  <2> QED
    BY <2>2, <2>3 DEF ShowsOpen
<1> QED
  BY <1>2, <1>3

LEMMA ShowsOpenOwn ==
  ASSUME Types_, NEW r \in Requests, Did(r), ShowsOpen(r)
  PROVE  ShowsOpen(r)'
<1>1. SUFFICES ASSUME request'[r].kind \in Shows PROVE ShowsOpen(r)'
  BY DEF ShowsOpen, Shows
<1>2. CASE Enters(r)
  <2>1. PICK kind \in Kind, u \in Accounts, ids, off, todo \in SUBSET Accounts :
          /\ Asked(kind, u, ids, off, todo) /\ Arrived(request'[r], kind, u, ids, off, todo)
          /\ open'[r] = Open(kind, bloqueo, u)
    BY <1>2 DEF Enters
  <2>2. request'[r].kind = kind /\ request'[r].user = u /\ request'[r].shown = {} /\ request'[r].todo = {}
    BY <1>1, <2>1 DEF Arrived, Asked
  <2>3. activo' = activo /\ bloqueo' = bloqueo
    BY <1>2 DEF Enters
  <2>4. Open(request[r].kind, bloqueo, request[r].user)' = Open(kind, bloqueo, u)
    BY <2>2, <2>3 DEF Open, Blocked
  <2> QED
    BY <2>1, <2>2, <2>4 DEF ShowsOpen
<1>3. CASE Stops(r)
  <2>1. request'[r].shown = {} /\ request'[r].phase = "failed"
    BY <1>3 DEF Stops, Refused
  <2> QED
    BY <2>1 DEF ShowsOpen, Over
<1>4. CASE DidList(r) \/ DidMiss(r) \/ DidDraw(r) \/ DidShow(r)
  <2>1. Advances(r) /\ Reads
    BY <1>4 DEF DidList, DidMiss, DidDraw, DidShow
  <2>2. /\ request[r].phase # "idle" /\ ~Over(r) /\ request'[r].kind = request[r].kind /\ request'[r].user = request[r].user
        /\ activo' = activo /\ bloqueo' = bloqueo /\ open' = open
    BY <2>1 DEF Advances, Kept, Reads, Over
  <2>3. /\ request[r].kind \in Shows /\ request[r].shown \subseteq open[r]
        /\ Open(request[r].kind, bloqueo, request[r].user) \subseteq open[r]
        /\ {b \in request[r].todo : activo[b]} \subseteq open[r]
    BY <1>1, <2>2 DEF ShowsOpen
  <2>4. Open(request[r].kind, bloqueo, request[r].user)' = Open(request[r].kind, bloqueo, request[r].user)
    BY <2>2 DEF Open, Blocked
  <2>5. ~DidMiss(r)
    BY <2>3 DEF DidMiss, Shows
  <2>6. CASE DidList(r)
    <3>1. /\ request'[r].todo \subseteq request[r].todo
          /\ request'[r].shown \subseteq request[r].shown \cup {b \in request[r].todo : activo[b]}
      BY <2>3, <2>6 DEF DidList
    <3>2. request'[r].shown \subseteq open[r] /\ {b \in request'[r].todo : activo[b]} \subseteq open[r]
      BY <2>3, <3>1
    <3> QED
      BY <2>2, <2>3, <2>4, <3>2 DEF ShowsOpen
  <2>7. CASE DidDraw(r)
    <3>1. request'[r].shown \subseteq open[r] /\ {b \in request'[r].todo : activo[b]} \subseteq open[r]
      BY <2>3, <2>7 DEF DidDraw
    <3> QED
      BY <2>2, <2>3, <2>4, <3>1 DEF ShowsOpen
  <2>8. CASE DidShow(r)
    <3>1. request'[r].shown \subseteq open[r] /\ {b \in request'[r].todo : activo[b]} \subseteq open[r]
      BY <2>3, <2>8 DEF DidShow
    <3> QED
      BY <2>2, <2>3, <2>4, <3>1 DEF ShowsOpen
  <2> QED
    BY <1>4, <2>5, <2>6, <2>7, <2>8
<1>5. CASE DidBlock(r) \/ DidUnblock(r) \/ DidMute(r)
  <2>1. request'[r].kind = request[r].kind /\ request[r].kind \in {"POST", "PUT", "unblock", "mutes"}
    BY <1>5 DEF DidBlock, DidUnblock, DidMute, In, Applies, Advances, Kept, IsBlock
  <2> QED
    BY <1>1, <2>1 DEF Shows
<1> QED
  BY <1>2, <1>3, <1>4, <1>5 DEF Did

-----------------------------------------------------------------------------
(* The blocks and the mutes that a request placed                           *)

\* What BlockStands and MutesTogether say of one request.
Stands(q) ==
  IsBlock(q) /\ request[q].applied =>
    (PairOf(q) \in bloqueo /\ request[q].phase # "KeyError") \/ Undone(q) # {}

Changed(q) ==
  request[q].kind = "mutes" /\ request[q].applied =>
    /\ \A b \in request[q].ids : Row(q, b) \in silencio \/ SaidOff(q, request[q].user, b)
    /\ \A b \in request[q].off : Row(q, b) \notin silencio \/ SaidOn(q, request[q].user, b)

\* Nobody comes into a list, or leaves it, but by a PATCH.
Cause ==
  /\ \A p \in silencio \ Muted : \E q \in Mutings(p[1]) : p[2] \in request[q].ids
  /\ \A p \in Muted \ silencio : \E q \in Mutings(p[1]) : p[2] \in request[q].off

\* The requests that were over when one arrived still are.
Order == \A q \in Requests : after[q] \subseteq Settled

LEMMA OrderStep ==
  ASSUME Types_, Order, \A q \in Requests : Known(q), NEW r \in Requests, Did(r)
  PROVE  Order'
<1>1. Settled \subseteq Settled'
  BY Onward
<1>2. ASSUME NEW q \in Requests PROVE after'[q] \subseteq Settled'
  <2>1. after'[q] = after[q] \/ after'[q] = Settled
    BY Shape DEF Enters, Stops, Advances, Reads
  <2> QED
    BY <1>1, <2>1 DEF Order
<1> QED
  BY <1>2 DEF Order

LEMMA UndoneStays ==
  ASSUME NEW q \in Requests, request[q].applied, \A p \in Requests : Stays(p)
  PROVE  Undone(q) \subseteq Undone(q)'
<1>1. PairOf(q)' = PairOf(q) /\ after'[q] = after[q]
  BY StaysPair DEF Stays
<1>2. ASSUME NEW p \in Undone(q) PROVE p \in Undone(q)'
  <2>1. p \in Requests /\ request[p].kind = "unblock" /\ request[p].applied /\ PairOf(p) = PairOf(q) /\ p \notin after[q]
    BY DEF Undone
  <2>2. Same(p) /\ request'[p].applied
    BY <2>1 DEF Stays
  <2>3. PairOf(p)' = PairOf(p)
    BY <2>1, <2>2, StaysPair
  <2> QED
    BY <1>1, <2>1, <2>2, <2>3 DEF Undone, Same
<1> QED
  BY <1>2

\* What happens to the blocks: one is placed, one is lifted, or none changes.
LEMMA BlockChange ==
  ASSUME NEW r \in Requests, Did(r)
  PROVE  \/ bloqueo \subseteq bloqueo'
         \/ DidUnblock(r)
BY DEF Did, Enters, Stops, DidList, DidMiss, DidDraw, DidShow, DidBlock, DidUnblock, DidMute, Reads, WithBlock

LEMMA Finds ==
  ASSUME NEW r \in Requests, Did(r), request'[r].phase = "KeyError"
  PROVE  DidMiss(r)
BY DEF Did, Enters, Arrived, Stops, Refused, DidList, DidDraw, DidShow, DidBlock, DidUnblock, DidMute, Applies

LEMMA NewlyApplied ==
  ASSUME NEW r \in Requests, Did(r), Advances(r), request'[r].applied # request[r].applied
  PROVE  DidBlock(r) \/ DidUnblock(r) \/ DidMute(r)
<1>1. ~Enters(r)
  BY DEF Enters, Advances
<1>2. ~Stops(r)
  BY DEF Stops, Refused
<1> QED
  BY <1>1, <1>2 DEF Did, DidList, DidMiss, DidDraw, DidShow

LEMMA StandsStep ==
  ASSUME Types_, Order, \A q \in Requests : Known(q), NEW r \in Requests, Did(r), NEW q \in Requests, Stands(q)
  PROVE  Stands(q)'
<1>0. r \notin Settled /\ \A p \in Requests : Stays(p)
  BY Onward
<1>1. SUFFICES ASSUME IsBlock(q)', request'[q].applied
               PROVE  (PairOf(q)' \in bloqueo' /\ request'[q].phase # "KeyError") \/ Undone(q)' # {}
  BY DEF Stands
<1>2. CASE ~request[q].applied
  <2>1. q = r
    BY <1>1, <1>2, Others
  <2>2. Advances(r) /\ request'[r].kind \in {"POST", "PUT"} /\ request'[r].applied # request[r].applied
    BY <1>1, <1>2, <2>1, Shape DEF IsBlock, Enters, Arrived, Stops, Refused
  <2>3. request'[r].kind = request[r].kind /\ request'[r].user = request[r].user /\ request'[r].ids = request[r].ids
    BY <2>2 DEF Advances, Kept
  <2>4. DidBlock(r)
    BY <2>2, <2>3, NewlyApplied DEF DidUnblock, DidMute, In
  <2>5. PairOf(r) \in bloqueo' /\ request'[r].phase = "placed"
    BY <2>4 DEF DidBlock, WithBlock, Applies
  <2>6. PairOf(r)' = PairOf(r)
    BY <2>3 DEF PairOf
  <2> QED
    BY <2>1, <2>5, <2>6
<1>3. CASE request[q].applied
  <2>1. Same(q) /\ after'[q] = after[q]
    BY <1>0, <1>3 DEF Stays
  <2>2. PairOf(q)' = PairOf(q) /\ IsBlock(q)
    BY <1>1, <2>1, StaysPair DEF IsBlock, Same
  <2>3. CASE Undone(q) # {}
    BY <1>0, <1>3, <2>3, UndoneStays
  <2>4. CASE PairOf(q) \in bloqueo /\ request[q].phase # "KeyError"
    <3>1. request'[q].phase # "KeyError"
      <4>1. CASE q # r
        BY <2>4, <4>1, Others
      <4>2. CASE q = r
        BY <2>4, <4>2, Finds DEF DidMiss
      <4> QED
        BY <4>1, <4>2
    <3>2. CASE PairOf(q) \in bloqueo'
      BY <2>2, <3>1, <3>2
    <3>3. CASE PairOf(q) \notin bloqueo'
      <4>1. DidUnblock(r)
        BY <2>4, <3>3, BlockChange
      <4>2. PairOf(r) = PairOf(q)
        BY <2>4, <3>3, <4>1 DEF DidUnblock, WithoutBlock
      <4>3. /\ request'[r].kind = "unblock" /\ request'[r].applied
            /\ request'[r].user = request[r].user /\ request'[r].ids = request[r].ids
        BY <4>1 DEF DidUnblock, Applies, Advances, Kept
      <4>4. PairOf(r)' = PairOf(q)'
        BY <2>2, <4>2, <4>3 DEF PairOf
      <4>5. r \notin after'[q]
        BY <1>0, <2>1 DEF Order
      <4>6. r \in Undone(q)'
        BY <4>3, <4>4, <4>5 DEF Undone
      <4> QED
        BY <4>6
    <3> QED
      BY <3>2, <3>3
  <2> QED
    BY <1>3, <2>2, <2>3, <2>4 DEF Stands
<1> QED
  BY <1>2, <1>3

LEMMA MineStays ==
  ASSUME \A p \in Requests : Stays(p), NEW u
  PROVE  /\ \A p \in Mutings(u) : p \in Mutings(u)'
         /\ \A p \in Mutings(u) : request'[p].ids = request[p].ids /\ request'[p].off = request[p].off
BY DEF Mutings, Stays, Same

\* What was said is still said.
LEMMA SaidStays ==
  ASSUME \A p \in Requests : Stays(p), NEW q, after'[q] = after[q], NEW u, NEW b
  PROVE  (SaidOn(q, u, b) => SaidOn(q, u, b)') /\ (SaidOff(q, u, b) => SaidOff(q, u, b)')
<1>1. /\ \A p \in Mutings(u) : p \in Mutings(u)'
      /\ \A p \in Mutings(u) : request'[p].ids = request[p].ids /\ request'[p].off = request[p].off
  BY MineStays
<1> QED
  BY <1>1 DEF SaidOn, SaidOff

LEMMA MuteChange ==
  ASSUME NEW r \in Requests, Did(r)
  PROVE  silencio' = silencio \/ DidMute(r)
BY DEF Did, Enters, Stops, DidList, DidMiss, DidDraw, DidShow, DidBlock, DidUnblock, Reads

\* A PATCH that is committed is one of its author's from then on, and the rows it changes are those of its author and
\* of the people it names.
LEMMA MuteMine ==
  ASSUME NEW r \in Requests, DidMute(r), NEW v, v = request[r].user
  PROVE  /\ r \in Mutings(v)'
         /\ request'[r].ids = request[r].ids /\ request'[r].off = request[r].off /\ request'[r].user = request[r].user
         /\ \A p : p \in silencio' \ silencio => p[1] = v /\ p[2] \in request[r].ids
         /\ \A p : p \in silencio \ silencio' => p[1] = v /\ p[2] \in request[r].off
<1>1. /\ request'[r].kind = "mutes" /\ request'[r].applied /\ request'[r].user = request[r].user
      /\ request'[r].ids = request[r].ids /\ request'[r].off = request[r].off
  BY DEF DidMute, In, Applies, Advances, Kept
<1>2. r \in Mutings(v)'
  BY <1>1 DEF Mutings
<1>3. silencio' = (silencio \ Deleted(r)) \cup Inserted(r)
  BY DEF DidMute
<1>4. /\ \A p \in Deleted(r) : p[1] = v /\ p[2] \in request[r].off
      /\ \A p \in Inserted(r) : p[1] = v /\ p[2] \in request[r].ids
  BY DEF Deleted, Inserted, Row
<1> QED
  BY <1>1, <1>2, <1>3, <1>4

LEMMA CauseStep ==
  ASSUME Types_, Cause, \A q \in Requests : Known(q), NEW r \in Requests, Did(r)
  PROVE  Cause'
<1>0. \A p \in Requests : Stays(p)
  BY Onward
<1>1. ASSUME NEW p \in silencio', p \notin Muted
      PROVE  \E q \in Mutings(p[1])' : p[2] \in request'[q].ids
  <2>1. CASE p \in silencio
    <3>1. PICK q \in Mutings(p[1]) : p[2] \in request[q].ids
      BY <1>1, <2>1 DEF Cause
    <3>2. q \in Mutings(p[1])' /\ request'[q].ids = request[q].ids
      BY <1>0, <3>1, MineStays
    <3> QED
      BY <3>1, <3>2
  <2>2. CASE p \notin silencio
    <3>1. DidMute(r)
      BY <1>1, <2>2, MuteChange
    <3>2. p[1] = request[r].user /\ p[2] \in request[r].ids
      BY <1>1, <2>2, <3>1, MuteMine
    <3>3. r \in Mutings(p[1])' /\ request'[r].ids = request[r].ids
      BY <3>1, <3>2, MuteMine
    <3> QED
      BY <3>2, <3>3
  <2> QED
    BY <2>1, <2>2
<1>2. ASSUME NEW p \in Muted, p \notin silencio'
      PROVE  \E q \in Mutings(p[1])' : p[2] \in request'[q].off
  <2>1. CASE p \notin silencio
    <3>1. PICK q \in Mutings(p[1]) : p[2] \in request[q].off
      BY <2>1 DEF Cause
    <3>2. q \in Mutings(p[1])' /\ request'[q].off = request[q].off
      BY <1>0, <3>1, MineStays
    <3> QED
      BY <3>1, <3>2
  <2>2. CASE p \in silencio
    <3>1. DidMute(r)
      BY <1>2, <2>2, MuteChange
    <3>2. p[1] = request[r].user /\ p[2] \in request[r].off
      BY <1>2, <2>2, <3>1, MuteMine
    <3>3. r \in Mutings(p[1])' /\ request'[r].off = request[r].off
      BY <3>1, <3>2, MuteMine
    <3> QED
      BY <3>2, <3>3
  <2> QED
    BY <2>1, <2>2
<1> QED
  BY <1>1, <1>2 DEF Cause

LEMMA RowSame ==
  ASSUME NEW q \in Requests, Same(q), NEW b
  PROVE  Row(q, b)' = Row(q, b)
BY DEF Same, Row

\* What the commit of r does to a row of another PATCH: it leaves it as it was, or it said so.
LEMMA MuteOther ==
  ASSUME Order, NEW r \in Requests, r \notin Settled, DidMute(r), NEW q \in Requests, after'[q] = after[q],
         NEW u, u = request[q].user, NEW b, NEW p, p = Row(q, b)
  PROVE  /\ p \in silencio' /\ (p \notin silencio \/ p \in Deleted(r)) => SaidOn(q, u, b)'
         /\ p \notin silencio' /\ p \in silencio => SaidOff(q, u, b)'
<1>1. PICK v : v = request[r].user
  OBVIOUS
<1>2. r \in Mutings(v)' /\ request'[r].ids = request[r].ids /\ request'[r].off = request[r].off
  BY <1>1, MuteMine
<1>3. r \notin after'[q]
  BY DEF Order
<1>4. silencio' = (silencio \ Deleted(r)) \cup Inserted(r)
  BY DEF DidMute
<1>5. ASSUME p \in Inserted(r) PROVE SaidOn(q, u, b)'
  <2>1. u = v /\ b \in request[r].ids
    BY <1>1, <1>5 DEF Inserted, Row
  <2> QED
    BY <1>2, <1>3, <2>1 DEF SaidOn
<1>6. ASSUME p \in Deleted(r) PROVE SaidOff(q, u, b)'
  <2>1. u = v /\ b \in request[r].off
    BY <1>1, <1>6 DEF Deleted, Row
  <2> QED
    BY <1>2, <1>3, <2>1 DEF SaidOff
<1> QED
  BY <1>4, <1>5, <1>6

\* A PATCH at the end of its statements, when it commits.
LEMMA MuteOwn ==
  ASSUME Types_, NEW r \in Requests, Known(r), Progress(r), \A p \in Requests : Stays(p), DidMute(r),
         request[r].phase = "inserting", request[r].todo = {}, Same(r), after'[r] = after[r]
  PROVE  Changed(r)'
<1>1. /\ request[r].kind = "mutes" /\ seen[r] = {} /\ request[r].ids \cap request[r].off = {}
      /\ \A b \in request[r].off : Leaves(r, b)
      /\ \A b \in request[r].ids : Joins(r, b)
  BY DEF DidMute, In, Progress, Known, Asked
<1>2. PICK u : u = request[r].user
  OBVIOUS
<1>3. silencio' = (silencio \ Deleted(r)) \cup Inserted(r)
  BY DEF DidMute
<1>4. request'[r].user = u /\ request'[r].ids = request[r].ids /\ request'[r].off = request[r].off
  BY <1>2 DEF Same
<1>5. ASSUME NEW b \in request[r].ids PROVE Row(r, b)' \in silencio' \/ SaidOff(r, u, b)'
  <2>1. Row(r, b)' = Row(r, b)
    BY RowSame
  <2>2. Row(r, b) \notin Deleted(r)
    BY <1>1 DEF Deleted, Row
  <2>3. Row(r, b) \in held[r] => Row(r, b) \in Inserted(r)
    BY DEF Inserted
  <2>4. SaidOff(r, u, b) => SaidOff(r, u, b)'
    BY SaidStays
  <2> QED
    BY <1>1, <1>2, <1>3, <2>1, <2>2, <2>3, <2>4 DEF Joins
<1>6. ASSUME NEW b \in request[r].off PROVE Row(r, b)' \notin silencio' \/ SaidOn(r, u, b)'
  <2>1. Row(r, b)' = Row(r, b)
    BY RowSame
  <2>2. Row(r, b) \notin Inserted(r)
    BY <1>1 DEF Inserted, Row
  <2>3. Row(r, b) \in held[r] => Row(r, b) \in Deleted(r)
    BY DEF Deleted
  <2>4. SaidOn(r, u, b) => SaidOn(r, u, b)'
    BY SaidStays
  <2> QED
    BY <1>1, <1>2, <1>3, <2>1, <2>2, <2>3, <2>4 DEF Leaves
<1> QED
  BY <1>4, <1>5, <1>6 DEF Changed

LEMMA ChangedStep ==
  ASSUME Types_, Order, \A q \in Requests : Known(q) /\ Progress(q), NEW r \in Requests, Did(r), NEW q \in Requests,
         Changed(q)
  PROVE  Changed(q)'
<1>0. r \notin Settled /\ \A p \in Requests : Stays(p)
  BY Onward
<1>1. SUFFICES ASSUME request'[q].kind = "mutes", request'[q].applied
               PROVE  Changed(q)'
  BY DEF Changed
<1>2. CASE ~request[q].applied
  <2>1. q = r
    BY <1>1, <1>2, Others
  <2>2. Advances(r) /\ request'[r].applied # request[r].applied /\ request'[r].kind = request[r].kind
    BY <1>1, <1>2, <2>1, Shape DEF Enters, Arrived, Stops, Refused, Advances, Kept
  <2>3. DidMute(r)
    BY <1>1, <2>1, <2>2, NewlyApplied DEF DidBlock, DidUnblock, IsBlock
  <2>4. Same(r) /\ after'[r] = after[r]
    BY <2>2 DEF Advances, Kept, Same
  <2> QED
    BY <1>0, <2>1, <2>3, <2>4, MuteOwn DEF DidMute, In
<1>3. CASE request[q].applied
  <2>1. Same(q) /\ after'[q] = after[q]
    BY <1>0, <1>3 DEF Stays
  <2>2. PICK u : u = request[q].user
    OBVIOUS
  <2>3. /\ request[q].kind = "mutes" /\ request'[q].user = u
        /\ request'[q].ids = request[q].ids /\ request'[q].off = request[q].off
    BY <1>1, <2>1, <2>2 DEF Same
  <2>4. silencio' = silencio \/ DidMute(r)
    BY MuteChange
  <2>5. ASSUME NEW b \in request[q].ids PROVE Row(q, b)' \in silencio' \/ SaidOff(q, u, b)'
    <3>1. Row(q, b)' = Row(q, b)
      BY <2>1, RowSame
    <3>2. Row(q, b) \in silencio \/ SaidOff(q, u, b)
      BY <1>3, <2>2, <2>3 DEF Changed
    <3>3. SaidOff(q, u, b) => SaidOff(q, u, b)'
      BY <1>0, <2>1, SaidStays
    <3> QED
      BY <1>0, <2>1, <2>2, <2>4, <3>1, <3>2, <3>3, MuteOther
  <2>6. ASSUME NEW b \in request[q].off PROVE Row(q, b)' \notin silencio' \/ SaidOn(q, u, b)'
    <3>1. Row(q, b)' = Row(q, b)
      BY <2>1, RowSame
    <3>2. Row(q, b) \notin silencio \/ SaidOn(q, u, b)
      BY <1>3, <2>2, <2>3 DEF Changed
    <3>3. SaidOn(q, u, b) => SaidOn(q, u, b)'
      BY <1>0, <2>1, SaidStays
    <3> QED
      BY <1>0, <2>1, <2>2, <2>4, <3>1, <3>2, <3>3, MuteOther
  <2> QED
    BY <2>3, <2>5, <2>6 DEF Changed
<1> QED
  BY <1>2, <1>3

\* The rows of a PATCH while another request takes a step.
LEMMA RowsOther ==
  ASSUME Types_, NEW r \in Requests, Did(r), Moves(r), NEW q \in Requests, q # r
  PROVE  /\ held'[q] = held[q]
         /\ \/ silencio' = silencio /\ seen'[q] = seen[q]
            \/ DidMute(r) /\ seen'[q] = seen[q] \ Deleted(r)
<1>1. CASE MutesDelete(r) \/ MutesInsert(r) \/ \E b \in Accounts : MutesDeleteRow(r, b) \/ MutesInsertRow(r, b)
  BY <1>1 DEF MutesDelete, MutesInsert, MutesDeleteRow, MutesInsertRow, Reads, Types_, locks
<1>2. CASE DidMute(r)
  BY <1>2 DEF DidMute, Types_
<1>3. CASE Rests(r) /\ ~DidMute(r)
  BY <1>3, MuteChange DEF Rests
<1> QED
  BY <1>1, <1>2, <1>3 DEF Moves

LEMMA ProgressOther ==
  ASSUME Types_, Order, \A p \in Requests : Known(p), NEW r \in Requests, Did(r), Moves(r),
         NEW q \in Requests, q # r, Progress(q)
  PROVE  Progress(q)'
<1>0. r \notin Settled /\ \A p \in Requests : Stays(p)
  BY Onward
<1>1. request'[q] = request[q] /\ after'[q] = after[q]
  BY Others
<1>2. /\ held'[q] = held[q]
      /\ \/ silencio' = silencio /\ seen'[q] = seen[q]
         \/ DidMute(r) /\ seen'[q] = seen[q] \ Deleted(r)
  BY RowsOther
<1>3. PICK u : u = request[q].user
  OBVIOUS
<1>4. ASSUME NEW b
      PROVE  /\ Row(q, b)' = Row(q, b)
             /\ (SaidOn(q, u, b) => SaidOn(q, u, b)') /\ (SaidOff(q, u, b) => SaidOff(q, u, b)')
             /\ DidMute(r) =>
                  /\ Row(q, b) \in silencio' /\ (Row(q, b) \notin silencio \/ Row(q, b) \in Deleted(r)) => SaidOn(q, u, b)'
                  /\ Row(q, b) \notin silencio' /\ Row(q, b) \in silencio => SaidOff(q, u, b)'
  <2>1. Row(q, b)' = Row(q, b)
    BY <1>1 DEF Row
  <2>2. (SaidOn(q, u, b) => SaidOn(q, u, b)') /\ (SaidOff(q, u, b) => SaidOff(q, u, b)')
    BY <1>0, <1>1, SaidStays
  <2> QED
    BY <1>0, <1>1, <1>3, <2>1, <2>2, MuteOther
<1>5. ASSUME NEW b, Leaves(q, b) PROVE Leaves(q, b)'
  <2>1. Row(q, b) \in seen[q] \cup held[q] \/ Row(q, b) \notin silencio \/ SaidOn(q, u, b)
    BY <1>3, <1>5 DEF Leaves
  <2>2. Row(q, b) \in seen'[q] \cup held'[q] \/ Row(q, b) \notin silencio' \/ SaidOn(q, u, b)'
    BY <1>2, <1>4, <2>1
  <2> QED
    BY <1>1, <1>3, <1>4, <2>2 DEF Leaves
<1>6. ASSUME NEW b, Joins(q, b) PROVE Joins(q, b)'
  <2>1. Row(q, b) \in silencio \cup held[q] \/ SaidOff(q, u, b)
    BY <1>3, <1>6 DEF Joins
  <2>2. Row(q, b) \in silencio' \cup held'[q] \/ SaidOff(q, u, b)'
    BY <1>2, <1>4, <2>1
  <2> QED
    BY <1>1, <1>3, <1>4, <2>2 DEF Joins
<1>7. seen[q] = {} => seen'[q] = {}
  BY <1>2
<1> QED
  BY <1>1, <1>5, <1>6, <1>7 DEF Progress

LEMMA ListSame ==
  ASSUME NEW r \in Requests, DidList(r)
  PROVE  Same(r)
BY DEF DidList, Advances, Kept, Same

\* The statements themselves.
LEMMA ProgressOwn ==
  ASSUME Types_, NEW r \in Requests, Known(r), Progress(r), Moves(r), \A p \in Requests : Stays(p)
  PROVE  Progress(r)'
<1>0. request \in [Requests -> State] /\ seen \in [Requests -> SUBSET Pairs] /\ held \in [Requests -> SUBSET Pairs]
  BY DEF Types_
<1>6. PICK u : u = request[r].user
  OBVIOUS
<1>7. ASSUME NEW b, Same(r), after'[r] = after[r]
      PROVE  /\ Row(r, b)' = Row(r, b) /\ request'[r].user = u
             /\ (SaidOn(r, u, b) => SaidOn(r, u, b)') /\ (SaidOff(r, u, b) => SaidOff(r, u, b)')
  <2>1. Row(r, b)' = Row(r, b) /\ request'[r].user = u
    BY <1>6, <1>7, RowSame DEF Same
  <2> QED
    BY <1>7, <2>1, SaidStays
<1>8. ASSUME NEW b, Same(r), after'[r] = after[r], silencio' = silencio, seen[r] \cup held[r] \subseteq seen'[r] \cup held'[r],
             Leaves(r, b)
      PROVE  Leaves(r, b)'
  <2>1. Row(r, b) \in seen[r] \cup held[r] \/ Row(r, b) \notin silencio \/ SaidOn(r, u, b)
    BY <1>6, <1>8 DEF Leaves
  <2>2. Row(r, b) \in seen'[r] \cup held'[r] \/ Row(r, b) \notin silencio' \/ SaidOn(r, u, b)'
    BY <1>7, <1>8, <2>1
  <2> QED
    BY <1>7, <1>8, <2>2 DEF Leaves
<1>9. ASSUME NEW b, Same(r), after'[r] = after[r], silencio' = silencio, held[r] \subseteq held'[r],
             Joins(r, b)
      PROVE  Joins(r, b)'
  <2>1. Row(r, b) \in silencio \cup held[r] \/ SaidOff(r, u, b)
    BY <1>6, <1>9 DEF Joins
  <2>2. Row(r, b) \in silencio' \cup held'[r] \/ SaidOff(r, u, b)'
    BY <1>7, <1>9, <2>1
  <2> QED
    BY <1>7, <1>9, <2>2 DEF Joins
<1>1. CASE MutesDelete(r)
  <2>1. /\ Same(r) /\ after'[r] = after[r] /\ silencio' = silencio
        /\ seen'[r] = {Row(r, b) : b \in request[r].off} \cap silencio /\ request'[r].phase = "deleting"
    BY <1>0, <1>1, MutesDeletes, ListSame DEF MutesDelete, Reads
  <2>2. ASSUME NEW b \in request'[r].off PROVE Leaves(r, b)'
    <3>1. Row(r, b)' = Row(r, b) /\ b \in request[r].off
      BY <1>7, <2>1 DEF Same
    <3>2. Row(r, b) \in seen'[r] \/ Row(r, b) \notin silencio'
      BY <2>1, <3>1
    <3> QED
      BY <3>1, <3>2 DEF Leaves
  <2> QED
    BY <2>1, <2>2 DEF Progress
<1>2. CASE MutesInsert(r)
  <2>1. /\ Same(r) /\ after'[r] = after[r] /\ silencio' = silencio /\ request[r].kind = "mutes"
        /\ request[r].phase = "deleting" /\ seen[r] = {} /\ seen'[r] = {} /\ held'[r] = held[r]
        /\ request'[r].todo = request'[r].ids
    BY <1>0, <1>2, MutesInserts, ListSame DEF MutesInsert, Same, In, Reads, locks
  <2>2. ASSUME NEW b \in request'[r].off PROVE Leaves(r, b)'
    <3>1. Leaves(r, b)
      BY <2>1, <2>2 DEF Progress, Same
    <3> QED
      BY <1>8, <2>1, <3>1
  <2> QED
    BY <2>1, <2>2 DEF Progress
<1>3. ASSUME NEW b \in Accounts, MutesDeleteRow(r, b) PROVE Progress(r)'
  <2>1. /\ Same(r) /\ after'[r] = after[r] /\ silencio' = silencio /\ request'[r] = request[r]
        /\ request[r].kind = "mutes" /\ request[r].phase = "deleting"
        /\ seen[r] \cup held[r] \subseteq seen'[r] \cup held'[r]
    BY <1>0, <1>3 DEF MutesDeleteRow, In, Reads, Same
  <2>2. ASSUME NEW c \in request[r].off PROVE Leaves(r, c)'
    <3>1. Leaves(r, c)
      BY <2>1 DEF Progress
    <3> QED
      BY <1>8, <2>1, <3>1
  <2> QED
    BY <2>1, <2>2 DEF Progress
<1>4. ASSUME NEW b \in Accounts, MutesInsertRow(r, b) PROVE Progress(r)'
  <2>1. /\ Same(r) /\ after'[r] = after[r] /\ silencio' = silencio
        /\ request[r].kind = "mutes" /\ request[r].phase = "inserting"
        /\ request'[r].todo = request[r].todo \ {b} /\ seen'[r] = seen[r]
        /\ held'[r] = held[r] \cup ({Row(r, b)} \ silencio)
    BY <1>0, <1>4, MutesInsertsRow, ListSame DEF MutesInsertRow, In, Reads
  <2>2. /\ seen[r] = {} /\ request[r].todo \subseteq request[r].ids
        /\ \A c \in request[r].off : Leaves(r, c)
        /\ \A c \in request[r].ids \ request[r].todo : Joins(r, c)
    BY <2>1 DEF Progress
  <2>3. ASSUME NEW c \in request'[r].off PROVE Leaves(r, c)'
    <3>1. Leaves(r, c) /\ seen[r] \cup held[r] \subseteq seen'[r] \cup held'[r]
      BY <2>1, <2>2, <2>3 DEF Same
    <3> QED
      BY <1>8, <2>1, <3>1
  <2>4. ASSUME NEW c \in request'[r].ids \ request'[r].todo PROVE Joins(r, c)'
    <3>1. CASE c = b
      <4>1. Row(r, b)' = Row(r, b)
        BY <1>7, <2>1
      <4>2. Row(r, b) \in silencio' \cup held'[r]
        BY <2>1
      <4> QED
        BY <3>1, <4>1, <4>2 DEF Joins
    <3>2. CASE c # b
      <4>1. Joins(r, c)
        BY <2>1, <2>2, <2>4, <3>2 DEF Same
      <4>2. held[r] \subseteq held'[r]
        BY <2>1
      <4> QED
        BY <1>9, <2>1, <4>1, <4>2
    <3> QED
      BY <3>1, <3>2
  <2>5. seen'[r] = {} /\ request'[r].todo \subseteq request'[r].ids
    BY <2>1, <2>2 DEF Same
  <2> QED
    BY <2>3, <2>4, <2>5 DEF Progress
<1>5. CASE DidMute(r) \/ Rests(r)
  BY <1>5 DEF DidMute, Applies, Rests, Under, Progress
<1> QED
  BY <1>1, <1>2, <1>3, <1>4, <1>5 DEF Moves

LEMMA ProgressStep ==
  ASSUME Types_, Order, \A q \in Requests : Known(q) /\ Progress(q), NEW r \in Requests, Did(r), Moves(r)
  PROVE  \A q \in Requests : Progress(q)'
<1>1. \A p \in Requests : Stays(p)
  BY Onward
<1>2. Progress(r)'
  BY <1>1, ProgressOwn
<1> QED
  BY <1>2, ProgressOther

-----------------------------------------------------------------------------
(* The invariant and the theorems                                           *)

IInv ==
  /\ Types_
  /\ \A q \in Requests : Known(q)
  /\ Order
  /\ \A q \in Requests : ShowsOpen(q)
  /\ \A q \in Requests : Stands(q)
  /\ \A q \in Requests : Progress(q)
  /\ \A q \in Requests : Changed(q)
  /\ Cause

LEMMA InitInv == Init => IInv
<1> SUFFICES ASSUME Init PROVE IInv
  OBVIOUS
<1>0. \A q \in Requests : request[q] = Idle /\ after[q] = {} /\ open[q] = {}
  BY DEF Init
<1>1. Types_
  <2>1. request \in [Requests -> State]
    BY IdleState DEF Init
  <2> QED
    BY <2>1, ContactAssumption DEF Init, Types_
<1>2. \A q \in Requests : request[q].phase = "idle" /\ request[q].shown = {} /\ ~request[q].applied
  BY <1>0 DEF Idle
<1>3. \A q \in Requests : Known(q)
  BY <1>0, <1>2 DEF Known
<1>4. Order
  BY <1>0 DEF Order
<1>5. \A q \in Requests : ShowsOpen(q) /\ Stands(q) /\ Progress(q) /\ Changed(q)
  BY <1>2 DEF ShowsOpen, Stands, Progress, Changed
<1>6. Cause
  BY DEF Init, Cause
<1> QED
  BY <1>1, <1>3, <1>4, <1>5, <1>6 DEF IInv

LEMMA DidInv ==
  ASSUME IInv, NEW r \in Requests, Did(r), Moves(r)
  PROVE  IInv'
<1>1. Types_ /\ (\A q \in Requests : Known(q) /\ Progress(q)) /\ Order /\ Cause
  BY DEF IInv
<1>2. Types_'
  BY <1>1, TypesStep
<1>3. \A q \in Requests : Known(q)'
  BY <1>1, KnownStep
<1>4. Order'
  BY <1>1, OrderStep
<1>5. ASSUME NEW q \in Requests PROVE ShowsOpen(q)'
  <2>1. ShowsOpen(q)
    BY DEF IInv
  <2>2. CASE q = r
    BY <1>1, <2>1, <2>2, ShowsOpenOwn
  <2>3. CASE q # r
    BY <1>1, <2>1, <2>3, ShowsOpenOther
  <2> QED
    BY <2>2, <2>3
<1>6. ASSUME NEW q \in Requests PROVE Stands(q)'
  <2>1. Stands(q)
    BY DEF IInv
  <2> QED
    BY <1>1, <2>1, StandsStep
<1>7. ASSUME NEW q \in Requests PROVE Changed(q)'
  <2>1. Changed(q)
    BY DEF IInv
  <2> QED
    BY <1>1, <2>1, ChangedStep
<1>8. Cause'
  BY <1>1, CauseStep
<1>9. \A q \in Requests : Progress(q)'
  BY <1>1, ProgressStep
<1> QED
  BY <1>2, <1>3, <1>4, <1>5, <1>6, <1>7, <1>8, <1>9 DEF IInv

\* A deletion only takes people out of those that may be shown.
LEMMA DeletesInv ==
  ASSUME IInv, Deletes
  PROVE  IInv'
<1>1. UNCHANGED <<bloqueo, silencio, seen, held, request, after, open>>
  BY DEF Deletes, locks
<1>2. PICK u \in Accounts : activo' = [activo EXCEPT ![u] = FALSE]
  BY DEF Deletes
<1>3. activo' \in [Accounts -> BOOLEAN] /\ \A b \in Accounts : activo'[b] => activo[b]
  BY <1>2 DEF IInv, Types_
<1>4. Types_'
  BY <1>1, <1>3 DEF IInv, Types_
<1>5. ASSUME NEW q \in Requests PROVE ShowsOpen(q)'
  <2>1. ShowsOpen(q) /\ request[q].todo \in SUBSET Accounts
    BY OfRequest DEF IInv
  <2>2. Open(request[q].kind, bloqueo, request[q].user)' \subseteq Open(request[q].kind, bloqueo, request[q].user)
    BY <1>1, <1>3 DEF Open, Blocked
  <2>3. {b \in request[q].todo : activo'[b]} \subseteq {b \in request[q].todo : activo[b]}
    BY <1>3, <2>1
  <2> QED
    BY <1>1, <2>1, <2>2, <2>3 DEF ShowsOpen, Over
<1>6. \A q \in Requests : Known(q)'
  BY <1>1 DEF IInv, Known
<1>7. Order' /\ Cause'
  BY <1>1 DEF IInv, Order, Settled, Over, Cause, Mutings
<1>8. \A q \in Requests : Stands(q)'
  BY <1>1 DEF IInv, Stands, IsBlock, PairOf, Undone
<1>9. \A q \in Requests : Progress(q)' /\ Changed(q)'
  BY <1>1 DEF IInv, Progress, Leaves, Joins, Changed, SaidOn, SaidOff, Row, Mutings
<1> QED
  BY <1>4, <1>5, <1>6, <1>7, <1>8, <1>9 DEF IInv

LEMMA Stutter ==
  ASSUME IInv, UNCHANGED vars
  PROVE  IInv'
<1>1. UNCHANGED <<activo, bloqueo, silencio, seen, held, request, after, open>>
  BY DEF vars
<1>2. Types_' /\ (\A q \in Requests : Known(q)')
  BY <1>1 DEF IInv, Types_, Known
<1>3. Order' /\ Cause'
  BY <1>1 DEF IInv, Order, Settled, Over, Cause, Mutings
<1>4. \A q \in Requests : ShowsOpen(q)'
  BY <1>1 DEF IInv, ShowsOpen, Open, Blocked, Over
<1>5. \A q \in Requests : Stands(q)'
  BY <1>1 DEF IInv, Stands, IsBlock, PairOf, Undone
<1>6. \A q \in Requests : Progress(q)' /\ Changed(q)'
  BY <1>1 DEF IInv, Progress, Leaves, Joins, Changed, SaidOn, SaidOff, Row, Mutings
<1> QED
  BY <1>2, <1>3, <1>4, <1>5, <1>6 DEF IInv

LEMMA NextInv == IInv /\ [Next]_vars => IInv'
<1> SUFFICES ASSUME IInv, [Next]_vars PROVE IInv'
  OBVIOUS
<1>1. UNCHANGED vars \/ Deletes \/ \E r \in Requests : Did(r) /\ Moves(r)
  BY Steps DEF IInv
<1> QED
  BY <1>1, DidInv, DeletesInv, Stutter

\* The invariant holds in every state: each step keeps it.
LEMMA Invariance == Spec => []IInv
<1>1. Init => IInv
  BY InitInv
<1>2. IInv /\ [Next]_vars => IInv'
  BY NextInv
<1> QED
  BY <1>1, <1>2, PTL DEF Spec

\* Whatever requests and deletions come, in any order, the tables and the requests hold what they may hold; in
\* particular nobody is ever in a list of blocks or of mutes of their own.
THEOREM Types == Spec => []TypeOK
<1>1. IInv => TypeOK
  <2> SUFFICES ASSUME IInv PROVE TypeOK
    OBVIOUS
  <2>1. Types_
    BY DEF IInv
  <2>2. \A r \in Requests :
          /\ request[r].kind \in Kind /\ request[r].phase \in Phase /\ request[r].user \in Accounts \cup {NULL}
          /\ UNION {request[r].ids, request[r].off, request[r].todo, request[r].shown} \subseteq Accounts
          /\ request[r].applied \in BOOLEAN
    BY <2>1, OfRequest
  <2> QED
    BY <2>1, <2>2 DEF Types_, TypeOK, Kind, Phase
<1> QED
  BY <1>1, Invariance, PTL

\* While a block of either one stands, from before a request of cards, suggestions or a check arrives until it
\* answers, neither is served to the other, however the blocks, the deletions and the other requests interleave.
THEOREM Cut == Spec => []BlockCutsContact
<1>1. IInv => BlockCutsContact
  BY DEF IInv, ShowsOpen, Shows, BlockCutsContact
<1> QED
  BY <1>1, Invariance, PTL

\* A block that was answered stands until its author lifts it.
THEOREM StandsUntilLifted == Spec => []BlockStands
<1>1. IInv => BlockStands
  BY DEF IInv, Stands, BlockStands
<1> QED
  BY <1>1, Invariance, PTL

\* The changes of a PATCH of the muted people hold together, however its two statements and those of other PATCHes
\* interleave, but for what a PATCH that was not over when it arrived said the other way; and the list changes by PATCHes
\* that were committed and by nothing else.
THEOREM Together == Spec => []MutesTogether
<1>1. IInv => MutesTogether
  <2> SUFFICES ASSUME IInv PROVE MutesTogether
    OBVIOUS
  <2>1. Cause
    BY DEF IInv
  <2>2. ASSUME NEW r \in Requests, request[r].kind = "mutes", request[r].applied,
               NEW during, during = Mutings(request[r].user) \ after[r]
        PROVE  /\ \A b \in request[r].ids : Row(r, b) \in silencio \/ \E q \in during : b \in request[q].off
               /\ \A b \in request[r].off : Row(r, b) \notin silencio \/ \E q \in during : b \in request[q].ids
    BY <2>2 DEF IInv, Changed, SaidOn, SaidOff
  <2> QED
    BY <2>1, <2>2 DEF MutesTogether, Cause
<1> QED
  BY <1>1, Invariance, PTL

-----------------------------------------------------------------------------
(* Sums over finite sets                                                    *)

\* A set of natural numbers has a least one.  This is how the facts below go by induction: a counterexample of least
\* size is none.
LEMMA LeastNumber ==
  ASSUME NEW T \in SUBSET Nat, T # {}
  PROVE  \E n \in T : \A m \in T : n <= m
<1>1. PICK n \in T : \A m \in T : ~(<<m, n>> \in OpToRel(<, Nat))
  BY NatLessThanWellFounded, WFMin
<1>2. ASSUME NEW m \in T PROVE n <= m
  <2>1. n \in Nat /\ m \in Nat
    OBVIOUS
  <2>2. <<m, n>> \in Nat \X Nat
    BY <2>1
  <2>3. ~(m < n)
    BY <1>1, <2>2, Zenon DEF OpToRel
  <2> QED
    BY <2>1, <2>3
<1> QED
  BY <1>2

\* The element that a sum takes next.
Any(s) == CHOOSE x \in s : TRUE

\* sum gives the sum of g over each of these sets: that of the rest, and the one taken.
Sums(sum, sets, g) ==
  /\ sum \in [sets -> Int]
  /\ \A s \in sets : sum[s] = IF s = {} THEN 0 ELSE g[Any(s)] + sum[s \ {Any(s)}]

LEMMA AnyRest ==
  ASSUME NEW s, IsFiniteSet(s), s # {}
  PROVE  /\ Any(s) \in s /\ s \ {Any(s)} \in SUBSET s
         /\ IsFiniteSet(s \ {Any(s)}) /\ Cardinality(s) \in Nat
         /\ Cardinality(s \ {Any(s)}) = Cardinality(s) - 1
BY FS_RemoveElement, FS_CardinalityType DEF Any

\* There is such a function, for the subsets of a finite set: first for the empty one, then for those of one element
\* more.
LEMMA SumsExist ==
  ASSUME NEW S, IsFiniteSet(S), NEW g \in [S -> Int]
  PROVE  \E sum : Sums(sum, SUBSET S, g)
<1> DEFINE Small(n) == {s \in SUBSET S : Cardinality(s) <= n}
           Bad == {n \in Nat : ~\E sum : Sums(sum, Small(n), g)}
<1>0. \A s \in SUBSET S : IsFiniteSet(s) /\ Cardinality(s) \in Nat /\ Cardinality(s) <= Cardinality(S)
  BY FS_Subset, FS_CardinalityType
<1>1. 0 \notin Bad
  <2> DEFINE zero == [s \in Small(0) |-> 0]
  <2>1. \A s \in Small(0) : s = {}
    BY <1>0, FS_EmptySet
  <2>2. Sums(zero, Small(0), g)
    BY <2>1 DEF Sums
  <2> QED
    BY <2>2
<1>2. ASSUME NEW n \in Nat, n \notin Bad PROVE n + 1 \notin Bad
  <2>1. PICK sum : Sums(sum, Small(n), g)
    BY <1>2
  <2> DEFINE more == [s \in Small(n + 1) |-> IF s = {} THEN 0 ELSE g[Any(s)] + sum[s \ {Any(s)}]]
  <2>2. ASSUME NEW s \in Small(n + 1), s # {}
        PROVE  s \ {Any(s)} \in Small(n) /\ Any(s) \in S /\ s \ {Any(s)} \in Small(n + 1)
    <3>1. s \in SUBSET S /\ Cardinality(s) <= n + 1
      OBVIOUS
    <3>2. /\ Any(s) \in s /\ s \ {Any(s)} \in SUBSET s
          /\ Cardinality(s) \in Nat /\ Cardinality(s \ {Any(s)}) = Cardinality(s) - 1
      BY <1>0, <2>2, <3>1, AnyRest
    <3> QED
      BY <3>1, <3>2
  <2>3. \A t \in Small(n) : t \in Small(n + 1) /\ more[t] = sum[t]
    <3>1. ASSUME NEW t \in Small(n) PROVE t \in Small(n + 1)
      BY <1>0, <1>2
    <3> QED
      BY <2>1, <3>1 DEF Sums
  <2>4. more \in [Small(n + 1) -> Int]
    <3>1. ASSUME NEW s \in Small(n + 1), s # {} PROVE g[Any(s)] + sum[s \ {Any(s)}] \in Int
      <4>1. g[Any(s)] \in Int /\ sum[s \ {Any(s)}] \in Int
        BY <2>1, <2>2, <3>1 DEF Sums
      <4> QED
        BY <4>1
    <3>2. \A s \in Small(n + 1) : (IF s = {} THEN 0 ELSE g[Any(s)] + sum[s \ {Any(s)}]) \in Int
      BY <3>1
    <3> HIDE DEF Small
    <3> QED
      BY <3>2, Zenon
  <2>5. \A s \in Small(n + 1) : more[s] = IF s = {} THEN 0 ELSE g[Any(s)] + more[s \ {Any(s)}]
    BY <2>2, <2>3
  <2>6. Sums(more, Small(n + 1), g)
    BY <2>4, <2>5 DEF Sums
  <2> QED
    BY <2>6
<1>3. Bad = {}
  <2>1. SUFFICES ASSUME Bad # {} PROVE FALSE
    OBVIOUS
  <2>2. Bad \in SUBSET Nat
    OBVIOUS
  <2>3. PICK n \in Bad : \A m \in Bad : n <= m
    BY <2>1, <2>2, LeastNumber
  <2>4. n \in Nat /\ n # 0
    BY <1>1
  <2> HIDE DEF Bad
  <2>5. n - 1 \in Nat /\ n - 1 \notin Bad
    BY <2>3, <2>4
  <2>6. (n - 1) + 1 \notin Bad
    BY <1>2, <2>5
  <2>7. (n - 1) + 1 = n
    BY <2>4
  <2> QED
    BY <2>6, <2>7
<1>4. Cardinality(S) \in Nat
  BY FS_CardinalityType
<1>5. PICK sum : Sums(sum, Small(Cardinality(S)), g)
  BY <1>3, <1>4
<1>6. Small(Cardinality(S)) = SUBSET S
  BY <1>0
<1> QED
  BY <1>5, <1>6

\* A sum of numbers from 0 to top is at most top for each.
LEMMA SumBounds ==
  ASSUME NEW S, IsFiniteSet(S), NEW top \in Nat, NEW g, \A x \in S : g[x] \in 0..top, NEW sum,
         \A s \in SUBSET S : sum[s] = IF s = {} THEN 0 ELSE g[Any(s)] + sum[s \ {Any(s)}]
  PROVE  sum[S] \in 0 .. (top * Cardinality(S))
<1> DEFINE Bad == {n \in Nat : \E s \in SUBSET S : Cardinality(s) = n /\ sum[s] \notin 0 .. (top * n)}
<1>0. \A s \in SUBSET S : IsFiniteSet(s) /\ Cardinality(s) \in Nat
  BY FS_Subset, FS_CardinalityType
<1>1. Bad = {}
  <2>1. SUFFICES ASSUME Bad # {} PROVE FALSE
    OBVIOUS
  <2>2. PICK n \in Bad : \A m \in Bad : n <= m
    <3>1. Bad \in SUBSET Nat
      OBVIOUS
    <3> QED
      BY <2>1, <3>1, LeastNumber
  <2>3. PICK s \in SUBSET S : Cardinality(s) = n /\ sum[s] \notin 0 .. (top * n)
    BY <2>2
  <2>4. s # {}
    <3>1. SUFFICES ASSUME s = {} PROVE FALSE
      OBVIOUS
    <3>2. n = 0 /\ sum[s] = 0
      BY <2>3, <3>1, FS_EmptySet
    <3> QED
      BY <2>3, <3>2
  <2>5. PICK x, t : x = Any(s) /\ t = s \ {Any(s)}
    OBVIOUS
  <2>6. x \in S /\ t \in SUBSET S /\ Cardinality(t) = n - 1 /\ n \in Nat /\ n # 0 /\ sum[s] = g[x] + sum[t]
    <3>1. /\ Any(s) \in s /\ s \ {Any(s)} \in SUBSET s
          /\ Cardinality(s) \in Nat /\ Cardinality(s \ {Any(s)}) = Cardinality(s) - 1
          /\ Cardinality(s \ {Any(s)}) \in Nat
      <4>1. IsFiniteSet(s)
        BY <1>0
      <4>2. IsFiniteSet(s \ {Any(s)})
        BY <2>4, <4>1, AnyRest
      <4> QED
        BY <2>4, <4>1, <4>2, AnyRest, FS_CardinalityType
    <3>2. n \in Nat /\ s \in SUBSET S /\ Cardinality(s) = n
      BY <2>2, <2>3
    <3>3. sum[s] = g[x] + sum[t]
      BY <2>4, <2>5, <3>2
    <3> HIDE DEF Bad
    <3>4. n # 0
      BY <3>1, <3>2
    <3> QED
      BY <2>5, <3>1, <3>2, <3>3, <3>4
  <2>7. n - 1 \notin Bad
    BY <2>2, <2>6
  <2>8. sum[t] \in 0 .. (top * (n - 1)) /\ g[x] \in 0..top
    BY <2>6, <2>7
  <2>9. top * (n - 1) = top * n - top /\ top * n \in Int
    BY <2>6
  <2> HIDE DEF Bad
  <2>10. g[x] + sum[t] \in 0 .. (top * n)
    BY <2>8, <2>9
  <2> QED
    BY <2>3, <2>6, <2>10
<1>2. Cardinality(S) \in Nat /\ S \in SUBSET S
  BY <1>0
<1> QED
  BY <1>1, <1>2

-----------------------------------------------------------------------------
(* The rules                                                                *)

LEMMA SharedFinite ==
  ASSUME NEW mine, NEW theirs, Levels(mine), Levels(theirs)
  PROVE  /\ IsFiniteSet(Shared(mine, theirs)) /\ IsFiniteSet(Union(mine, theirs))
         /\ Cardinality(Shared(mine, theirs)) \in Nat /\ Cardinality(Union(mine, theirs)) \in Nat
         /\ Cardinality(Shared(mine, theirs)) <= Cardinality(Union(mine, theirs))
         /\ Cardinality(Union(mine, theirs)) =
              Cardinality(DOMAIN mine) + Cardinality(DOMAIN theirs) - Cardinality(Shared(mine, theirs))
<1>1. IsFiniteSet(DOMAIN mine) /\ IsFiniteSet(DOMAIN theirs)
  BY DEF Levels
<1>2. /\ IsFiniteSet(DOMAIN mine \cup DOMAIN theirs)
      /\ Cardinality(DOMAIN mine \cup DOMAIN theirs) =
           Cardinality(DOMAIN mine) + Cardinality(DOMAIN theirs) - Cardinality(DOMAIN mine \cap DOMAIN theirs)
  BY <1>1, FS_Union
<1>3. DOMAIN mine \cap DOMAIN theirs \in SUBSET (DOMAIN mine \cup DOMAIN theirs)
  OBVIOUS
<1> QED
  BY <1>2, <1>3, FS_Subset, FS_CardinalityType DEF Shared, Union

\* A shared sport is worth from 0 to 4, so the weight is at most four times their number.
LEMMA WeightType ==
  ASSUME NEW mine, NEW theirs, Levels(mine), Levels(theirs)
  PROVE  Weight(mine, theirs) \in 0 .. (4 * Cardinality(Shared(mine, theirs)))
<1> DEFINE S == Shared(mine, theirs)
           worth == [code \in S |-> 4 - Abs(mine[code] - theirs[code])]
           IsIter(i) == i = [s \in SUBSET S |->
                              IF s = {} THEN 0
                              ELSE 4 - Abs(mine[CHOOSE x \in s : TRUE] - theirs[CHOOSE x \in s : TRUE])
                                   + i[s \ {CHOOSE x \in s : TRUE}]]
<1>1. IsFiniteSet(S)
  BY SharedFinite
<1>2. \A code \in S : worth[code] \in 0..4
  BY DEF Shared, Levels, Abs
<1>3. \A s \in SUBSET S : s # {} => Any(s) \in S
  BY DEF Any
<1>4. PICK sum : Sums(sum, SUBSET S, worth)
  <2>1. worth \in [S -> Int]
    BY <1>2
  <2> HIDE DEF worth, S
  <2> QED
    BY <1>1, <2>1, SumsExist
<1>5. IsIter(sum)
  <2>1. sum = [s \in SUBSET S |-> IF s = {} THEN 0 ELSE worth[Any(s)] + sum[s \ {Any(s)}]]
    BY <1>4 DEF Sums
  <2>2. \A s \in SUBSET S : s # {} => worth[Any(s)] = 4 - Abs(mine[Any(s)] - theirs[Any(s)])
    BY <1>3
  <2> HIDE DEF worth, S
  <2> QED
    BY <2>1, <2>2 DEF Any
<1>6. Weight(mine, theirs) = (CHOOSE i : IsIter(i))[S]
  BY DEF Weight, SumShared, Sets!MapThenSumSet, Sets!MapThenFoldSet
<1>7. PICK iter : IsIter(iter) /\ Weight(mine, theirs) = iter[S]
  BY <1>5, <1>6
<1>8. \A s \in SUBSET S : iter[s] = IF s = {} THEN 0 ELSE worth[Any(s)] + iter[s \ {Any(s)}]
  BY <1>3, <1>7 DEF Any
<1> HIDE DEF S, worth, IsIter
<1>9. iter[S] \in 0 .. (4 * Cardinality(S))
  BY <1>1, <1>2, <1>8, SumBounds
<1> QED
  BY <1>7, <1>9 DEF S

-----------------------------------------------------------------------------
(* Fractions                                                                *)

LEMMA Products ==
  ASSUME NEW a \in Int, NEW b \in Int, NEW k \in Nat \ {0}
  PROVE  /\ k * a <= k * b => a <= b
         /\ a <= b => k * a <= k * b
         /\ a < b => k * a < k * b
<1>1. ASSUME a < b PROVE k * a < k * b
  <2>1. PICK d \in Nat \ {0} : b = a + d
    <3>1. b - a \in Nat \ {0} /\ b = a + (b - a)
      BY <1>1
    <3> QED
      BY <3>1
  <2>2. k * b = k * a + k * d
    BY <2>1
  <2>3. k * d > 0
    BY <2>1
  <2>4. k * a \in Int /\ k * d \in Int
    BY <2>1
  <2> QED
    BY <2>2, <2>3, <2>4
<1>2. k * a \in Int /\ k * b \in Int
  OBVIOUS
<1>3. ASSUME b < a PROVE k * b < k * a
  <2>1. PICK d \in Nat \ {0} : a = b + d
    <3>1. a - b \in Nat \ {0} /\ a = b + (a - b)
      BY <1>3
    <3> QED
      BY <3>1
  <2>2. k * a = k * b + k * d
    BY <2>1
  <2>3. k * d > 0
    BY <2>1
  <2>4. k * b \in Int /\ k * d \in Int
    BY <2>1
  <2> QED
    BY <2>2, <2>3, <2>4
<1>4. a < b \/ a = b \/ b < a
  OBVIOUS
<1> QED
  BY <1>1, <1>2, <1>3, <1>4

\* a / x <= b / y and b / y <= c / z give a / x <= c / z.
LEMMA Cross ==
  ASSUME NEW a \in Nat, NEW b \in Nat, NEW c \in Nat,
         NEW x \in Nat \ {0}, NEW y \in Nat \ {0}, NEW z \in Nat \ {0},
         a * y <= b * x, b * z <= c * y
  PROVE  a * z <= c * x
<1>1. a * y \in Int /\ b * x \in Int /\ b * z \in Int /\ c * y \in Int /\ a * z \in Int /\ c * x \in Int
  OBVIOUS
<1>2. z * (a * y) <= z * (b * x)
  BY <1>1, Products
<1>3. x * (b * z) <= x * (c * y)
  BY <1>1, Products
<1>4. /\ z * (a * y) = y * (a * z)
      /\ z * (b * x) = x * (b * z)
      /\ x * (c * y) = y * (c * x)
  OBVIOUS
<1>5. y * (a * z) \in Int /\ y * (c * x) \in Int /\ x * (b * z) \in Int
  OBVIOUS
<1>6. y * (a * z) <= y * (c * x)
  BY <1>2, <1>3, <1>4, <1>5
<1> QED
  BY <1>1, <1>6, Products

LEMMA Division ==
  ASSUME NEW n \in Nat, NEW d \in Nat \ {0}
  PROVE  /\ n \div d \in Nat /\ n % d \in 0 .. (d - 1)
         /\ n = d * (n \div d) + (n % d)
<1>1. n % d \in 0 .. (d - 1)
  OBVIOUS
<1>2. n = d * (n \div d) + (n % d)
  OBVIOUS
<1>3. n \div d \in Int
  OBVIOUS
<1>4. n \div d >= 0
  <2>1. PICK q \in Int : q = n \div d
    BY <1>3
  <2>2. PICK r \in Int : r = n % d /\ r < d
    BY <1>1
  <2>3. n = d * q + r
    BY <1>2, <2>1, <2>2
  <2>4. SUFFICES ASSUME q <= -1 PROVE FALSE
    BY <2>1
  <2>5. d * q <= d * (-1)
    BY <2>4, Products
  <2>6. d * (-1) = -d /\ d * q \in Int
    OBVIOUS
  <2> QED
    BY <2>2, <2>3, <2>5, <2>6
<1> QED
  BY <1>1, <1>2, <1>3, <1>4

\* Rounding keeps the order of fractions.
LEMMA RoundKeepsOrder ==
  ASSUME NEW m \in Nat, NEW n \in Nat, NEW d \in Nat \ {0}, NEW e \in Nat \ {0}, m * e <= n * d
  PROVE  /\ Round(m, d) \in Nat /\ Round(n, e) \in Nat
         /\ Round(m, d) <= Round(n, e)
<1>1. PICK q \in Nat, r \in Nat : q = m \div d /\ r = m % d /\ r < d /\ m = d * q + r
  BY Division
<1>2. PICK u \in Nat, s \in Nat : u = n \div e /\ s = n % e /\ s < e /\ n = e * u + s
  BY Division
<1>3. /\ Round(m, d) = IF 2 * r > d \/ (2 * r = d /\ q % 2 = 1) THEN q + 1 ELSE q
      /\ Round(n, e) = IF 2 * s > e \/ (2 * s = e /\ u % 2 = 1) THEN u + 1 ELSE u
  BY <1>1, <1>2 DEF Round
<1>4. PICK de \in Nat, re \in Nat, sd \in Nat : de = d * e /\ re = r * e /\ sd = s * d
  <2>1. d * e \in Nat /\ r * e \in Nat /\ s * d \in Nat
    OBVIOUS
  <2> QED
    BY <2>1
<1>5. m * e = q * de + re /\ n * d = u * de + sd
  <2>1. m * e = q * (d * e) + r * e
    <3>1. (d * q + r) * e = q * (d * e) + r * e
      OBVIOUS
    <3> QED
      BY <1>1, <3>1
  <2>2. n * d = u * (d * e) + s * d
    <3>1. (e * u + s) * d = u * (d * e) + s * d
      OBVIOUS
    <3> QED
      BY <1>2, <3>1
  <2> QED
    BY <1>4, <2>1, <2>2
<1>6. sd < de /\ re < de
  <2>1. d * s < d * e /\ e * r < e * d
    BY <1>1, <1>2, Products
  <2>2. d * s = s * d /\ e * r = r * e /\ e * d = d * e
    OBVIOUS
  <2> QED
    BY <1>4, <2>1, <2>2
<1>7. q <= u
  <2>1. SUFFICES ASSUME u + 1 <= q PROVE FALSE
    OBVIOUS
  <2>2. de \in Nat \ {0}
    BY <1>6
  <2>3. de * (u + 1) <= de * q
    BY <2>1, <2>2, Products
  <2>4. de * (u + 1) = u * de + de /\ de * q = q * de /\ u * de \in Nat /\ q * de \in Nat
    OBVIOUS
  <2> QED
    BY <1>5, <1>6, <2>3, <2>4
<1>8. CASE q < u
  BY <1>3, <1>8
<1>9. CASE q = u
  <2>1. re <= sd
    <3>1. q * de \in Nat
      OBVIOUS
    <3> QED
      BY <1>5, <1>9, <3>1
  <2>2. ASSUME d < 2 * r PROVE e < 2 * s
    <3>1. e * d < e * (2 * r)
      BY <2>2, Products
    <3>2. e * d = de /\ e * (2 * r) = 2 * re
      BY <1>4
    <3>3. d * e < d * (2 * s)
      <4>1. d * e = de /\ d * (2 * s) = 2 * sd
        BY <1>4
      <4> QED
        BY <2>1, <3>1, <3>2, <4>1
    <3>4. ~(2 * s <= e)
      <4>1. SUFFICES ASSUME 2 * s <= e PROVE FALSE
        OBVIOUS
      <4>2. d * (2 * s) <= d * e
        BY <4>1, Products
      <4>3. d * (2 * s) \in Int /\ d * e \in Int
        OBVIOUS
      <4> QED
        BY <3>3, <4>2, <4>3
    <3> QED
      BY <3>4
  <2>3. ASSUME 2 * r = d PROVE e <= 2 * s
    <3>1. 2 * re = de
      <4>1. (2 * r) * e = 2 * (r * e)
        OBVIOUS
      <4> QED
        BY <1>4, <2>3, <4>1
    <3>2. d * e <= d * (2 * s)
      <4>1. d * e = de /\ d * (2 * s) = 2 * sd
        BY <1>4
      <4> QED
        BY <2>1, <3>1, <4>1
    <3> QED
      BY <3>2, Products
  <2> QED
    BY <1>3, <1>9, <2>2, <2>3
<1> QED
  BY <1>3, <1>7, <1>8, <1>9

-----------------------------------------------------------------------------
(* The score and the compatibility                                          *)

LEMMA ScoreType ==
  ASSUME NEW mine, NEW theirs, Levels(mine), Levels(theirs)
  PROVE  /\ Score(mine, theirs).sum \in Nat /\ Score(mine, theirs).by \in Nat \ {0}
         /\ Score(mine, theirs).sum <= 4 * Score(mine, theirs).by
<1>1. PICK w, c, u : /\ w = Weight(mine, theirs) /\ c = Cardinality(Shared(mine, theirs))
                    /\ u = Cardinality(Union(mine, theirs))
  OBVIOUS
<1>2. w \in 0 .. (4 * c)
  BY <1>1, WeightType
<1>3. c \in Nat /\ u \in Nat /\ c <= u
  BY <1>1, SharedFinite
<1>4. Score(mine, theirs).sum = w /\ Score(mine, theirs).by = IF u > 1 THEN u ELSE 1
  BY <1>1, SharedFinite DEF Score
<1> QED
  BY <1>2, <1>3, <1>4

\* The compatibility is the score of the query, rounded: also without sports.
LEMMA CompatibilityOfScore ==
  ASSUME NEW mine, NEW theirs, Levels(mine), Levels(theirs)
  PROVE  Compatibility(mine, theirs) = Round(100 * Score(mine, theirs).sum, 4 * Score(mine, theirs).by)
<1>1. PICK w, c, u : /\ w = Weight(mine, theirs) /\ c = Cardinality(Shared(mine, theirs))
                    /\ u = Cardinality(Union(mine, theirs))
  OBVIOUS
<1>2. w \in 0 .. (4 * c)
  BY <1>1, WeightType
<1>3. c \in Nat /\ u \in Nat /\ c <= u
  BY <1>1, SharedFinite
<1>4. Score(mine, theirs).sum = w /\ Score(mine, theirs).by = IF u > 1 THEN u ELSE 1
  BY <1>1, SharedFinite DEF Score
<1>5. CASE Union(mine, theirs) = {}
  <2>1. u = 0 /\ w = 0
    BY <1>1, <1>2, <1>3, <1>5, FS_EmptySet
  <2>2. Round(0, 4) = 0
    BY DEF Round
  <2> QED
    BY <1>4, <1>5, <2>1, <2>2 DEF Compatibility
<1>6. CASE Union(mine, theirs) # {}
  <2>1. u # 0
    BY <1>1, <1>6, SharedFinite, FS_EmptySet
  <2>2. Score(mine, theirs).by = u
    BY <1>3, <1>4, <2>1
  <2> QED
    BY <1>1, <1>4, <1>6, <2>2 DEF Compatibility
<1> QED
  BY <1>5, <1>6

\* Who has not the higher score has not the higher compatibility, which goes from 0 to 100.
LEMMA ScoreRules ==
  ASSUME NEW mine, NEW a, NEW b, Levels(mine), Levels(a), Levels(b)
  PROVE  /\ Compatibility(mine, a) \in 0..100
         /\ ~(Score(mine, a).sum * Score(mine, b).by > Score(mine, b).sum * Score(mine, a).by)
              => Compatibility(mine, a) <= Compatibility(mine, b)
<1>1. PICK m \in Nat, d \in Nat \ {0}, n \in Nat, e \in Nat \ {0} :
        /\ m = Score(mine, a).sum /\ d = Score(mine, a).by
        /\ n = Score(mine, b).sum /\ e = Score(mine, b).by
        /\ m <= 4 * d
  BY ScoreType
<1>2. Compatibility(mine, a) = Round(100 * m, 4 * d) /\ Compatibility(mine, b) = Round(100 * n, 4 * e)
  BY <1>1, CompatibilityOfScore
<1>3. 100 * m \in Nat /\ 100 * n \in Nat /\ 4 * d \in Nat \ {0} /\ 4 * e \in Nat \ {0}
  OBVIOUS
<1>4. Compatibility(mine, a) \in 0..100
  <2>1. (100 * m) * 1 <= 100 * (4 * d)
    BY <1>1
  <2>2. Round(100 * m, 4 * d) \in Nat /\ Round(100 * m, 4 * d) <= Round(100, 1)
    BY <1>3, <2>1, RoundKeepsOrder
  <2>3. Round(100, 1) = 100
    BY DEF Round
  <2> QED
    BY <1>2, <2>2, <2>3
<1>5. ASSUME ~(m * e > n * d) PROVE Compatibility(mine, a) <= Compatibility(mine, b)
  <2>1. m * e <= n * d
    <3>1. m * e \in Int /\ n * d \in Int
      OBVIOUS
    <3> QED
      BY <1>5, <3>1
  <2>2. (100 * m) * (4 * e) <= (100 * n) * (4 * d)
    <3>1. (100 * m) * (4 * e) = 400 * (m * e) /\ (100 * n) * (4 * d) = 400 * (n * d)
      OBVIOUS
    <3>2. m * e \in Int /\ n * d \in Int
      OBVIOUS
    <3> QED
      BY <2>1, <3>1, <3>2
  <2> QED
    BY <1>2, <1>3, <2>2, RoundKeepsOrder
<1> QED
  BY <1>1, <1>4, <1>5

-----------------------------------------------------------------------------
(* Orders                                                                   *)

\* Never both ways, and what is between two rows is after the first or before the second.
Weak(order, set) ==
  /\ \A p, q \in set : <<p, q>> \in order => <<q, p>> \notin order
  /\ \A p, q, r \in set : <<p, r>> \in order => <<p, q>> \in order \/ <<q, r>> \in order

\* And no two without one.
Total(order, set) ==
  /\ Weak(order, set)
  /\ \A p, q \in set : p # q => <<p, q>> \in order \/ <<q, p>> \in order

\* Those of one place in the order, the greatest number first.
Newest(order, set) == {pair \in set \X set : pair \in order \/ (<<pair[2], pair[1]>> \notin order /\ pair[1] > pair[2])}

LEMMA NewestTotal ==
  ASSUME NEW set \in SUBSET Nat, NEW order, Weak(order, set)
  PROVE  /\ Total(Newest(order, set), set)
         /\ \A p, q \in set : <<p, q>> \in order => <<p, q>> \in Newest(order, set)
<1> DEFINE N == Newest(order, set)
<1>1. \A p, q \in set : <<p, q>> \in N <=> (<<p, q>> \in order \/ (<<q, p>> \notin order /\ p > q))
  BY DEF Newest
<1>2. \A p \in set : p \in Nat
  OBVIOUS
<1> HIDE DEF N
<1>3. ASSUME NEW p \in set, NEW q \in set, <<p, q>> \in N PROVE <<q, p>> \notin N
  BY <1>1, <1>2, <1>3 DEF Weak
<1>4. ASSUME NEW p \in set, NEW q \in set, NEW r \in set, <<p, r>> \in N PROVE <<p, q>> \in N \/ <<q, r>> \in N
  <2>1. CASE <<p, r>> \in order
    BY <1>1, <2>1 DEF Weak
  <2>2. CASE <<p, r>> \notin order
    <3>1. <<r, p>> \notin order /\ p > r
      BY <1>1, <1>4, <2>2
    <3>2. CASE <<p, q>> \in order \/ <<q, r>> \in order
      BY <1>1, <3>2
    <3>3. CASE <<p, q>> \notin order /\ <<q, r>> \notin order
      <4>1. <<q, p>> \notin order
        <5>1. SUFFICES ASSUME <<q, p>> \in order PROVE FALSE
          OBVIOUS
        <5>2. <<q, r>> \in order \/ <<r, p>> \in order
          BY <5>1 DEF Weak
        <5> QED
          BY <3>1, <3>3, <5>2
      <4>2. <<r, q>> \notin order
        <5>1. SUFFICES ASSUME <<r, q>> \in order PROVE FALSE
          OBVIOUS
        <5>2. <<r, p>> \in order \/ <<p, q>> \in order
          BY <5>1 DEF Weak
        <5> QED
          BY <3>1, <3>3, <5>2
      <4>3. p > q \/ q > r
        BY <1>2, <3>1
      <4> QED
        BY <1>1, <4>1, <4>2, <4>3
    <3> QED
      BY <3>2, <3>3
  <2> QED
    BY <2>1, <2>2
<1>5. ASSUME NEW p \in set, NEW q \in set, p # q PROVE <<p, q>> \in N \/ <<q, p>> \in N
  <2>1. p > q \/ q > p
    BY <1>2, <1>5
  <2> QED
    BY <1>1, <2>1
<1> QED
  BY <1>1, <1>3, <1>4, <1>5 DEF Total, Weak, N

\* Those before a row, and how many they are.
Before(rows, order, p) == {q \in rows : <<q, p>> \in order}

LEMMA PlaceType ==
  ASSUME NEW rows, IsFiniteSet(rows), NEW order, NEW p
  PROVE  IsFiniteSet(Before(rows, order, p)) /\ Cardinality(Before(rows, order, p)) \in Nat
<1>1. Before(rows, order, p) \in SUBSET rows
  BY DEF Before
<1> QED
  BY <1>1, FS_Subset, FS_CardinalityType

LEMMA PlaceLater ==
  ASSUME NEW rows, IsFiniteSet(rows), NEW order, Weak(order, rows), NEW p \in rows, NEW q \in rows, <<p, q>> \in order
  PROVE  Cardinality(Before(rows, order, p)) < Cardinality(Before(rows, order, q))
<1>1. p \notin Before(rows, order, p)
  BY DEF Before, Weak
<1>2. Before(rows, order, p) \cup {p} \in SUBSET Before(rows, order, q)
  <2>1. ASSUME NEW r \in rows, <<r, p>> \in order PROVE <<r, q>> \in order
    <3>1. <<q, p>> \notin order
      BY DEF Weak
    <3>2. <<r, q>> \in order \/ <<q, p>> \in order
      BY <2>1 DEF Weak
    <3> QED
      BY <3>1, <3>2
  <2> QED
    BY <2>1 DEF Before
<1>3. /\ IsFiniteSet(Before(rows, order, p)) /\ Cardinality(Before(rows, order, p)) \in Nat
      /\ IsFiniteSet(Before(rows, order, q)) /\ Cardinality(Before(rows, order, q)) \in Nat
  BY PlaceType
<1>4. Cardinality(Before(rows, order, p) \cup {p}) = Cardinality(Before(rows, order, p)) + 1
  BY <1>1, <1>3, FS_AddElement
<1>5. Cardinality(Before(rows, order, p) \cup {p}) <= Cardinality(Before(rows, order, q))
  BY <1>2, <1>3, FS_Subset
<1> QED
  BY <1>3, <1>4, <1>5

\* Every place has one row.
LEMMA Places ==
  ASSUME NEW rows, IsFiniteSet(rows), NEW order, Total(order, rows), NEW i \in 1..Cardinality(rows)
  PROVE  \E p \in rows : Cardinality(Before(rows, order, p)) = i - 1
<1>1. PICK n \in Nat : n = Cardinality(rows)
  BY FS_CardinalityType
<1> DEFINE place == [p \in rows |-> Cardinality(Before(rows, order, p))]
<1>2. ASSUME NEW p \in rows PROVE place[p] \in 0 .. (n - 1)
  <2>1. Before(rows, order, p) \cup {p} \in SUBSET rows /\ p \notin Before(rows, order, p)
    BY DEF Before, Total, Weak
  <2>2. IsFiniteSet(Before(rows, order, p)) /\ Cardinality(Before(rows, order, p)) \in Nat
    BY PlaceType
  <2>3. Cardinality(Before(rows, order, p) \cup {p}) = Cardinality(Before(rows, order, p)) + 1
    BY <2>1, <2>2, FS_AddElement
  <2>4. Cardinality(Before(rows, order, p) \cup {p}) <= n
    BY <1>1, <2>1, FS_Subset
  <2> QED
    BY <2>2, <2>3, <2>4
<1>3. \A p, q \in rows : place[p] = place[q] => p = q
  <2>1. SUFFICES ASSUME NEW p \in rows, NEW q \in rows, place[p] = place[q], p # q PROVE FALSE
    OBVIOUS
  <2>2. <<p, q>> \in order \/ <<q, p>> \in order
    BY <2>1 DEF Total
  <2>3. place[p] < place[q] \/ place[q] < place[p]
    BY <2>2, PlaceLater DEF Total
  <2>4. place[p] \in Nat /\ place[q] \in Nat
    BY PlaceType
  <2> QED
    BY <2>1, <2>3, <2>4
<1>4. place \in Injection(rows, 0 .. (n - 1))
  <2>1. place \in [rows -> 0 .. (n - 1)]
    BY <1>2
  <2> QED
    BY <1>3, <2>1 DEF Injection, IsInjective
<1>5. IsFiniteSet(0 .. (n - 1)) /\ Cardinality(0 .. (n - 1)) = n
  <2>1. IsFiniteSet(0 .. (n - 1)) /\ Cardinality(0 .. (n - 1)) = IF 0 > n - 1 THEN 0 ELSE (n - 1) - 0 + 1
    BY FS_Interval
  <2> QED
    BY <2>1
<1> HIDE DEF place
<1>6. place \in Surjection(rows, 0 .. (n - 1))
  BY <1>1, <1>4, <1>5, FS_Injection
<1>7. i - 1 \in 0 .. (n - 1)
  BY <1>1
<1>8. PICK p \in rows : place[p] = i - 1
  BY <1>6, <1>7 DEF Surjection
<1> QED
  BY <1>8 DEF place

\* OrderBy gives each row once, at its place.
LEMMA Ordering ==
  ASSUME NEW rows, IsFiniteSet(rows), NEW order, Total(order, rows)
  PROVE  /\ Cardinality(rows) \in Nat /\ OrderBy(rows, order) \in [1..Cardinality(rows) -> rows]
         /\ \A i \in 1..Cardinality(rows) : Cardinality(Before(rows, order, OrderBy(rows, order)[i])) = i - 1
<1>1. Cardinality(rows) \in Nat
  BY FS_CardinalityType
<1> DEFINE at(i) == CHOOSE p \in rows : Cardinality(Before(rows, order, p)) = i - 1
<1>2. ASSUME NEW i \in 1..Cardinality(rows) PROVE at(i) \in rows /\ Cardinality(Before(rows, order, at(i))) = i - 1
  <2>1. \E p \in rows : Cardinality(Before(rows, order, p)) = i - 1
    BY Places
  <2> QED
    BY <2>1
<1>3. OrderBy(rows, order) = [i \in 1..Cardinality(rows) |-> at(i)]
  BY DEF OrderBy, Before
<1> HIDE DEF at
<1> QED
  BY <1>1, <1>2, <1>3

\* Two orders that keep a weak one have at each place rows that are alike in it.
LEMMA AlikeBefore ==
  ASSUME NEW rows, IsFiniteSet(rows), NEW one, NEW other, NEW weak, Weak(weak, rows),
         Total(one, rows), Total(other, rows),
         \A p, q \in rows : <<p, q>> \in weak => <<p, q>> \in one /\ <<p, q>> \in other,
         NEW a \in rows, NEW b \in rows, Cardinality(Before(rows, one, a)) = Cardinality(Before(rows, other, b))
  PROVE  <<a, b>> \notin weak
<1> SUFFICES ASSUME <<a, b>> \in weak PROVE FALSE
  OBVIOUS
<1>1. a \notin Before(rows, one, a)
  BY DEF Before, Total, Weak
<1>2. Before(rows, one, a) \cup {a} \in SUBSET Before(rows, other, b)
  <2>1. ASSUME NEW q \in rows, <<q, a>> \in one \/ q = a PROVE <<q, b>> \in other
    <3>1. <<a, q>> \notin weak
      <4>1. <<a, q>> \notin one
        BY <2>1 DEF Total, Weak
      <4> QED
        BY <4>1
    <3>2. <<a, q>> \in weak \/ <<q, b>> \in weak
      BY DEF Weak
    <3> QED
      BY <3>1, <3>2
  <2> QED
    BY <2>1 DEF Before
<1>3. /\ IsFiniteSet(Before(rows, one, a)) /\ Cardinality(Before(rows, one, a)) \in Nat
      /\ IsFiniteSet(Before(rows, other, b)) /\ Cardinality(Before(rows, other, b)) \in Nat
  BY PlaceType
<1>4. Cardinality(Before(rows, one, a) \cup {a}) = Cardinality(Before(rows, one, a)) + 1
  BY <1>1, <1>3, FS_AddElement
<1>5. Cardinality(Before(rows, one, a) \cup {a}) <= Cardinality(Before(rows, other, b))
  BY <1>2, <1>3, FS_Subset
<1> QED
  BY <1>3, <1>4, <1>5

-----------------------------------------------------------------------------
(* LIMIT                                                                    *)

\* n rows of S.
Listed(rows, n, S) == rows \in [1..n -> S]

LEMMA FirstRows ==
  ASSUME NEW S, NEW n \in Nat, NEW rows, Listed(rows, n, S), NEW limit \in Nat
  PROVE  /\ Smaller(limit, n) \in 0..n
         /\ Listed(First(limit, rows), Smaller(limit, n), S)
         /\ \A i \in 1..Smaller(limit, n) : First(limit, rows)[i] = rows[i]
<1>1. Smaller(limit, n) \in 0..n
  BY DEF Smaller
<1>2. PICK m \in 0..n : m = Smaller(limit, n)
  BY <1>1
<1>3. rows \in Seq(S) /\ Len(rows) = n
  BY DEF Listed
<1>4. First(limit, rows) = SubSeq(rows, 1, m)
  BY <1>2, <1>3 DEF First
<1>5. SubSeq(rows, 1, m) \in Seq(S) /\ Len(SubSeq(rows, 1, m)) = m
  BY <1>2, <1>3
<1>6. \A i \in 1..m : SubSeq(rows, 1, m)[i] = rows[i]
  BY <1>2, <1>3
<1>7. SubSeq(rows, 1, m) \in [1..m -> S]
  <2>1. PICK t \in Seq(S) : t = SubSeq(rows, 1, m)
    BY <1>5
  <2>2. Len(t) = m
    BY <1>5, <2>1
  <2>3. t \in [1..m -> S]
    BY <2>2
  <2> QED
    BY <2>1, <2>3
<1> QED
  BY <1>1, <1>2, <1>4, <1>6, <1>7 DEF Listed

-----------------------------------------------------------------------------
(* The two ways to find and to rank                                         *)

\* The preferences, the sports and the distances of a search.
Searched(people, mine, distance) ==
  people \in [People -> Preferences] /\ mine \in Mine /\ distance \in Distances

LEMMA SearchedTypes ==
  ASSUME NEW people, NEW mine, NEW distance, Searched(people, mine, distance), NEW p \in People
  PROVE  /\ Levels(mine) /\ Levels(people[p].deportes) /\ distance[p] \in Nat \cup {NULL}
         /\ NULL \notin Nat /\ p \in Nat
BY SuggestionsAssumption DEF Searched

\* A sport satisfies the query when it satisfies the filters.
LEMMA SportRules ==
  ASSUME NEW mine, NEW theirs, Levels(mine), Levels(theirs), NEW f \in Filters
  PROVE  SportRow(theirs, mine, f) <=>
           \E code \in DOMAIN theirs :
             /\ f.sport = NULL \/ code = f.sport
             /\ theirs[code] \in f.min_level .. f.max_level
             /\ f.shared_sports => code \in DOMAIN mine
             /\ f.level_tolerance # NULL =>
                  code \in DOMAIN mine /\ Abs(theirs[code] - mine[code]) <= f.level_tolerance
<1>1. \A code \in DOMAIN mine : mine[code] \in 1..5 /\ mine[code] # NULL
  BY SuggestionsAssumption DEF Levels
<1>2. \A code \in DOMAIN theirs : theirs[code] \in 1..5
  BY DEF Levels
<1>3. f.min_level \in 1..5 /\ f.max_level \in 1..5 /\ f.shared_sports \in BOOLEAN
  BY SuggestionsAssumption
<1> QED
  BY <1>1, <1>2, <1>3 DEF SportRow

\* The two find the same people.
LEMMA SameCandidates ==
  ASSUME NEW people, NEW mine, NEW distance, Searched(people, mine, distance), NEW f \in Filters
  PROVE  /\ Candidates(people, mine, f, distance) = MockCandidates(people, mine, f, distance)
         /\ Candidates(people, mine, f, distance) \in SUBSET People
         /\ IsFiniteSet(Candidates(people, mine, f, distance))
<1>1. ASSUME NEW p \in People
      PROVE  (/\ ~RestrictSport(f) \/ SportRow(people[p].deportes, mine, f)
              /\ f.radius_km = NULL \/ (distance[p] # NULL /\ distance[p] <= f.radius_km))
               <=> MatchesFilters(people[p].deportes, mine, distance[p], f)
  <2>1. PICK theirs : theirs = people[p].deportes
    OBVIOUS
  <2>2. Levels(mine) /\ Levels(theirs)
    BY <2>1, SearchedTypes
  <2>3. (~RestrictSport(f) \/ SportRow(theirs, mine, f)) <=>
          (RestrictSport(f) =>
             \E code \in DOMAIN theirs :
               /\ f.sport = NULL \/ code = f.sport
               /\ theirs[code] \in f.min_level .. f.max_level
               /\ f.shared_sports => code \in DOMAIN mine
               /\ f.level_tolerance # NULL =>
                    code \in DOMAIN mine /\ Abs(theirs[code] - mine[code]) <= f.level_tolerance)
    BY <2>2, SportRules, Zenon
  <2> QED
    BY <2>1, <2>3, Zenon DEF MatchesFilters
<1>2. Candidates(people, mine, f, distance) = MockCandidates(people, mine, f, distance)
  BY <1>1, Zenon DEF Candidates, MockCandidates
<1>3. Candidates(people, mine, f, distance) \in SUBSET People
  BY DEF Candidates
<1>4. IsFiniteSet(People)
  BY SuggestionsAssumption
<1> QED
  BY <1>2, <1>3, <1>4, FS_Subset

\* By distance, the ones with a sport of a near level first, and by a value.
Ranking(distance, similar, higher) ==
  {pair \in People \X People :
     LET p == pair[1]
         q == pair[2]
     IN \/ Nearer(distance[p], distance[q])
        \/ /\ distance[p] = distance[q]
           /\ (similar[p] /\ ~similar[q]) \/ (similar[p] = similar[q] /\ pair \in higher)}

LEMMA RankingWeak ==
  ASSUME NEW distance, \A p \in People : distance[p] \in Nat \cup {NULL},
         NEW similar \in [People -> BOOLEAN], NEW higher, Weak(higher, People)
  PROVE  Weak(Ranking(distance, similar, higher), People)
<1> DEFINE R == Ranking(distance, similar, higher)
           near(p, q) == Nearer(distance[p], distance[q])
<1>1. \A p, q \in People :
        <<p, q>> \in R <=>
          \/ near(p, q)
          \/ /\ distance[p] = distance[q]
             /\ (similar[p] /\ ~similar[q]) \/ (similar[p] = similar[q] /\ <<p, q>> \in higher)
  BY DEF Ranking
<1>2. /\ \A p, q \in People : near(p, q) => ~near(q, p) /\ distance[p] # distance[q]
      /\ \A p, q, r \in People : near(p, r) => near(p, q) \/ near(q, r)
      /\ \A p, q \in People : ~near(p, q) /\ ~near(q, p) => distance[p] = distance[q]
  BY SuggestionsAssumption DEF Nearer
<1> HIDE DEF R
<1>3. \A p, q, r \in People : distance[p] = distance[q] => (near(p, r) <=> near(q, r)) /\ (near(r, p) <=> near(r, q))
  OBVIOUS
<1> HIDE DEF near
<1>4. ASSUME NEW p \in People, NEW q \in People, <<p, q>> \in R PROVE <<q, p>> \notin R
  BY <1>1, <1>2, <1>4 DEF Weak
<1>5. ASSUME NEW p \in People, NEW q \in People, NEW r \in People, <<p, r>> \in R
      PROVE  <<p, q>> \in R \/ <<q, r>> \in R
  <2>1. CASE near(p, q) \/ near(q, r)
    BY <1>1, <2>1
  <2>2. CASE ~near(p, q) /\ ~near(q, r)
    <3>1. ~near(p, r)
      BY <1>2, <2>2
    <3>2. distance[p] = distance[r]
      BY <1>1, <1>5, <3>1
    <3>3. ~near(r, q) /\ ~near(q, p)
      BY <1>3, <2>2, <3>2
    <3>4. distance[p] = distance[q] /\ distance[q] = distance[r]
      BY <1>2, <2>2, <3>3
    <3>5. (similar[p] /\ ~similar[r]) \/ (similar[p] = similar[r] /\ <<p, r>> \in higher)
      BY <1>1, <1>5, <3>1
    <3>6. <<p, r>> \in higher => <<p, q>> \in higher \/ <<q, r>> \in higher
      BY DEF Weak
    <3>7. \/ (similar[p] /\ ~similar[q]) \/ (similar[p] = similar[q] /\ <<p, q>> \in higher)
          \/ (similar[q] /\ ~similar[r]) \/ (similar[q] = similar[r] /\ <<q, r>> \in higher)
      BY <3>5, <3>6
    <3> QED
      BY <1>1, <3>4, <3>7
  <2> QED
    BY <2>1, <2>2
<1> QED
  BY <1>4, <1>5 DEF Weak, R

\* What both rank by, and the value each of them ranks by after it.
Similar(people, mine) == [p \in People |-> SimilarLevel(mine, people[p].deportes)]

HigherScore(people, mine) ==
  {pair \in People \X People :
     LET s == Score(mine, people[pair[1]].deportes)
         t == Score(mine, people[pair[2]].deportes)
     IN s.sum * t.by > t.sum * s.by}

HigherCompatibility(people, mine) ==
  {pair \in People \X People :
     Compatibility(mine, people[pair[1]].deportes) > Compatibility(mine, people[pair[2]].deportes)}

LEMMA CompatibilityWeak ==
  ASSUME NEW people, NEW mine, NEW distance, Searched(people, mine, distance)
  PROVE  /\ Weak(HigherCompatibility(people, mine), People)
         /\ \A p, q \in People : /\ Compatibility(mine, people[p].deportes) \in 0..100
                                 /\ <<p, q>> \in HigherCompatibility(people, mine) <=>
                                      Compatibility(mine, people[p].deportes) > Compatibility(mine, people[q].deportes)
<1> DEFINE c(p) == Compatibility(mine, people[p].deportes)
           H == HigherCompatibility(people, mine)
<1>1. ASSUME NEW p \in People PROVE c(p) \in 0..100
  <2>1. Levels(mine) /\ Levels(people[p].deportes)
    BY SearchedTypes
  <2> QED
    BY <2>1, ScoreRules
<1>2. \A p, q \in People : <<p, q>> \in H <=> c(p) > c(q)
  BY DEF HigherCompatibility
<1> HIDE DEF c, H
<1>3. ASSUME NEW p \in People, NEW q \in People, NEW r \in People
      PROVE  /\ <<p, q>> \in H => <<q, p>> \notin H
             /\ <<p, r>> \in H => <<p, q>> \in H \/ <<q, r>> \in H
  <2>1. c(p) \in Int /\ c(q) \in Int /\ c(r) \in Int
    BY <1>1
  <2>2. (c(p) > c(q) => ~(c(q) > c(p))) /\ (c(p) > c(r) => c(p) > c(q) \/ c(q) > c(r))
    BY <2>1
  <2> QED
    BY <1>2, <2>2, Zenon
<1>4. Weak(H, People)
  BY <1>3 DEF Weak
<1> QED
  BY <1>1, <1>2, <1>4 DEF c, H

\* Of a higher score, and never of a higher compatibility without it.
LEMMA ScoreWeak ==
  ASSUME NEW people, NEW mine, NEW distance, Searched(people, mine, distance)
  PROVE  /\ Weak(HigherScore(people, mine), People)
         /\ \A p, q \in People :
              <<p, q>> \in HigherCompatibility(people, mine) => <<p, q>> \in HigherScore(people, mine)
<1> DEFINE sum(p) == Score(mine, people[p].deportes).sum
           by(p) == Score(mine, people[p].deportes).by
           H == HigherScore(people, mine)
<1>1. \A p \in People : sum(p) \in Nat /\ by(p) \in Nat \ {0}
  BY SearchedTypes, ScoreType
<1>2. \A p, q \in People : <<p, q>> \in H <=> sum(p) * by(q) > sum(q) * by(p)
  BY DEF HigherScore
<1>3. \A p, q \in People : ~(sum(p) * by(q) > sum(q) * by(p)) =>
                             Compatibility(mine, people[p].deportes) <= Compatibility(mine, people[q].deportes)
  BY SearchedTypes, ScoreRules, Zenon
<1>4. ASSUME NEW p \in People, NEW q \in People, <<p, q>> \in HigherCompatibility(people, mine) PROVE <<p, q>> \in H
  <2>1. /\ Compatibility(mine, people[p].deportes) > Compatibility(mine, people[q].deportes)
        /\ Compatibility(mine, people[p].deportes) \in 0..100 /\ Compatibility(mine, people[q].deportes) \in 0..100
    BY <1>4, CompatibilityWeak
  <2>2. ~(Compatibility(mine, people[p].deportes) <= Compatibility(mine, people[q].deportes))
    BY <2>1
  <2> QED
    BY <1>2, <1>3, <2>2
<1> HIDE DEF sum, by, H
<1>5. ASSUME NEW p \in People, NEW q \in People PROVE sum(p) * by(q) \in Int
  BY <1>1
<1>6. ASSUME NEW p \in People, NEW q \in People, <<p, q>> \in H PROVE <<q, p>> \notin H
  BY <1>2, <1>5, <1>6
<1>7. ASSUME NEW p \in People, NEW q \in People, NEW r \in People, <<p, r>> \in H
      PROVE  <<p, q>> \in H \/ <<q, r>> \in H
  <2>1. SUFFICES ASSUME <<p, q>> \notin H, <<q, r>> \notin H PROVE FALSE
    OBVIOUS
  <2>2. sum(p) * by(q) <= sum(q) * by(p) /\ sum(q) * by(r) <= sum(r) * by(q)
    BY <1>2, <1>5, <2>1
  <2>3. sum(p) * by(r) <= sum(r) * by(p)
    BY <1>1, <2>2, Cross
  <2> QED
    BY <1>2, <1>5, <1>7, <2>3
<1>8. Weak(H, People)
  BY <1>6, <1>7 DEF Weak
<1> QED
  BY <1>4, <1>8 DEF H

\* What both ways to rank keep: by distance, similar level and compatibility.
ByCard(people, mine, distance) == Ranking(distance, Similar(people, mine), HigherCompatibility(people, mine))

LEMMA RankingPairs ==
  ASSUME NEW distance, NEW similar, NEW higher, NEW p \in People, NEW q \in People
  PROVE  <<p, q>> \in Ranking(distance, similar, higher) <=>
          \/ Nearer(distance[p], distance[q])
          \/ /\ distance[p] = distance[q]
             /\ (similar[p] /\ ~similar[q]) \/ (similar[p] = similar[q] /\ <<p, q>> \in higher)
BY DEF Ranking

LEMMA SimilarType ==
  ASSUME NEW people, NEW mine
  PROVE  Similar(people, mine) \in [People -> BOOLEAN]
BY DEF Similar, SimilarLevel

LEMMA NearerOrNot ==
  ASSUME NEW d \in Nat \cup {NULL}, NEW e \in Nat \cup {NULL}
  PROVE  /\ Nearer(d, e) => d # e
         /\ d # e => Nearer(d, e) \/ Nearer(e, d)
BY SuggestionsAssumption DEF Nearer

\* Each order puts first, among those its ranking leaves together, the newest.
LEMMA RowOrderNewest ==
  ASSUME NEW people, NEW mine, NEW distance, Searched(people, mine, distance), NEW p \in People, NEW q \in People
  PROVE  <<p, q>> \in RowOrder(people, mine, distance) <=>
           <<p, q>> \in Newest(Ranking(distance, Similar(people, mine), HigherScore(people, mine)), People)
<1> DEFINE higher(x, y) == Score(mine, people[x].deportes).sum * Score(mine, people[y].deportes).by
                             > Score(mine, people[y].deportes).sum * Score(mine, people[x].deportes).by
           similar(x) == SimilarLevel(mine, people[x].deportes)
<1>1. <<p, q>> \in RowOrder(people, mine, distance) <=>
        \/ Nearer(distance[p], distance[q])
        \/ /\ distance[p] = distance[q]
           /\ \/ similar(p) /\ ~similar(q)
              \/ /\ similar(p) = similar(q)
                 /\ higher(p, q) \/ (~higher(q, p) /\ p > q)
  BY Zenon DEF RowOrder
<1>2. /\ Similar(people, mine)[p] = similar(p) /\ Similar(people, mine)[q] = similar(q)
      /\ similar(p) \in BOOLEAN /\ similar(q) \in BOOLEAN
  BY DEF Similar, SimilarLevel
<1>3. /\ <<p, q>> \in HigherScore(people, mine) <=> higher(p, q)
      /\ <<q, p>> \in HigherScore(people, mine) <=> higher(q, p)
  BY Zenon DEF HigherScore
<1>4. /\ Nearer(distance[p], distance[q]) => distance[p] # distance[q]
      /\ Nearer(distance[q], distance[p]) => distance[p] # distance[q]
      /\ distance[p] # distance[q] => Nearer(distance[p], distance[q]) \/ Nearer(distance[q], distance[p])
      /\ ~(Nearer(distance[p], distance[q]) /\ Nearer(distance[q], distance[p]))
  BY SearchedTypes, SuggestionsAssumption DEF Nearer
<1>5. <<p, q>> \in Newest(Ranking(distance, Similar(people, mine), HigherScore(people, mine)), People) <=>
        \/ <<p, q>> \in Ranking(distance, Similar(people, mine), HigherScore(people, mine))
        \/ <<q, p>> \notin Ranking(distance, Similar(people, mine), HigherScore(people, mine)) /\ p > q
  BY DEF Newest
<1>6. ASSUME higher(p, q) PROVE ~higher(q, p)
  <2>1. /\ Score(mine, people[p].deportes).sum \in Nat /\ Score(mine, people[q].deportes).by \in Nat \ {0}
        /\ Score(mine, people[q].deportes).sum \in Nat /\ Score(mine, people[p].deportes).by \in Nat \ {0}
    BY SearchedTypes, ScoreType
  <2>2. PICK a \in Int, b \in Int : /\ a = Score(mine, people[p].deportes).sum * Score(mine, people[q].deportes).by
                                    /\ b = Score(mine, people[q].deportes).sum * Score(mine, people[p].deportes).by
    BY <2>1
  <2> QED
    BY <1>6, <2>2
<1> DEFINE ranking == Ranking(distance, Similar(people, mine), HigherScore(people, mine))
<1>7. /\ <<p, q>> \in ranking <=>
           \/ Nearer(distance[p], distance[q])
           \/ /\ distance[p] = distance[q]
              /\ (similar(p) /\ ~similar(q)) \/ (similar(p) = similar(q) /\ higher(p, q))
      /\ <<q, p>> \in ranking <=>
           \/ Nearer(distance[q], distance[p])
           \/ /\ distance[q] = distance[p]
              /\ (similar(q) /\ ~similar(p)) \/ (similar(q) = similar(p) /\ higher(q, p))
  BY <1>2, <1>3 DEF Ranking
<1> HIDE DEF higher, similar, ranking
<1>8. <<p, q>> \in RowOrder(people, mine, distance) <=> <<p, q>> \in ranking \/ (<<q, p>> \notin ranking /\ p > q)
  <2>1. CASE distance[p] # distance[q]
    BY <1>1, <1>4, <1>7, <2>1
  <2>2. CASE distance[p] = distance[q] /\ similar(p) # similar(q)
    BY <1>1, <1>2, <1>4, <1>7, <2>2
  <2>3. CASE distance[p] = distance[q] /\ similar(p) = similar(q)
    BY <1>1, <1>2, <1>4, <1>6, <1>7, <2>3
  <2> QED
    BY <2>1, <2>2, <2>3
<1> QED
  BY <1>5, <1>8 DEF ranking

LEMMA MockOrderNewest ==
  ASSUME NEW people, NEW mine, NEW distance, Searched(people, mine, distance), NEW p \in People, NEW q \in People
  PROVE  <<p, q>> \in MockOrder(people, mine, distance) <=> <<p, q>> \in Newest(ByCard(people, mine, distance), People)
<1> DEFINE c(x) == Compatibility(mine, people[x].deportes)
           similar(x) == SimilarLevel(mine, people[x].deportes)
<1>1. <<p, q>> \in MockOrder(people, mine, distance) <=>
        \/ Nearer(distance[p], distance[q])
        \/ /\ distance[p] = distance[q]
           /\ \/ similar(p) /\ ~similar(q)
              \/ /\ similar(p) = similar(q)
                 /\ c(p) > c(q) \/ (c(p) = c(q) /\ p > q)
  BY DEF MockOrder, Card
<1>2. /\ Similar(people, mine)[p] = similar(p) /\ Similar(people, mine)[q] = similar(q)
      /\ similar(p) \in BOOLEAN /\ similar(q) \in BOOLEAN
  BY DEF Similar, SimilarLevel
<1>3. /\ <<p, q>> \in HigherCompatibility(people, mine) <=> c(p) > c(q)
      /\ <<q, p>> \in HigherCompatibility(people, mine) <=> c(q) > c(p)
      /\ c(p) \in 0..100 /\ c(q) \in 0..100
  BY CompatibilityWeak
<1>4. /\ Nearer(distance[p], distance[q]) => distance[p] # distance[q]
      /\ Nearer(distance[q], distance[p]) => distance[p] # distance[q]
      /\ distance[p] # distance[q] => Nearer(distance[p], distance[q]) \/ Nearer(distance[q], distance[p])
      /\ ~(Nearer(distance[p], distance[q]) /\ Nearer(distance[q], distance[p]))
  BY SearchedTypes, SuggestionsAssumption DEF Nearer
<1>5. <<p, q>> \in Newest(ByCard(people, mine, distance), People) <=>
        \/ <<p, q>> \in ByCard(people, mine, distance)
        \/ <<q, p>> \notin ByCard(people, mine, distance) /\ p > q
  BY DEF Newest
<1> DEFINE ranking == ByCard(people, mine, distance)
<1>6. /\ <<p, q>> \in ranking <=>
           \/ Nearer(distance[p], distance[q])
           \/ /\ distance[p] = distance[q]
              /\ (similar(p) /\ ~similar(q)) \/ (similar(p) = similar(q) /\ c(p) > c(q))
      /\ <<q, p>> \in ranking <=>
           \/ Nearer(distance[q], distance[p])
           \/ /\ distance[q] = distance[p]
              /\ (similar(q) /\ ~similar(p)) \/ (similar(q) = similar(p) /\ c(q) > c(p))
  BY <1>2, <1>3 DEF ByCard, Ranking
<1> HIDE DEF c, similar, ranking
<1>7. <<p, q>> \in MockOrder(people, mine, distance) <=> <<p, q>> \in ranking \/ (<<q, p>> \notin ranking /\ p > q)
  <2>1. CASE distance[p] # distance[q]
    BY <1>1, <1>4, <1>6, <2>1
  <2>2. CASE distance[p] = distance[q] /\ similar(p) # similar(q)
    BY <1>1, <1>2, <1>4, <1>6, <2>2
  <2>3. CASE distance[p] = distance[q] /\ similar(p) = similar(q)
    BY <1>1, <1>2, <1>3, <1>4, <1>6, <2>3
  <2> QED
    BY <2>1, <2>2, <2>3
<1> QED
  BY <1>5, <1>7 DEF ranking

\* What the pairs decide does not depend on how the order is written.
LEMMA SamePairs ==
  ASSUME NEW one, NEW other, NEW set, NEW rows \in SUBSET set, Total(other, set),
         \A p, q \in set : <<p, q>> \in one <=> <<p, q>> \in other
  PROVE  Total(one, rows)
BY DEF Total, Weak

LEMMA BothOrders ==
  ASSUME NEW people, NEW mine, NEW distance, Searched(people, mine, distance), NEW rows \in SUBSET People
  PROVE  /\ Total(RowOrder(people, mine, distance), rows) /\ Total(MockOrder(people, mine, distance), rows)
         /\ Weak(ByCard(people, mine, distance), rows)
         /\ \A p, q \in rows : <<p, q>> \in ByCard(people, mine, distance) =>
              <<p, q>> \in RowOrder(people, mine, distance) /\ <<p, q>> \in MockOrder(people, mine, distance)
<1> DEFINE byScore == Ranking(distance, Similar(people, mine), HigherScore(people, mine))
           byCard == ByCard(people, mine, distance)
<1>1. \A p \in People : distance[p] \in Nat \cup {NULL}
  BY SearchedTypes
<1>2. Similar(people, mine) \in [People -> BOOLEAN]
  BY SimilarType
<1>3. Weak(byScore, People)
  BY <1>1, <1>2, ScoreWeak, RankingWeak
<1>4. Weak(byCard, People)
  BY <1>1, <1>2, CompatibilityWeak, RankingWeak DEF ByCard
<1>5. ASSUME NEW p \in People, NEW q \in People, <<p, q>> \in byCard PROVE <<p, q>> \in byScore
  <2>1. <<p, q>> \in HigherCompatibility(people, mine) => <<p, q>> \in HigherScore(people, mine)
    BY ScoreWeak
  <2> QED
    BY <1>5, <2>1 DEF ByCard, Ranking
<1>6. People \in SUBSET Nat
  BY SuggestionsAssumption
<1> HIDE DEF byScore, byCard
<1>7. /\ Total(Newest(byScore, People), People)
      /\ \A p, q \in People : <<p, q>> \in byScore => <<p, q>> \in Newest(byScore, People)
  BY <1>3, <1>6, NewestTotal
<1>8. /\ Total(Newest(byCard, People), People)
      /\ \A p, q \in People : <<p, q>> \in byCard => <<p, q>> \in Newest(byCard, People)
  BY <1>4, <1>6, NewestTotal
<1>9. /\ \A p, q \in People : <<p, q>> \in RowOrder(people, mine, distance) <=> <<p, q>> \in Newest(byScore, People)
      /\ \A p, q \in People : <<p, q>> \in MockOrder(people, mine, distance) <=> <<p, q>> \in Newest(byCard, People)
  BY RowOrderNewest, MockOrderNewest DEF byScore, byCard
<1>10. Total(RowOrder(people, mine, distance), rows) /\ Total(MockOrder(people, mine, distance), rows)
  BY <1>7, <1>8, <1>9, SamePairs
<1>11. Weak(byCard, rows)
  BY <1>4 DEF Weak
<1> QED
  BY <1>5, <1>7, <1>8, <1>9, <1>10, <1>11 DEF byCard

\* Rows that neither order may part show the same.
LEMMA AlikeCards ==
  ASSUME NEW people, NEW mine, NEW distance, Searched(people, mine, distance), NEW p \in People, NEW q \in People,
         <<p, q>> \notin ByCard(people, mine, distance), <<q, p>> \notin ByCard(people, mine, distance)
  PROVE  Key(Card(p, mine, distance, people[p].deportes)) = Key(Card(q, mine, distance, people[q].deportes))
<1>1. /\ ~Nearer(distance[p], distance[q]) /\ ~Nearer(distance[q], distance[p])
      /\ distance[p] \in Nat \cup {NULL} /\ distance[q] \in Nat \cup {NULL}
  BY SearchedTypes, RankingPairs DEF ByCard
<1>2. distance[p] = distance[q]
  BY <1>1, NearerOrNot
<1>3. /\ Similar(people, mine)[p] \in BOOLEAN /\ Similar(people, mine)[q] \in BOOLEAN
      /\ Similar(people, mine)[p] = SimilarLevel(mine, people[p].deportes)
      /\ Similar(people, mine)[q] = SimilarLevel(mine, people[q].deportes)
  BY SimilarType DEF Similar
<1>4. /\ Similar(people, mine)[p] = Similar(people, mine)[q]
      /\ <<p, q>> \notin HigherCompatibility(people, mine) /\ <<q, p>> \notin HigherCompatibility(people, mine)
  BY <1>2, <1>3, RankingPairs DEF ByCard
<1>5. Compatibility(mine, people[p].deportes) = Compatibility(mine, people[q].deportes)
  <2>1. \A c, d \in 0..100 : ~(c > d) /\ ~(d > c) => c = d
    OBVIOUS
  <2>2. /\ Compatibility(mine, people[p].deportes) \in 0..100
        /\ Compatibility(mine, people[q].deportes) \in 0..100
        /\ ~(Compatibility(mine, people[p].deportes) > Compatibility(mine, people[q].deportes))
        /\ ~(Compatibility(mine, people[q].deportes) > Compatibility(mine, people[p].deportes))
    BY <1>4, CompatibilityWeak
  <2> QED
    BY <2>1, <2>2, Zenon
<1> QED
  BY <1>2, <1>3, <1>4, <1>5 DEF Key, Card

\* What the query answers, of the preferences it sees.
Rows(people, mine, f, limit, distance) ==
  First(limit, OrderBy(Candidates(people, mine, f, distance), RowOrder(people, mine, distance)))

\* Both answer with as many rows, and with rows that show the same at each place.
LEMMA SameAnswer ==
  ASSUME NEW people, NEW mine, NEW distance, Searched(people, mine, distance), NEW f \in Filters, NEW limit \in Limits,
         NEW rows, rows = Rows(people, mine, f, limit, distance),
         NEW expected, expected = MockRows(people, mine, f, limit, distance)
  PROVE  /\ rows \in Seq(People) /\ DOMAIN rows = DOMAIN expected
         /\ \A i, j \in DOMAIN rows : rows[i] = rows[j] => i = j
         /\ \A i \in DOMAIN rows :
              /\ rows[i] \in People
              /\ Key(Card(rows[i], mine, distance, people[rows[i]].deportes))
                   = Key(Card(expected[i], mine, distance, people[expected[i]].deportes))
<1>1. PICK found \in SUBSET People :
        /\ found = Candidates(people, mine, f, distance) /\ found = MockCandidates(people, mine, f, distance)
        /\ IsFiniteSet(found)
  BY SameCandidates
<1>2. PICK one, other, weak : /\ one = RowOrder(people, mine, distance) /\ other = MockOrder(people, mine, distance)
                              /\ weak = ByCard(people, mine, distance)
  OBVIOUS
<1>3. /\ Total(one, found) /\ Total(other, found) /\ Weak(weak, found)
      /\ \A p, q \in found : <<p, q>> \in weak => <<p, q>> \in one /\ <<p, q>> \in other
  BY <1>2, BothOrders
<1>4. PICK n \in Nat : n = Cardinality(found)
  BY <1>1, FS_CardinalityType
<1>5. PICK a, b : a = OrderBy(found, one) /\ b = OrderBy(found, other)
  OBVIOUS
<1>6. /\ a \in [1..n -> found] /\ \A i \in 1..n : Cardinality(Before(found, one, a[i])) = i - 1
      /\ b \in [1..n -> found] /\ \A i \in 1..n : Cardinality(Before(found, other, b[i])) = i - 1
  BY <1>1, <1>3, <1>4, <1>5, Ordering
<1>7. limit \in Nat
  BY SuggestionsAssumption
<1>8. PICK m \in 0..n : m = Smaller(limit, n)
  BY <1>7 DEF Smaller
<1>9. rows = First(limit, a) /\ expected = First(limit, b)
  BY <1>1, <1>2, <1>5 DEF Rows, MockRows
<1>10. /\ Listed(rows, m, found) /\ \A i \in 1..m : rows[i] = a[i]
       /\ Listed(expected, m, found) /\ \A i \in 1..m : expected[i] = b[i]
  <2>1. ASSUME NEW c, Listed(c, n, found)
        PROVE  Listed(First(limit, c), m, found) /\ \A i \in 1..m : First(limit, c)[i] = c[i]
    BY <1>7, <1>8, <2>1, FirstRows
  <2>2. Listed(a, n, found) /\ Listed(b, n, found)
    BY <1>6 DEF Listed
  <2> QED
    BY <1>9, <2>1, <2>2
<1>11. rows \in Seq(People) /\ DOMAIN rows = 1..m /\ DOMAIN expected = 1..m
  <2>1. DOMAIN rows = 1..m /\ DOMAIN expected = 1..m
    BY <1>10 DEF Listed
  <2>2. rows \in [1..m -> People]
    BY <1>1, <1>10 DEF Listed
  <2>3. rows \in Seq(People)
    BY <2>2
  <2> QED
    BY <2>1, <2>3
<1>12. ASSUME NEW i \in 1..m, NEW j \in 1..m, rows[i] = rows[j] PROVE i = j
  <2>1. i \in 1..n /\ j \in 1..n
    BY <1>8
  <2>2. a[i] = a[j]
    BY <1>10, <1>12
  <2>3. i - 1 = j - 1
    BY <1>6, <2>1, <2>2
  <2> QED
    BY <2>3
<1>13. ASSUME NEW i \in 1..m
       PROVE  /\ rows[i] \in People
              /\ Key(Card(rows[i], mine, distance, people[rows[i]].deportes))
                   = Key(Card(expected[i], mine, distance, people[expected[i]].deportes))
  <2>1. PICK p \in found, q \in found : p = rows[i] /\ q = expected[i]
    BY <1>10 DEF Listed
  <2>2. Cardinality(Before(found, one, p)) = Cardinality(Before(found, other, q))
    <3>1. i \in 1..n
      BY <1>8
    <3> QED
      BY <1>6, <1>10, <2>1, <3>1
  <2>3. <<p, q>> \notin weak /\ <<q, p>> \notin weak
    BY <1>1, <1>3, <2>2, AlikeBefore
  <2>4. p \in People /\ q \in People
    BY <1>1
  <2> QED
    BY <1>2, <2>1, <2>3, <2>4, AlikeCards
<1> QED
  BY <1>11, <1>12, <1>13

-----------------------------------------------------------------------------
(* The invariant of the search                                              *)

CardOf == [person : People, distance : Nat \cup {NULL}, similar : BOOLEAN, compatibilidad : 0..100]

SearchState ==
  [phase : {"idle", "asked", "ranked", "done"}, mine : Mine \cup {NULL}, filters : Filters \cup {NULL},
   limit : Limits \cup {NULL}, distance : Distances \cup {NULL}, rows : Seq(People), cards : Seq(CardOf),
   ranked : [People -> Preferences] \cup {NULL}]

SearchTypes ==
  /\ preferences \in [People -> Preferences] /\ puts \in 0..MaxPuts
  /\ search \in SearchState

\* A search that began has what was asked.
HasQuestion ==
  search.phase # "idle" =>
    search.mine \in Mine /\ search.filters \in Filters /\ search.limit \in Limits /\ search.distance \in Distances

\* A search that ranked has the rows of the preferences it saw.
HasRows ==
  search.phase \in {"ranked", "done"} =>
    /\ search.ranked \in [People -> Preferences]
    /\ search.rows = Rows(search.ranked, search.mine, search.filters, search.limit, search.distance)

\* A search that is answered has the cards of its rows, of the preferences there are: nobody changes them after it.
HasCards ==
  search.phase = "done" =>
    search.cards = [i \in DOMAIN search.rows |->
                      Card(search.rows[i], search.mine, search.distance, preferences[search.rows[i]].deportes)]

SuggestionsInv == SearchTypes /\ HasQuestion /\ HasRows /\ HasCards

LEMMA SuggestionsInitInv == SuggestionsInit => SuggestionsInv
<1> SUFFICES ASSUME SuggestionsInit PROVE SuggestionsInv
  OBVIOUS
<1>1. SearchTypes
  BY SuggestionsAssumption DEF SuggestionsInit, SearchTypes, SearchState, NoSearch
<1>2. search.phase = "idle"
  BY DEF SuggestionsInit, NoSearch
<1> QED
  BY <1>1, <1>2 DEF SuggestionsInv, HasQuestion, HasRows, HasCards

LEMMA AskInv ==
  ASSUME SuggestionsInv, NEW mine \in Mine, NEW f \in Filters, NEW limit \in Limits, NEW distance \in Distances,
         Ask(mine, f, limit, distance)
  PROVE  SuggestionsInv'
<1>1. search' = [phase |-> "asked", mine |-> mine, filters |-> f, limit |-> limit, distance |-> distance,
                 rows |-> <<>>, cards |-> <<>>, ranked |-> NULL]
  BY DEF Ask, NoSearch
<1>2. SearchTypes'
  <2>1. search' \in SearchState
    BY <1>1 DEF SearchState
  <2> QED
    BY <2>1 DEF Ask, SuggestionsInv, SearchTypes
<1> QED
  BY <1>1, <1>2 DEF SuggestionsInv, HasQuestion, HasRows, HasCards

LEMMA RankInv ==
  ASSUME SuggestionsInv, Rank
  PROVE  SuggestionsInv'
<1>1. PICK mine \in Mine, f \in Filters, limit \in Limits, distance \in Distances :
        mine = search.mine /\ f = search.filters /\ limit = search.limit /\ distance = search.distance
  BY DEF SuggestionsInv, HasQuestion, Rank
<1>2. PICK rows : rows = Rows(preferences, mine, f, limit, distance)
  OBVIOUS
<1>3. preferences \in [People -> Preferences] /\ search \in SearchState
  BY DEF SuggestionsInv, SearchTypes
<1>4. rows \in Seq(People)
  <2>1. Searched(preferences, mine, distance)
    BY <1>3 DEF Searched
  <2> QED
    BY <1>2, <2>1, SameAnswer
<1>5. search' = [search EXCEPT !.phase = "ranked", !.ranked = preferences, !.rows = rows]
  BY <1>1, <1>2, Zenon DEF Rank, Rows
<1>6. /\ search' \in SearchState /\ search'.phase = "ranked" /\ search'.ranked = preferences /\ search'.rows = rows
      /\ search'.mine = mine /\ search'.filters = f /\ search'.limit = limit /\ search'.distance = distance
  BY <1>1, <1>3, <1>4, <1>5 DEF SearchState
<1>7. preferences' = preferences /\ puts' = puts
  BY DEF Rank
<1>8. SearchTypes'
  BY <1>6, <1>7 DEF SuggestionsInv, SearchTypes
<1>9. HasQuestion' /\ HasCards'
  BY <1>6 DEF HasQuestion, HasCards
<1>10. HasRows'
  BY <1>2, <1>3, <1>6 DEF HasRows
<1> QED
  BY <1>8, <1>9, <1>10 DEF SuggestionsInv

LEMMA CardType ==
  ASSUME NEW people, NEW mine, NEW distance, Searched(people, mine, distance), NEW p \in People
  PROVE  Card(p, mine, distance, people[p].deportes) \in CardOf
<1>1. Compatibility(mine, people[p].deportes) \in 0..100
  BY CompatibilityWeak
<1>2. distance[p] \in Nat \cup {NULL} /\ SimilarLevel(mine, people[p].deportes) \in BOOLEAN
  BY SearchedTypes DEF SimilarLevel
<1> QED
  BY <1>1, <1>2 DEF Card, CardOf

LEMMA CardsInv ==
  ASSUME SuggestionsInv, Cards
  PROVE  SuggestionsInv'
<1>1. PICK mine \in Mine, f \in Filters, limit \in Limits, distance \in Distances :
        mine = search.mine /\ f = search.filters /\ limit = search.limit /\ distance = search.distance
  BY DEF SuggestionsInv, HasQuestion, Cards
<1>2. preferences \in [People -> Preferences] /\ search \in SearchState
  BY DEF SuggestionsInv, SearchTypes
<1>3. PICK rows \in Seq(People) : rows = search.rows
  BY <1>2 DEF SearchState
<1>4. PICK cards : cards = [i \in DOMAIN rows |-> Card(rows[i], mine, distance, preferences[rows[i]].deportes)]
  OBVIOUS
<1>5. cards \in Seq(CardOf)
  <2>1. Searched(preferences, mine, distance)
    BY <1>2 DEF Searched
  <2>2. \A i \in DOMAIN rows : rows[i] \in People
    BY <1>3
  <2>3. \A i \in DOMAIN rows : Card(rows[i], mine, distance, preferences[rows[i]].deportes) \in CardOf
    BY <2>1, <2>2, CardType
  <2>4. DOMAIN rows = 1..Len(rows) /\ Len(rows) \in Nat
    BY <1>3
  <2>5. cards \in [1..Len(rows) -> CardOf]
    BY <1>4, <2>3, <2>4
  <2> QED
    BY <2>4, <2>5
<1>6. search' = [search EXCEPT !.phase = "done", !.cards = cards]
  BY <1>1, <1>3, <1>4, Zenon DEF Cards
<1>7. /\ search' \in SearchState /\ search'.phase = "done" /\ search'.cards = cards
      /\ search'.ranked = search.ranked /\ search'.rows = rows
      /\ search'.mine = mine /\ search'.filters = f /\ search'.limit = limit /\ search'.distance = distance
  BY <1>1, <1>2, <1>3, <1>5, <1>6 DEF SearchState
<1>8. preferences' = preferences /\ puts' = puts /\ search.phase = "ranked"
  BY DEF Cards
<1>9. SearchTypes'
  BY <1>7, <1>8 DEF SuggestionsInv, SearchTypes
<1>10. HasQuestion' /\ HasRows'
  BY <1>1, <1>3, <1>7, <1>8 DEF SuggestionsInv, HasQuestion, HasRows
<1>11. HasCards'
  BY <1>4, <1>7, <1>8 DEF HasCards
<1> QED
  BY <1>9, <1>10, <1>11 DEF SuggestionsInv

LEMMA PutInv ==
  ASSUME SuggestionsInv, NEW p \in People, NEW new \in Preferences, PutPreferences(p, new)
  PROVE  SuggestionsInv'
<1>1. search' = search /\ search.phase = "ranked"
  BY DEF PutPreferences
<1>2. SearchTypes'
  BY <1>1, SuggestionsAssumption DEF PutPreferences, SuggestionsInv, SearchTypes
<1> QED
  BY <1>1, <1>2 DEF SuggestionsInv, HasQuestion, HasRows, HasCards

LEMMA SuggestionsNextInv == SuggestionsInv /\ [SuggestionsNext]_suggestionVars => SuggestionsInv'
<1> SUFFICES ASSUME SuggestionsInv, [SuggestionsNext]_suggestionVars PROVE SuggestionsInv'
  OBVIOUS
<1>1. CASE UNCHANGED suggestionVars
  BY <1>1 DEF suggestionVars, SuggestionsInv, SearchTypes, HasQuestion, HasRows, HasCards
<1>2. ASSUME NEW mine \in Mine, NEW f \in Filters, NEW limit \in Limits, NEW distance \in Distances,
             Ask(mine, f, limit, distance)
      PROVE  SuggestionsInv'
  BY <1>2, AskInv
<1>3. CASE Rank
  BY <1>3, RankInv
<1>4. CASE Cards
  BY <1>4, CardsInv
<1>5. ASSUME NEW p \in People, NEW new \in Preferences, PutPreferences(p, new) PROVE SuggestionsInv'
  BY <1>5, PutInv
<1> QED
  BY <1>1, <1>2, <1>3, <1>4, <1>5 DEF SuggestionsNext

LEMMA SuggestionsInvariance == SuggestionsSpec => []SuggestionsInv
BY SuggestionsInitInv, SuggestionsNextInv, PTL DEF SuggestionsSpec

-----------------------------------------------------------------------------
(* Theorems about the search                                                *)

\* Whatever is looked for and however people change their preferences, what a search finds has its types, and no card
\* shows a compatibility below 0 or above 100.
THEOREM SuggestionTypes == SuggestionsSpec => []SuggestionsTypeOK
<1>1. SuggestionsInv => SuggestionsTypeOK
  <2> SUFFICES ASSUME SuggestionsInv PROVE SuggestionsTypeOK
    OBVIOUS
  <2>1. search \in SearchState
    BY DEF SuggestionsInv, SearchTypes
  <2>2. \A i \in DOMAIN search.cards :
          search.cards[i].person \in People /\ search.cards[i].compatibilidad \in 0..100
    <3>1. PICK cards \in Seq(CardOf) : cards = search.cards
      BY <2>1 DEF SearchState
    <3>2. \A i \in DOMAIN cards : cards[i] \in CardOf
      BY <3>1
    <3> QED
      BY <3>1, <3>2 DEF CardOf
  <2> QED
    BY <2>1, <2>2 DEF SuggestionsInv, SearchTypes, SearchState, SuggestionsTypeOK
<1> QED
  BY <1>1, SuggestionsInvariance, PTL

\* The query in SQL and the rules in Python answer the same, for any people, sports, filters, places and limits: as
\* many cards, nobody twice, with the same distance, level and compatibility at each place.
THEOREM Answers == SuggestionsSpec => []AnswerFollowsRules
<1>1. SuggestionsInv => AnswerFollowsRules
  <2> SUFFICES ASSUME SuggestionsInv, search.phase = "done" PROVE AnswerFollowsRules
    BY DEF AnswerFollowsRules
  <2>1. PICK mine \in Mine, f \in Filters, limit \in Limits, distance \in Distances :
          mine = search.mine /\ f = search.filters /\ limit = search.limit /\ distance = search.distance
    BY DEF SuggestionsInv, HasQuestion
  <2>2. PICK people, rows, expected :
          /\ people = search.ranked /\ rows = search.rows /\ rows = Rows(people, mine, f, limit, distance)
          /\ expected = MockRows(people, mine, f, limit, distance)
    BY <2>1 DEF SuggestionsInv, HasRows
  <2>3. Searched(people, mine, distance)
    BY <2>2 DEF SuggestionsInv, HasRows, Searched
  <2>4. PICK cards : cards = search.cards
    OBVIOUS
  <2>5. cards = [i \in DOMAIN rows |-> Card(rows[i], mine, distance, preferences[rows[i]].deportes)]
    BY <2>1, <2>2, <2>4 DEF SuggestionsInv, HasCards
  <2>6. /\ rows \in Seq(People) /\ DOMAIN rows = DOMAIN expected
        /\ \A i, j \in DOMAIN rows : rows[i] = rows[j] => i = j
        /\ \A i \in DOMAIN rows :
             /\ rows[i] \in People
             /\ Key(Card(rows[i], mine, distance, people[rows[i]].deportes))
                  = Key(Card(expected[i], mine, distance, people[expected[i]].deportes))
    BY <2>2, <2>3, SameAnswer
  <2>7. DOMAIN cards = DOMAIN rows /\ \A i \in DOMAIN cards : cards[i].person = rows[i]
    BY <2>5 DEF Card
  <2>8. ASSUME NEW i \in DOMAIN cards, preferences[rows[i]] = people[rows[i]]
        PROVE  cards[i] = Card(rows[i], mine, distance, people[rows[i]].deportes)
    BY <2>5, <2>8
  <2> DEFINE card(p) == Card(p, mine, distance, people[p].deportes)
  <2>9. /\ DOMAIN cards = DOMAIN expected
        /\ \A i, j \in DOMAIN cards : cards[i].person = cards[j].person => i = j
        /\ \A i \in DOMAIN cards :
             LET p == cards[i].person
             IN /\ Key(card(p)) = Key(card(expected[i]))
                /\ preferences[p] = people[p] => cards[i] = card(p)
    BY <2>6, <2>7, <2>8
  <2> QED
    BY <2>1, <2>2, <2>4, <2>9 DEF AnswerFollowsRules
<1> QED
  BY <1>1, SuggestionsInvariance, PTL
=============================================================================
