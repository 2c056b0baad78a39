--------------------------- MODULE AuditPanelProofs ---------------------------
(***************************************************************************)
(* What TLAPS proves of AuditPanel for every value of the constants: any   *)
(* number of writers, of actions posted and of times each one is sent, and *)
(* whatever the rows say.                                                  *)
(***************************************************************************)
EXTENDS AuditPanel, FiniteSetTheorems, TLAPS

Actors == Writers \cup Posts
WritePhase == {"idle", "checked", "open", "committed", "over"}
WalkPhase == {"idle", "asked", "counted", "done"}

\* The local state of a writer, and of the administrator who reads rows.
WriteState ==
  [phase : WritePhase, fecha : Nat \cup {NULL}, tries : Nat, answer : {NULL, 204, 403, 503}]

WalkState(rows) ==
  [phase : WalkPhase, query : Queries \cup {NULL}, pagina : Nat \ {0}, total : Nat, before : SUBSET rows,
   counted : SUBSET rows, shown : SUBSET rows, late : Nat]

\* Identifiers are unique, no row is from a moment still to come, and each was written in one of the two ways.
Rows_ ==
  /\ IsFiniteSet(audit_events)
  /\ \A e \in audit_events : e.id \in 1..MaxRows /\ e.fecha \in 0..reloj /\ WellWritten(e)
  /\ \A e, f \in audit_events : e.id = f.id => e = f

Types_ ==
  /\ reloj \in 0..MaxReloj /\ is_admin \in BOOLEAN
  /\ Rows_
  /\ write \in [Actors -> WriteState]
  /\ \A w \in Actors : /\ write[w].fecha \in (0..reloj) \cup {NULL}
                       /\ write[w].phase \in {"open", "committed"} => write[w].fecha \in 0..reloj
                       /\ write[w].tries <= MaxTries
  /\ walk \in WalkState(audit_events)

RowsOf(w) == {e \in audit_events : e.of = w}

\* The attempt that is being made has left no row yet.
Going(w) == write[w].phase \in {"checked", "open"}

\* What the rows of an action tell: at most one for each attempt, the present one not before its commit, one at least
\* once it was answered, and none when the first attempt was refused.
Told(p) ==
  /\ Cardinality(RowsOf(p)) + (IF Going(p) THEN 1 ELSE 0) <= write[p].tries
  /\ write[p].phase = "committed" \/ write[p].answer = 204 => RowsOf(p) # {}
  /\ write[p].answer = 403 => write[p].phase = "over"
  /\ write[p].answer = 403 /\ write[p].tries = 1 => RowsOf(p) = {}

-----------------------------------------------------------------------------
(* How a step changes a writer                                              *)

LEMMA MakeWrite ==
  ASSUME NEW phase \in WritePhase, NEW fecha \in Nat \cup {NULL}, NEW tries \in Nat, NEW answer \in {NULL, 204, 403, 503}
  PROVE  [phase |-> phase, fecha |-> fecha, tries |-> tries, answer |-> answer] \in WriteState
BY DEF WriteState

LEMMA IdleWrite == Idle \in WriteState /\ Idle.phase = "idle" /\ Idle.fecha = NULL /\ Idle.tries = 0 /\ Idle.answer = NULL
BY DEF Idle, WriteState, WritePhase

LEMMA OfWrite ==
  ASSUME Types_, NEW w \in Actors
  PROVE  /\ write[w] \in WriteState
         /\ write[w].phase \in WritePhase /\ write[w].fecha \in Nat \cup {NULL} /\ write[w].tries \in Nat
         /\ write[w].answer \in {NULL, 204, 403, 503}
BY DEF Types_, WriteState

\* The writer w holds n next, and nobody else changes.
Writes(w, n) ==
  /\ write' \in [Actors -> WriteState]
  /\ write'[w] = n
  /\ \A v \in Actors : v # w => write'[v] = write[v]

LEMMA Replaced ==
  ASSUME Types_, NEW w \in Actors, NEW n \in WriteState, write' = [write EXCEPT ![w] = n]
  PROVE  Writes(w, n)
BY DEF Types_, Writes

Opens(s, n, now) == n = [s EXCEPT !.phase = "open", !.fecha = now]
Goes(s, n, p) == n = [s EXCEPT !.phase = p]
Ends(s, n, a) == n = [s EXCEPT !.phase = "over", !.answer = a]
Sends(s, n, admin) ==
  n = [Idle EXCEPT !.phase = IF admin THEN "checked" ELSE "over", !.tries = s.tries + 1,
                   !.answer = IF admin THEN NULL ELSE 403]

LEMMA OpensChange ==
  ASSUME NEW s \in WriteState, NEW now \in Nat, NEW n, Opens(s, n, now)
  PROVE  n \in WriteState /\ n.phase = "open" /\ n.fecha = now /\ n.tries = s.tries /\ n.answer = s.answer
<1>1. n = [phase |-> "open", fecha |-> now, tries |-> s.tries, answer |-> s.answer]
  BY ZenonT(60) DEF WriteState, Opens
<1>2. "open" \in WritePhase /\ s.tries \in Nat /\ s.answer \in {NULL, 204, 403, 503}
  BY DEF WriteState, WritePhase
<1>3. n \in WriteState
  BY <1>1, <1>2 DEF WriteState
<1> QED
  BY <1>1, <1>3

LEMMA GoesChange ==
  ASSUME NEW s \in WriteState, NEW p \in WritePhase, NEW n, Goes(s, n, p)
  PROVE  n \in WriteState /\ n.phase = p /\ n.fecha = s.fecha /\ n.tries = s.tries /\ n.answer = s.answer
BY DEF WriteState, Goes

LEMMA EndsChange ==
  ASSUME NEW s \in WriteState, NEW a \in {204, 503}, NEW n, Ends(s, n, a)
  PROVE  n \in WriteState /\ n.phase = "over" /\ n.fecha = s.fecha /\ n.tries = s.tries /\ n.answer = a
<1>1. n = [phase |-> "over", fecha |-> s.fecha, tries |-> s.tries, answer |-> a]
  BY ZenonT(60) DEF WriteState, Ends
<1>2. s.fecha \in Nat \cup {NULL} /\ s.tries \in Nat /\ "over" \in WritePhase /\ a \in {NULL, 204, 403, 503}
  BY DEF WriteState, WritePhase
<1>3. n \in WriteState
  BY <1>1, <1>2 DEF WriteState
<1> QED
  BY <1>1, <1>3

LEMMA SendsChange ==
  ASSUME NEW s \in WriteState, NEW admin \in BOOLEAN, NEW n, Sends(s, n, admin)
  PROVE  /\ n \in WriteState /\ n.fecha = NULL /\ n.tries = s.tries + 1
         /\ n.phase = (IF admin THEN "checked" ELSE "over") /\ n.answer = (IF admin THEN NULL ELSE 403)
<1>1. n = [phase |-> IF admin THEN "checked" ELSE "over", fecha |-> NULL, tries |-> s.tries + 1,
           answer |-> IF admin THEN NULL ELSE 403]
  BY ZenonT(60) DEF Sends, Idle
<1>2. s.tries + 1 \in Nat
  BY DEF WriteState
<1> QED
  BY <1>1, <1>2 DEF WriteState, WritePhase

\* What each action does to its writer.
LEMMA BeginWrites ==
  ASSUME Types_, NEW w \in Actors, Begin(w)
  PROVE  \E n : Writes(w, n) /\ Opens(write[w], n, reloj)
<1>1. PICK n : Opens(write[w], n, reloj)
  BY DEF Opens
<1>2. reloj \in Nat
  BY DEF Types_
<1>3. n \in WriteState
  BY <1>1, <1>2, OfWrite, OpensChange
<1>4. write' = [write EXCEPT ![w] = n]
  BY <1>1 DEF Begin, Opens, Types_
<1> QED
  BY <1>1, <1>3, <1>4, Replaced

LEMMA PostWrites ==
  ASSUME Types_, NEW p \in Posts, Post(p)
  PROVE  /\ \E n : Writes(p, n) /\ Sends(write[p], n, is_admin)
         /\ write[p].phase = "idle" \/ (write[p].phase = "over" /\ write[p].answer \in {503, NULL})
         /\ write[p].tries < MaxTries
<1>1. PICK n : Sends(write[p], n, is_admin)
  BY DEF Sends
<1>2. is_admin \in BOOLEAN /\ p \in Actors
  BY DEF Types_, Actors
<1>3. n \in WriteState
  BY <1>1, <1>2, OfWrite, SendsChange
<1>4. write' = [write EXCEPT ![p] = n]
  BY <1>1 DEF Post, Sends
<1>5. Writes(p, n)
  BY <1>2, <1>3, <1>4, Replaced
<1> QED
  BY <1>1, <1>5 DEF Post

\* An attempt that ends changes two fields of its writer at once.
Closed(w, a) == [write EXCEPT ![w].phase = "over", ![w].answer = a]

LEMMA AtOnce ==
  ASSUME Types_, NEW w \in Actors, NEW a, NEW n, Ends(write[w], n, a)
  PROVE  Closed(w, a) = [write EXCEPT ![w] = n]
<1>1. write \in [Actors -> WriteState]
  BY DEF Types_
<1>2. Closed(w, a) = [write EXCEPT ![w] = [write[w] EXCEPT !.phase = "over", !.answer = a]]
  BY <1>1 DEF Closed
<1> QED
  BY <1>2, Zenon DEF Ends

LEMMA CommitWrites ==
  ASSUME Types_, NEW w \in Actors, Commit(w)
  PROVE  \E n : Writes(w, n) /\ Goes(write[w], n, "committed")
<1>1. PICK n : Goes(write[w], n, "committed")
  BY DEF Goes
<1>2. n \in WriteState
  BY <1>1, OfWrite, GoesChange DEF WritePhase
<1>3. write' = [write EXCEPT ![w] = n]
  BY <1>1 DEF Commit, Goes
<1> QED
  BY <1>1, <1>2, <1>3, Replaced

LEMMA RollBackWrites ==
  ASSUME Types_, NEW w \in Actors, RollBack(w)
  PROVE  \E n : Writes(w, n) /\ Ends(write[w], n, 503)
<1>1. PICK n : Ends(write[w], n, 503)
  BY DEF Ends
<1>2. n \in WriteState
  BY <1>1, OfWrite, EndsChange
<1>3. write' = [write EXCEPT ![w] = n]
  <2>1. write' = Closed(w, 503)
    BY Zenon DEF RollBack, AnswerFailed, Closed
  <2> QED
    BY <1>1, <2>1, AtOnce
<1> QED
  BY <1>1, <1>2, <1>3, Replaced

LEMMA AnsweredWrites ==
  ASSUME Types_, NEW p \in Posts, Answered(p)
  PROVE  \E n : /\ Writes(p, n)
                /\ \/ write[p].phase = "committed" /\ Ends(write[p], n, 204)
                   \/ write[p].phase \in {"checked", "open", "committed"} /\ Goes(write[p], n, "over")
<1>0. p \in Actors
  BY DEF Actors
<1>1. CASE write[p].phase = "committed" /\ write' = [write EXCEPT ![p].phase = "over", ![p].answer = 204]
  <2>1. PICK n : Ends(write[p], n, 204)
    BY DEF Ends
  <2>2. n \in WriteState
    BY <1>0, <2>1, OfWrite, EndsChange
  <2>3. write' = [write EXCEPT ![p] = n]
    <3>1. write' = Closed(p, 204)
      BY <1>1, Zenon DEF Closed
    <3> QED
      BY <1>0, <2>1, <3>1, AtOnce
  <2> QED
    BY <1>0, <1>1, <2>1, <2>2, <2>3, Replaced
<1>2. CASE write[p].phase \in {"checked", "open", "committed"} /\ write' = [write EXCEPT ![p].phase = "over"]
  <2>1. PICK n : Goes(write[p], n, "over")
    BY DEF Goes
  <2>2. n \in WriteState
    BY <1>0, <2>1, OfWrite, GoesChange DEF WritePhase
  <2>3. write' = [write EXCEPT ![p] = n]
    BY <1>2, <2>1 DEF Goes
  <2> QED
    BY <1>0, <1>2, <2>1, <2>2, <2>3, Replaced
<1> QED
  BY <1>1, <1>2 DEF Answered

-----------------------------------------------------------------------------
(* What a step does                                                         *)

\* A writer goes on, without a row: its transaction begins or fails, an action is sent, the response arrives or is lost.
Moves(w) ==
  /\ audit_events' = audit_events /\ reloj' = reloj /\ is_admin' = is_admin /\ walk' = walk
  /\ \E n : /\ Writes(w, n)
            /\ \/ write[w].phase \in {"idle", "checked"} /\ (w \in Posts => write[w].phase = "checked")
                  /\ Opens(write[w], n, reloj)
               \/ write[w].phase = "open" /\ Ends(write[w], n, 503)
               \/ /\ write[w].phase = "idle" \/ (write[w].phase = "over" /\ write[w].answer \in {503, NULL})
                  /\ write[w].tries < MaxTries /\ Sends(write[w], n, is_admin)
               \/ write[w].phase = "committed" /\ Ends(write[w], n, 204)
               \/ write[w].phase \in {"checked", "open", "committed"} /\ Goes(write[w], n, "over")

\* One commits its row.
Adds(w) ==
  /\ reloj' = reloj /\ is_admin' = is_admin /\ walk' = walk
  /\ write[w].phase = "open"
  /\ \E n : Writes(w, n) /\ Goes(write[w], n, "committed")
  /\ \E e : /\ audit_events' = audit_events \cup {e}
            /\ e.of = w /\ e.fecha = write[w].fecha
            /\ e.id \in 1..MaxRows \ {f.id : f \in audit_events} /\ WellWritten(e)

\* The clock, the account of the actor and the administrator who reads leave the rows and the writers as they are.
Looks ==
  /\ UNCHANGED <<audit_events, write>>
  /\ reloj' \in reloj..MaxReloj /\ is_admin' \in BOOLEAN
  /\ walk' \in WalkState(audit_events)

LEMMA OfWalk ==
  ASSUME Types_
  PROVE  /\ walk.phase \in WalkPhase /\ walk.query \in Queries \cup {NULL} /\ walk.pagina \in Nat \ {0}
         /\ walk.total \in Nat /\ walk.late \in Nat
         /\ walk.before \in SUBSET audit_events /\ walk.counted \in SUBSET audit_events
         /\ walk.shown \in SUBSET audit_events
BY DEF Types_, WalkState

LEMMA MakeWalk ==
  ASSUME NEW rows, NEW phase \in WalkPhase, NEW query \in Queries \cup {NULL}, NEW pagina \in Nat \ {0},
         NEW total \in Nat, NEW before \in SUBSET rows, NEW counted \in SUBSET rows, NEW shown \in SUBSET rows,
         NEW late \in Nat
  PROVE  [phase |-> phase, query |-> query, pagina |-> pagina, total |-> total, before |-> before,
          counted |-> counted, shown |-> shown, late |-> late] \in WalkState(rows)
BY DEF WalkState

\* What a query finds are rows that there are, a finite number of them.
LEMMA FoundRows ==
  ASSUME Types_, NEW q
  PROVE  Found(q) \in SUBSET audit_events /\ Cardinality(Found(q)) \in Nat
<1>1. Found(q) \in SUBSET audit_events
  BY DEF Found
<1>2. IsFiniteSet(Found(q))
  BY <1>1, FS_Subset DEF Types_, Rows_
<1> QED
  BY <1>1, <1>2, FS_CardinalityType

LEMMA AskLooks ==
  ASSUME Types_, NEW q \in Queries, Ask(q)
  PROVE  walk' \in WalkState(audit_events)
<1>1. walk' = [phase |-> "asked", query |-> q, pagina |-> 1, total |-> 0, before |-> Found(q), counted |-> {},
               shown |-> {}, late |-> 0]
  BY DEF Ask, NoWalk
<1>2. "asked" \in WalkPhase /\ q \in Queries \cup {NULL} /\ 1 \in Nat \ {0} /\ 0 \in Nat /\ {} \in SUBSET audit_events
  BY DEF WalkPhase
<1>3. Found(q) \in SUBSET audit_events
  BY FoundRows
<1> QED
  BY <1>1, <1>2, <1>3, MakeWalk, Zenon

LEMMA CountLooks ==
  ASSUME Types_, Count
  PROVE  walk' \in WalkState(audit_events)
<1>1. PICK rows : rows = Found(walk.query)
  OBVIOUS
<1>2. PICK s : s = walk
  OBVIOUS
<1>3. s \in WalkState(audit_events)
  BY <1>2 DEF Types_
<1>4. PICK n : n = [s EXCEPT !.phase = "counted", !.total = Cardinality(rows), !.counted = rows]
  OBVIOUS
<1>5. rows \in SUBSET audit_events /\ Cardinality(rows) \in Nat /\ "counted" \in WalkPhase
  BY <1>1, FoundRows DEF WalkPhase
<1>6. n = [phase |-> "counted", query |-> s.query, pagina |-> s.pagina, total |-> Cardinality(rows),
           before |-> s.before, counted |-> rows, shown |-> s.shown, late |-> s.late]
  BY <1>3, <1>4 DEF WalkState
<1>7. /\ s.query \in Queries \cup {NULL} /\ s.pagina \in Nat \ {0} /\ s.before \in SUBSET audit_events
      /\ s.shown \in SUBSET audit_events /\ s.late \in Nat
  BY <1>2, OfWalk
<1>8. n \in WalkState(audit_events)
  BY <1>5, <1>6, <1>7, MakeWalk, Zenon
<1>9. walk' = n
  BY <1>1, <1>2, <1>4 DEF Count
<1> QED
  BY <1>8, <1>9

LEMMA PageLooks ==
  ASSUME Types_, Page
  PROVE  walk' \in WalkState(audit_events)
<1>1. PICK rows : rows = Found(walk.query)
  OBVIOUS
<1>2. PICK s : s = walk
  OBVIOUS
<1>3. s \in WalkState(audit_events)
  BY <1>2 DEF Types_
<1>4. PICK p \in WalkPhase : p = IF walk.pagina < TotalPages(walk.total) THEN "asked" ELSE "done"
  BY DEF WalkPhase
<1>5. PICK shown : shown = s.shown \cup PageOf(rows, s.pagina)
  OBVIOUS
<1>6. PICK late : late = Cardinality(rows \ s.counted)
  OBVIOUS
<1>7. /\ s.query \in Queries \cup {NULL} /\ s.pagina \in Nat \ {0} /\ s.total \in Nat
      /\ s.before \in SUBSET audit_events /\ s.counted \in SUBSET audit_events /\ s.shown \in SUBSET audit_events
  BY <1>2, OfWalk
<1>8. rows \in SUBSET audit_events /\ PageOf(rows, s.pagina) \in SUBSET audit_events
  BY <1>1, FoundRows DEF PageOf
<1>9. late \in Nat
  <2>1. IsFiniteSet(rows \ s.counted)
    BY <1>8, FS_Subset DEF Types_, Rows_
  <2> QED
    BY <1>6, <2>1, FS_CardinalityType
<1>10. shown \in SUBSET audit_events /\ s.pagina + 1 \in Nat \ {0}
  BY <1>5, <1>7, <1>8
<1>11. PICK n : n = [s EXCEPT !.phase = p, !.pagina = s.pagina + 1, !.shown = shown, !.late = late]
  OBVIOUS
<1>12. n = [phase |-> p, query |-> s.query, pagina |-> s.pagina + 1, total |-> s.total, before |-> s.before,
            counted |-> s.counted, shown |-> shown, late |-> late]
  BY <1>3, <1>11 DEF WalkState
<1>13. n \in WalkState(audit_events)
  BY <1>7, <1>9, <1>10, <1>12, MakeWalk, Zenon
<1>14. walk' = n
  BY <1>1, <1>2, <1>4, <1>5, <1>6, <1>11 DEF Page
<1> QED
  BY <1>13, <1>14

\* Whatever the step, one of these is what it did.
LEMMA Steps ==
  ASSUME Types_, [Next]_vars
  PROVE  Looks \/ \E w \in Actors : Moves(w) \/ Adds(w)
<1>0. reloj \in Nat /\ reloj \in reloj..MaxReloj /\ is_admin \in BOOLEAN /\ walk \in WalkState(audit_events)
  BY PanelAssumption DEF Types_
<1>1. CASE UNCHANGED vars
  BY <1>0, <1>1 DEF vars, Looks
<1>2. CASE Tick \/ ActorDeleted
  <2>1. reloj' = reloj \/ (reloj < MaxReloj /\ reloj' = reloj + 1)
    BY <1>2 DEF Tick, ActorDeleted
  <2>2. reloj' \in reloj..MaxReloj
    BY <1>0, <2>1, PanelAssumption
  <2>3. UNCHANGED <<audit_events, write, walk>> /\ is_admin' \in BOOLEAN
    BY <1>0, <1>2 DEF Tick, ActorDeleted
  <2> QED
    BY <1>0, <2>2, <2>3 DEF Looks
<1>3. CASE (\E q \in Queries : Ask(q)) \/ Count \/ Page
  <2>1. walk' \in WalkState(audit_events)
    BY <1>3, AskLooks, CountLooks, PageLooks
  <2>2. UNCHANGED <<reloj, is_admin, audit_events, write>>
    BY <1>3 DEF Ask, Count, Page
  <2> QED
    BY <1>0, <2>1, <2>2 DEF Looks
<1>4. ASSUME NEW w \in Actors, Begin(w) PROVE Moves(w)
  BY <1>4, BeginWrites DEF Begin, Moves
<1>5. ASSUME NEW w \in Actors, RollBack(w) PROVE Moves(w)
  BY <1>5, RollBackWrites DEF RollBack, Moves
<1>6. ASSUME NEW p \in Posts, Post(p) PROVE Moves(p)
  BY <1>6, PostWrites DEF Post, Moves
<1>7. ASSUME NEW p \in Posts, Answered(p) PROVE Moves(p)
  BY <1>7, AnsweredWrites DEF Answered, Moves
<1>8. ASSUME NEW w \in Actors, Commit(w) PROVE Adds(w)
  <2>1. PICK shape \in Shapes, id \in 1..MaxRows \ {f.id : f \in audit_events} :
          audit_events' = audit_events \cup
            {[id |-> id, fecha |-> write[w].fecha, of |-> w, action |-> shape.action, resource |-> shape.resource,
              resource_type |-> shape.resource_type, resource_id |-> shape.resource_id]}
    BY <1>8 DEF Commit
  <2>2. \E e : /\ audit_events' = audit_events \cup {e}
               /\ e.of = w /\ e.fecha = write[w].fecha
               /\ e.id \in 1..MaxRows \ {f.id : f \in audit_events} /\ WellWritten(e)
    <3>1. PICK e : e = [id |-> id, fecha |-> write[w].fecha, of |-> w, action |-> shape.action,
                        resource |-> shape.resource, resource_type |-> shape.resource_type,
                        resource_id |-> shape.resource_id]
      OBVIOUS
    <3>2. e.of = w /\ e.fecha = write[w].fecha /\ e.id = id
      BY <3>1
    <3>3. WellWritten(e)
      BY <3>1, PanelAssumption DEF WellWritten
    <3> QED
      BY <2>1, <3>1, <3>2, <3>3
  <2> QED
    BY <1>8, <2>2, CommitWrites DEF Commit, Adds
<1> QED
  <2>1. Next \/ UNCHANGED vars
    OBVIOUS
  <2>2. Posts \subseteq Actors
    BY DEF Actors
  <2> QED
    BY <1>1, <1>2, <1>3, <1>4, <1>5, <1>6, <1>7, <1>8, <2>1, <2>2 DEF Next, Actors

-----------------------------------------------------------------------------
(* The types                                                                *)

\* Types_ by parts, for a step that leaves the parts the others speak of as they are.
LEMMA LooksTypes ==
  ASSUME Types_, Looks
  PROVE  Types_'
<1>1. /\ reloj \in Nat /\ reloj' \in reloj..MaxReloj /\ reloj' \in 0..MaxReloj /\ is_admin' \in BOOLEAN
      /\ audit_events' = audit_events /\ write' = write
      /\ walk' \in WalkState(audit_events)
  BY PanelAssumption DEF Types_, Looks
<1>2. \A t \in 0..reloj : t \in 0..reloj'
  BY <1>1, PanelAssumption
<1>3. Rows_'
  BY <1>1, <1>2 DEF Types_, Rows_
<1>4. \A w \in Actors : /\ write[w].fecha \in (0..reloj') \cup {NULL}
                        /\ write[w].phase \in {"open", "committed"} => write[w].fecha \in 0..reloj'
                        /\ write[w].tries <= MaxTries
  BY <1>2 DEF Types_
<1>5. walk' \in WalkState(audit_events')
  BY <1>1
<1>6. write' \in [Actors -> WriteState]
  BY <1>1 DEF Types_
<1> QED
  BY <1>1, <1>3, <1>4, <1>5, <1>6 DEF Types_

\* What a writer that holds n may hold.
Fits(n) ==
  /\ n.fecha \in (0..reloj) \cup {NULL}
  /\ n.phase \in {"open", "committed"} => n.fecha \in 0..reloj
  /\ n.tries <= MaxTries

LEMMA MovesFits ==
  ASSUME Types_, NEW w \in Actors, Moves(w)
  PROVE  \E n : Writes(w, n) /\ Fits(n)
<1>1. PICK s : s = write[w]
  OBVIOUS
<1>2. s \in WriteState /\ s.tries \in Nat /\ s.tries <= MaxTries /\ s.fecha \in (0..reloj) \cup {NULL}
  BY <1>1, OfWrite DEF Types_
<1>3. reloj \in Nat /\ is_admin \in BOOLEAN /\ MaxTries \in Nat
  BY PanelAssumption DEF Types_
<1>4. PICK n :
        /\ Writes(w, n)
        /\ \/ Opens(s, n, reloj)
           \/ Ends(s, n, 503) \/ Ends(s, n, 204)
           \/ s.tries < MaxTries /\ Sends(s, n, is_admin)
           \/ Goes(s, n, "over")
  BY <1>1 DEF Moves
<1>5. CASE Opens(s, n, reloj)
  <2>1. n.phase = "open" /\ n.fecha = reloj /\ n.tries = s.tries
    BY <1>2, <1>3, <1>5, OpensChange
  <2> QED
    BY <1>2, <1>3, <1>4, <2>1 DEF Fits
<1>6. CASE Ends(s, n, 503) \/ Ends(s, n, 204)
  <2>1. n.phase = "over" /\ n.fecha = s.fecha /\ n.tries = s.tries
    BY <1>2, <1>6, EndsChange
  <2> QED
    BY <1>2, <1>4, <2>1 DEF Fits
<1>7. CASE s.tries < MaxTries /\ Sends(s, n, is_admin)
  <2>1. /\ n.fecha = NULL /\ n.tries = s.tries + 1
        /\ n.phase = (IF is_admin THEN "checked" ELSE "over")
    BY <1>2, <1>3, <1>7, SendsChange
  <2>2. n.tries <= MaxTries /\ n.phase \notin {"open", "committed"}
    BY <1>2, <1>3, <1>7, <2>1
  <2> QED
    BY <1>4, <2>1, <2>2 DEF Fits
<1>8. CASE Goes(s, n, "over")
  <2>1. n.phase = "over" /\ n.fecha = s.fecha /\ n.tries = s.tries
    BY <1>2, <1>8, GoesChange DEF WritePhase
  <2> QED
    BY <1>2, <1>4, <2>1 DEF Fits
<1> QED
  BY <1>4, <1>5, <1>6, <1>7, <1>8

LEMMA AddsFits ==
  ASSUME Types_, NEW w \in Actors, Adds(w)
  PROVE  \E n : Writes(w, n) /\ Fits(n)
<1>1. PICK n : Writes(w, n) /\ Goes(write[w], n, "committed")
  BY DEF Adds
<1>2. n.fecha = write[w].fecha /\ n.tries = write[w].tries
  BY <1>1, OfWrite, GoesChange DEF WritePhase
<1>3. write[w].fecha \in 0..reloj /\ write[w].tries <= MaxTries
  BY DEF Adds, Types_
<1> QED
  BY <1>1, <1>2, <1>3 DEF Fits

LEMMA MovesTypes ==
  ASSUME Types_, NEW w \in Actors, Moves(w)
  PROVE  Types_'
<1>1. PICK n : Writes(w, n) /\ Fits(n)
  BY MovesFits
<1>2. audit_events' = audit_events /\ reloj' = reloj /\ is_admin' = is_admin /\ walk' = walk
  BY DEF Moves
<1>3. \A v \in Actors : /\ write'[v].fecha \in (0..reloj) \cup {NULL}
                        /\ write'[v].phase \in {"open", "committed"} => write'[v].fecha \in 0..reloj
                        /\ write'[v].tries <= MaxTries
  BY <1>1 DEF Writes, Fits, Types_
<1>4. write' \in [Actors -> WriteState] /\ Rows_'
  BY <1>1, <1>2 DEF Writes, Types_, Rows_
<1> QED
  BY <1>2, <1>3, <1>4 DEF Types_

LEMMA AddsRows ==
  ASSUME Types_, NEW w \in Actors, Adds(w)
  PROVE  Rows_' /\ audit_events \subseteq audit_events'
<1>1. PICK e : /\ audit_events' = audit_events \cup {e}
               /\ e.of = w /\ e.fecha = write[w].fecha
               /\ e.id \in 1..MaxRows \ {f.id : f \in audit_events} /\ WellWritten(e)
  BY DEF Adds
<1>2. e.fecha \in 0..reloj /\ reloj' = reloj
  BY <1>1 DEF Adds, Types_
<1>3. IsFiniteSet(audit_events')
  BY <1>1, FS_AddElement DEF Types_, Rows_
<1>4. \A f \in audit_events' : f.id \in 1..MaxRows /\ f.fecha \in 0..reloj /\ WellWritten(f)
  BY <1>1, <1>2 DEF Types_, Rows_
<1>5. \A f, g \in audit_events' : f.id = g.id => f = g
  BY <1>1 DEF Types_, Rows_
<1> QED
  BY <1>1, <1>2, <1>3, <1>4, <1>5 DEF Rows_

LEMMA AddsTypes ==
  ASSUME Types_, NEW w \in Actors, Adds(w)
  PROVE  Types_'
<1>1. PICK n : Writes(w, n) /\ Fits(n)
  BY AddsFits
<1>2. reloj' = reloj /\ is_admin' = is_admin /\ walk' = walk
  BY DEF Adds
<1>3. \A v \in Actors : /\ write'[v].fecha \in (0..reloj) \cup {NULL}
                        /\ write'[v].phase \in {"open", "committed"} => write'[v].fecha \in 0..reloj
                        /\ write'[v].tries <= MaxTries
  BY <1>1 DEF Writes, Fits, Types_
<1>4. write' \in [Actors -> WriteState]
  BY <1>1 DEF Writes
<1>5. Rows_' /\ audit_events \subseteq audit_events'
  BY AddsRows
<1>6. WalkState(audit_events) \subseteq WalkState(audit_events')
  BY <1>5 DEF WalkState
<1>7. walk' \in WalkState(audit_events')
  BY <1>2, <1>6 DEF Types_
<1> QED
  BY <1>2, <1>3, <1>4, <1>5, <1>7 DEF Types_

-----------------------------------------------------------------------------
(* The rows of an action                                                    *)

LEMMA RowsFinite ==
  ASSUME Types_, NEW w
  PROVE  IsFiniteSet(RowsOf(w)) /\ Cardinality(RowsOf(w)) \in Nat
<1>1. RowsOf(w) \in SUBSET audit_events
  BY DEF RowsOf
<1>2. IsFiniteSet(RowsOf(w))
  BY <1>1, FS_Subset DEF Types_, Rows_
<1> QED
  BY <1>2, FS_CardinalityType

\* Told depends on the rows of p and on where p is.
LEMMA ToldSame ==
  ASSUME NEW p, Told(p), write'[p] = write[p], RowsOf(p)' = RowsOf(p)
  PROVE  Told(p)'
BY DEF Told, Going

LEMMA MovesTold ==
  ASSUME Types_, NEW w \in Actors, Moves(w), Told(w), w \in Posts
  PROVE  Told(w)'
<1>1. PICK s : s = write[w]
  OBVIOUS
<1>2. PICK c : c = Cardinality(RowsOf(w))
  OBVIOUS
<1>3. s \in WriteState /\ s.tries \in Nat /\ c \in Nat /\ is_admin \in BOOLEAN /\ reloj \in Nat
  BY <1>1, <1>2, OfWrite, RowsFinite DEF Types_
<1>4. PICK n :
        /\ Writes(w, n)
        /\ \/ s.phase = "checked" /\ Opens(s, n, reloj)
           \/ s.phase = "open" /\ Ends(s, n, 503)
           \/ s.phase \in {"idle", "over"} /\ Sends(s, n, is_admin)
           \/ s.phase = "committed" /\ Ends(s, n, 204)
           \/ s.phase \in {"checked", "open", "committed"} /\ Goes(s, n, "over")
  BY <1>1 DEF Moves
<1>5. RowsOf(w)' = RowsOf(w) /\ write'[w] = n
  BY <1>4 DEF Moves, RowsOf, Writes
<1>6. /\ c + (IF s.phase \in {"checked", "open"} THEN 1 ELSE 0) <= s.tries
      /\ s.phase = "committed" \/ s.answer = 204 => RowsOf(w) # {}
      /\ s.answer = 403 => s.phase = "over"
      /\ s.answer = 403 /\ s.tries = 1 => RowsOf(w) = {}
  BY <1>1, <1>2 DEF Told, Going
<1>7. SUFFICES /\ c + (IF n.phase \in {"checked", "open"} THEN 1 ELSE 0) <= n.tries
               /\ n.phase = "committed" \/ n.answer = 204 => RowsOf(w) # {}
               /\ n.answer = 403 => n.phase = "over"
               /\ n.answer = 403 /\ n.tries = 1 => RowsOf(w) = {}
  BY <1>2, <1>5 DEF Told, Going
<1>8. CASE s.phase = "checked" /\ Opens(s, n, reloj)
  <2>1. n.phase = "open" /\ n.tries = s.tries /\ n.answer = s.answer
    BY <1>3, <1>8, OpensChange
  <2> QED
    BY <1>6, <1>8, <2>1
<1>9. CASE s.phase = "open" /\ Ends(s, n, 503)
  <2>1. n.phase = "over" /\ n.tries = s.tries /\ n.answer = 503
    BY <1>3, <1>9, EndsChange
  <2> QED
    BY <1>3, <1>6, <1>9, <2>1
<1>10. CASE s.phase \in {"idle", "over"} /\ Sends(s, n, is_admin)
  <2>1. /\ n.tries = s.tries + 1
        /\ n.phase = (IF is_admin THEN "checked" ELSE "over") /\ n.answer = (IF is_admin THEN NULL ELSE 403)
    BY <1>3, <1>10, SendsChange
  <2>2. c <= s.tries
    BY <1>3, <1>6, <1>10
  <2>3. ASSUME n.tries = 1 PROVE RowsOf(w) = {}
    <3>1. c = 0
      BY <1>3, <2>1, <2>2, <2>3
    <3> QED
      BY <1>2, <3>1, RowsFinite, FS_EmptySet
  <2>4. n.phase # "committed" /\ n.answer # 204 /\ (n.answer = 403 => n.phase = "over")
    BY <2>1, PanelAssumption
  <2>5. c + (IF n.phase \in {"checked", "open"} THEN 1 ELSE 0) <= n.tries
    BY <1>3, <2>1, <2>2
  <2> QED
    BY <2>3, <2>4, <2>5
<1>11. CASE s.phase = "committed" /\ Ends(s, n, 204)
  <2>1. n.phase = "over" /\ n.tries = s.tries /\ n.answer = 204
    BY <1>3, <1>11, EndsChange
  <2> QED
    BY <1>3, <1>6, <1>11, <2>1
<1>12. CASE s.phase \in {"checked", "open", "committed"} /\ Goes(s, n, "over")
  <2>1. n.phase = "over" /\ n.tries = s.tries /\ n.answer = s.answer
    BY <1>3, <1>12, GoesChange DEF WritePhase
  <2>2. c <= s.tries
    BY <1>3, <1>6
  <2> QED
    BY <1>3, <1>6, <1>12, <2>1, <2>2
<1> QED
  BY <1>4, <1>8, <1>9, <1>10, <1>11, <1>12

\* The row of an attempt is its only one: it was not there before.
LEMMA AddsTold ==
  ASSUME Types_, NEW w \in Actors, Adds(w), Told(w), w \in Posts
  PROVE  Told(w)'
<1>1. PICK s : s = write[w]
  OBVIOUS
<1>2. PICK n : Writes(w, n) /\ Goes(s, n, "committed")
  BY <1>1 DEF Adds
<1>3. s \in WriteState /\ s.phase = "open" /\ s.tries \in Nat
  BY <1>1, OfWrite DEF Adds
<1>4. n.phase = "committed" /\ n.tries = s.tries /\ n.answer = s.answer /\ write'[w] = n
  BY <1>2, <1>3, GoesChange DEF WritePhase, Writes
<1>5. PICK e : audit_events' = audit_events \cup {e} /\ e.of = w
  BY DEF Adds
<1>6. RowsOf(w)' = RowsOf(w) \cup {e}
  BY <1>5 DEF RowsOf
<1>7. Cardinality(RowsOf(w)') <= Cardinality(RowsOf(w)) + 1
  BY <1>6, RowsFinite, FS_AddElement
<1>8. Cardinality(RowsOf(w)) + 1 <= s.tries /\ s.answer # 403
  BY <1>1, <1>3 DEF Told, Going
<1>9. Cardinality(RowsOf(w)') \in Nat /\ Cardinality(RowsOf(w)) \in Nat
  <2>1. IsFiniteSet(RowsOf(w)')
    BY <1>6, RowsFinite, FS_AddElement
  <2> QED
    BY <2>1, RowsFinite, FS_CardinalityType
<1>10. Cardinality(RowsOf(w)') + 0 <= s.tries
  BY <1>3, <1>7, <1>8, <1>9
<1>11. Cardinality(RowsOf(w))' = Cardinality(RowsOf(w)')
  OBVIOUS
<1> QED
  BY <1>4, <1>6, <1>8, <1>10, <1>11 DEF Told, Going

LEMMA ToldStep ==
  ASSUME Types_, NEW p \in Posts, Told(p), NEW w \in Actors, Moves(w) \/ Adds(w)
  PROVE  Told(p)'
<1>1. CASE p = w
  BY <1>1, MovesTold, AddsTold
<1>2. CASE p # w
  <2>1. write'[p] = write[p]
    BY <1>2 DEF Moves, Adds, Writes, Actors
  <2>2. RowsOf(p)' = RowsOf(p)
    BY <1>2 DEF Moves, Adds, RowsOf
  <2> QED
    BY <2>1, <2>2, ToldSame
<1> QED
  BY <1>1, <1>2

-----------------------------------------------------------------------------
(* Ranks                                                                    *)

\* How many rows come before e.
Rank(e, rows) == Cardinality({f \in rows : ComesBefore(f, e)})

\* Finitely many rows, in one order.
Ordered(rows) ==
  /\ IsFiniteSet(rows)
  /\ \A e \in rows : e.id \in Int /\ e.fecha \in Int
  /\ \A e, f \in rows : e.id = f.id => e = f

LEMMA RankType ==
  ASSUME NEW rows, IsFiniteSet(rows), NEW e
  PROVE  IsFiniteSet({f \in rows : ComesBefore(f, e)}) /\ Rank(e, rows) \in Nat
<1>1. {f \in rows : ComesBefore(f, e)} \in SUBSET rows
  OBVIOUS
<1>2. IsFiniteSet({f \in rows : ComesBefore(f, e)})
  BY <1>1, FS_Subset
<1> QED
  BY <1>2, FS_CardinalityType DEF Rank

\* Rows that are added may only put a row further.
LEMMA RankGrows ==
  ASSUME NEW rows, NEW more, IsFiniteSet(more), rows \subseteq more, NEW e
  PROVE  Rank(e, rows) \in Nat /\ Rank(e, more) \in Nat /\ Rank(e, rows) <= Rank(e, more)
<1>1. IsFiniteSet({f \in more : ComesBefore(f, e)}) /\ Rank(e, more) \in Nat
  BY RankType
<1>2. {f \in rows : ComesBefore(f, e)} \in SUBSET {f \in more : ComesBefore(f, e)}
  OBVIOUS
<1>3. IsFiniteSet(rows)
  BY FS_Subset
<1> QED
  BY <1>1, <1>2, <1>3, RankType, FS_Subset DEF Rank

\* What comes before another row has a smaller rank.
LEMMA RankStrict ==
  ASSUME NEW rows, Ordered(rows), NEW e \in rows, NEW f \in rows, ComesBefore(e, f)
  PROVE  Rank(e, rows) < Rank(f, rows)
<1> DEFINE P(x) == {g \in rows : ComesBefore(g, x)}
<1>1. IsFiniteSet(P(e)) /\ IsFiniteSet(P(f)) /\ Rank(e, rows) \in Nat /\ Rank(f, rows) \in Nat
  BY RankType DEF Ordered
<1>2. e \notin P(e)
  BY DEF Ordered, ComesBefore
<1>3. P(e) \cup {e} \in SUBSET P(f)
  BY DEF Ordered, ComesBefore
<1>4. Cardinality(P(e) \cup {e}) = Rank(e, rows) + 1
  BY <1>1, <1>2, FS_AddElement DEF Rank
<1>5. Cardinality(P(e) \cup {e}) <= Rank(f, rows)
  BY <1>1, <1>3, FS_Subset DEF Rank
<1> QED
  BY <1>1, <1>4, <1>5

\* No two rows have one rank, and all the ranks are below the number of rows.
LEMMA RankInjective ==
  ASSUME NEW rows, Ordered(rows), NEW e \in rows, NEW f \in rows, Rank(e, rows) = Rank(f, rows)
  PROVE  e = f
<1> SUFFICES ASSUME e # f PROVE FALSE
  OBVIOUS
<1>1. ComesBefore(e, f) \/ ComesBefore(f, e)
  BY DEF Ordered, ComesBefore
<1>2. Rank(e, rows) < Rank(f, rows) \/ Rank(f, rows) < Rank(e, rows)
  BY <1>1, RankStrict
<1>3. Rank(e, rows) \in Nat
  BY RankType DEF Ordered
<1> QED
  BY <1>2, <1>3

LEMMA RankBelow ==
  ASSUME NEW rows, Ordered(rows), NEW e \in rows
  PROVE  Rank(e, rows) < Cardinality(rows)
<1> DEFINE P == {g \in rows : ComesBefore(g, e)}
<1>1. IsFiniteSet(P) /\ Rank(e, rows) \in Nat /\ IsFiniteSet(rows) /\ Cardinality(rows) \in Nat
  BY RankType, FS_CardinalityType DEF Ordered
<1>2. e \notin P /\ P \cup {e} \in SUBSET rows
  BY DEF Ordered, ComesBefore
<1>3. Cardinality(P \cup {e}) = Rank(e, rows) + 1
  BY <1>1, <1>2, FS_AddElement DEF Rank
<1> QED
  BY <1>1, <1>2, <1>3, FS_Subset

\* Of n rows at most n - m have a rank of m or more.
LEMMA FewBeyond ==
  ASSUME NEW rows, Ordered(rows), NEW far \in SUBSET rows, NEW m \in Nat, m <= Cardinality(rows),
         \A e \in far : Rank(e, rows) >= m
  PROVE  Cardinality(far) <= Cardinality(rows) - m
<1>1. PICK n \in Nat : n = Cardinality(rows)
  BY FS_CardinalityType DEF Ordered
<1>2. ASSUME NEW e \in far PROVE Rank(e, rows) \in m .. (n - 1)
  <2>1. Rank(e, rows) \in Nat
    BY RankType DEF Ordered
  <2>2. Rank(e, rows) < n
    BY <1>1, RankBelow
  <2> QED
    BY <1>1, <2>1, <2>2
<1> DEFINE r == [e \in far |-> Rank(e, rows)]
<1>3. r \in [far -> m .. (n - 1)]
  BY <1>2
<1>4. \A e, f \in far : r[e] = r[f] => e = f
  BY RankInjective
<1>5. r \in Injection(far, m .. (n - 1))
  BY <1>3, <1>4 DEF Injection, IsInjective
<1>6. IsFiniteSet(m .. (n - 1)) /\ Cardinality(m .. (n - 1)) = n - m
  <2>1. n - 1 \in Int /\ m \in Int /\ m <= n
    BY <1>1
  <2>2. IsFiniteSet(m .. (n - 1)) /\ Cardinality(m .. (n - 1)) = IF m > n - 1 THEN 0 ELSE (n - 1) - m + 1
    BY <2>1, FS_Interval
  <2> QED
    BY <2>1, <2>2
<1> HIDE DEF r
<1> QED
  BY <1>1, <1>5, <1>6, FS_Injection

\* The pages asked for have room for all that was counted.
LEMMA EnoughPages ==
  ASSUME NEW total \in Nat, NEW pagina \in Nat, pagina >= TotalPages(total)
  PROVE  pagina * PorPagina >= total
<1>1. PorPagina \in Nat /\ PorPagina > 0
  BY PanelAssumption
<1>2. PICK n \in Int : n = TotalPages(total)
  BY <1>1 DEF TotalPages
<1>3. n * PorPagina >= total
  BY <1>1, <1>2 DEF TotalPages
<1>4. pagina * PorPagina >= n * PorPagina
  BY <1>1, <1>2
<1> QED
  BY <1>1, <1>3, <1>4

\* What a page leaves out of the rows it may still show comes after it.
LEMMA BeyondPage ==
  ASSUME NEW rows, IsFiniteSet(rows), NEW e \in rows, NEW pagina \in Nat \ {0},
         Rank(e, rows) >= (pagina - 1) * PorPagina, e \notin PageOf(rows, pagina)
  PROVE  Rank(e, rows) >= pagina * PorPagina
<1>1. Rank(e, rows) \in Nat /\ PorPagina \in Nat
  BY RankType, PanelAssumption
<1>2. ~(Rank(e, rows) < pagina * PorPagina)
  BY DEF PageOf, Rank
<1>3. pagina * PorPagina \in Int
  BY <1>1
<1> QED
  BY <1>1, <1>2, <1>3

-----------------------------------------------------------------------------
(* The walk                                                                 *)

\* What the administrator may still rely on, whatever is committed: the rows of the beginning are found, the count was
\* of rows that are found, and what was not shown is on no page that was.
Reached ==
  \A e \in walk.before \ walk.shown : Rank(e, Found(walk.query)) >= (walk.pagina - 1) * PorPagina

Walked ==
  /\ walk.phase # "idle" => walk.before \subseteq Found(walk.query)
  /\ walk.phase = "counted" => walk.counted \subseteq Found(walk.query) /\ walk.total = Cardinality(walk.counted)
  /\ walk.phase \in {"asked", "counted"} => Reached
  /\ WalkComplete

LEMMA FoundOrdered ==
  ASSUME Types_, NEW q
  PROVE  Ordered(Found(q)) /\ IsFiniteSet(Found(q)) /\ Cardinality(Found(q)) \in Nat
<1>1. Found(q) \in SUBSET audit_events
  BY DEF Found
<1>2. IsFiniteSet(Found(q))
  BY <1>1, FS_Subset DEF Types_, Rows_
<1>3. \A e \in audit_events : e.id \in Int /\ e.fecha \in Int
  BY PanelAssumption DEF Types_, Rows_
<1> QED
  BY <1>1, <1>2, <1>3, FS_CardinalityType DEF Ordered, Types_, Rows_

\* Nobody reads, and perhaps a row is added.
LEMMA WalkedStays ==
  ASSUME Types_, Types_', Walked, walk' = walk, audit_events \subseteq audit_events'
  PROVE  Walked'
<1>1. PICK q : q = walk.query
  OBVIOUS
<1>2. PICK rows, more : rows = Found(q) /\ more = Found(q)'
  OBVIOUS
<1>3. rows \subseteq more
  BY <1>2 DEF Found
<1>4. IsFiniteSet(more)
  <2>1. more \in SUBSET audit_events' /\ IsFiniteSet(audit_events')
    BY <1>2 DEF Types_, Rows_, Found
  <2> QED
    BY <2>1, FS_Subset
<1>5. Found(walk.query) = rows /\ Found(walk.query)' = more
  BY <1>1, <1>2
<1>6. ASSUME Reached PROVE Reached'
  <2>1. SUFFICES ASSUME NEW e \in walk.before \ walk.shown PROVE Rank(e, more) >= (walk.pagina - 1) * PorPagina
    BY <1>5 DEF Reached, Rank, ComesBefore
  <2>2. Rank(e, rows) >= (walk.pagina - 1) * PorPagina
    BY <1>5, <1>6 DEF Reached
  <2>3. Rank(e, rows) \in Nat /\ Rank(e, more) \in Nat /\ Rank(e, rows) <= Rank(e, more)
    BY <1>3, <1>4, RankGrows
  <2>4. (walk.pagina - 1) * PorPagina \in Int
    BY OfWalk, PanelAssumption
  <2> QED
    BY <2>2, <2>3, <2>4
<1>7. WalkComplete'
  BY DEF Walked, WalkComplete
<1> QED
  BY <1>3, <1>5, <1>6, <1>7 DEF Walked

LEMMA WalkedAsk ==
  ASSUME Types_, NEW q, Ask(q)
  PROVE  Walked'
<1>1. walk' = [phase |-> "asked", query |-> q, pagina |-> 1, total |-> 0, before |-> Found(q), counted |-> {},
               shown |-> {}, late |-> 0]
  BY DEF Ask, NoWalk
<1>2. Found(walk.query)' = Found(q)
  BY <1>1 DEF Ask, Found
<1>3. walk'.phase = "asked" /\ walk'.before = Found(q) /\ walk'.pagina = 1
  BY <1>1
<1>4. Reached'
  <2>1. SUFFICES ASSUME NEW e PROVE Rank(e, Found(q)) >= (1 - 1) * PorPagina
    BY <1>2, <1>3 DEF Reached, Rank, ComesBefore
  <2>2. Rank(e, Found(q)) \in Nat /\ PorPagina \in Nat
    BY FoundOrdered, RankType, PanelAssumption
  <2> QED
    BY <2>2
<1> QED
  BY <1>2, <1>3, <1>4 DEF Walked, WalkComplete

LEMMA WalkedCount ==
  ASSUME Types_, Walked, Count
  PROVE  Walked'
<1>1. PICK rows : rows = Found(walk.query)
  OBVIOUS
<1>2. walk \in WalkState(audit_events) /\ walk.phase = "asked"
  BY DEF Types_, Count
<1>3. walk' = [walk EXCEPT !.phase = "counted", !.total = Cardinality(rows), !.counted = rows]
  BY <1>1 DEF Count
<1>4. /\ walk'.phase = "counted" /\ walk'.total = Cardinality(rows) /\ walk'.counted = rows
      /\ walk'.query = walk.query /\ walk'.before = walk.before /\ walk'.shown = walk.shown
      /\ walk'.pagina = walk.pagina
  BY <1>2, <1>3 DEF WalkState
<1>5. Found(walk.query)' = rows
  BY <1>1, <1>4 DEF Count, Found
<1>6. walk.before \subseteq rows /\ Reached
  BY <1>1, <1>2 DEF Walked
<1>7. Reached'
  BY <1>1, <1>4, <1>5, <1>6 DEF Reached, Rank, ComesBefore
<1> QED
  BY <1>4, <1>5, <1>6, <1>7 DEF Walked, WalkComplete

LEMMA WalkedPage ==
  ASSUME Types_, Walked, Page
  PROVE  Walked'
<1>1. PICK rows : rows = Found(walk.query)
  OBVIOUS
<1>2. PICK p, shown, late :
        /\ p = (IF walk.pagina < TotalPages(walk.total) THEN "asked" ELSE "done")
        /\ shown = walk.shown \cup PageOf(rows, walk.pagina)
        /\ late = Cardinality(rows \ walk.counted)
  OBVIOUS
<1>3. walk \in WalkState(audit_events) /\ walk.phase = "counted"
  BY DEF Types_, Page
<1>4. walk' = [walk EXCEPT !.phase = p, !.pagina = walk.pagina + 1, !.shown = shown, !.late = late]
  BY <1>1, <1>2 DEF Page
<1>5. /\ walk'.phase = p /\ walk'.pagina = walk.pagina + 1 /\ walk'.shown = shown /\ walk'.late = late
      /\ walk'.query = walk.query /\ walk'.before = walk.before
  BY <1>3, <1>4 DEF WalkState
<1>6. Found(walk.query)' = rows
  BY <1>1, <1>5 DEF Page, Found
<1>7. /\ walk.before \subseteq rows /\ Reached
      /\ walk.counted \subseteq rows /\ walk.total = Cardinality(walk.counted)
  BY <1>1, <1>3 DEF Walked
<1>8. Ordered(rows) /\ IsFiniteSet(rows) /\ Cardinality(rows) \in Nat
  BY <1>1, FoundOrdered
<1>9. walk.pagina \in Nat \ {0} /\ walk.total \in Nat /\ PorPagina \in Nat
  BY OfWalk, PanelAssumption
<1>10. ASSUME NEW e \in walk.before \ shown
       PROVE  Rank(e, rows) \in Nat /\ Rank(e, rows) >= walk.pagina * PorPagina
  <2>1. e \in rows /\ e \notin PageOf(rows, walk.pagina) /\ Rank(e, rows) >= (walk.pagina - 1) * PorPagina
    BY <1>1, <1>2, <1>7 DEF Reached
  <2> QED
    BY <1>8, <1>9, <2>1, RankType, BeyondPage
<1>11. Reached'
  <2>1. walk'.pagina - 1 = walk.pagina
    BY <1>5, <1>9
  <2>2. \A e : Rank(e, Found(walk.query))' = Rank(e, rows)
    BY <1>6 DEF Rank, ComesBefore
  <2> QED
    BY <1>5, <1>10, <2>1, <2>2 DEF Reached
<1>12. WalkComplete'
  <2>1. SUFFICES ASSUME p = "done" PROVE Cardinality(walk.before \ shown) <= late
    BY <1>5 DEF WalkComplete
  <2>2. TotalPages(walk.total) \in Int
    BY <1>9, PanelAssumption DEF TotalPages
  <2>3. walk.pagina >= TotalPages(walk.total)
    BY <1>2, <1>9, <2>1, <2>2
  <2>4. walk.pagina * PorPagina >= walk.total
    BY <1>9, <2>3, EnoughPages
  <2>5. \A e \in walk.before \ shown : Rank(e, rows) >= walk.total
    <3>1. walk.pagina * PorPagina \in Int
      BY <1>9
    <3> QED
      BY <1>9, <1>10, <2>4, <3>1
  <2>6. walk.total <= Cardinality(rows) /\ late = Cardinality(rows) - walk.total
    <3>1. rows \cap walk.counted = walk.counted
      BY <1>7
    <3>2. Cardinality(walk.counted) <= Cardinality(rows)
      BY <1>7, <1>8, FS_Subset
    <3>3. Cardinality(rows \ walk.counted) = Cardinality(rows) - Cardinality(walk.counted)
      BY <1>8, <3>1, FS_Difference
    <3> QED
      BY <1>2, <1>7, <3>2, <3>3
  <2>7. walk.before \ shown \in SUBSET rows
    BY <1>7
  <2> QED
    BY <1>8, <1>9, <2>5, <2>6, <2>7, FewBeyond
<1>13. p # "idle" /\ p # "counted"
  BY <1>2
<1> QED
  BY <1>5, <1>6, <1>7, <1>11, <1>12, <1>13 DEF Walked

\* Only the administrator moves the walk, and no row is ever taken away.
LEMMA WalkSteps ==
  ASSUME [Next]_vars
  PROVE  \/ walk' = walk /\ audit_events \subseteq audit_events'
         \/ \E q \in Queries : Ask(q)
         \/ Count \/ Page
<1>1. CASE UNCHANGED vars
  BY <1>1 DEF vars
<1>2. CASE Tick \/ ActorDeleted
  BY <1>2 DEF Tick, ActorDeleted
<1>3. ASSUME NEW w, Begin(w) \/ RollBack(w) \/ Post(w) \/ Answered(w) \/ Commit(w)
      PROVE  walk' = walk /\ audit_events \subseteq audit_events'
  BY <1>3 DEF Begin, RollBack, Post, Answered, Commit
<1> QED
  BY <1>1, <1>2, <1>3 DEF Next

LEMMA WalkedStep ==
  ASSUME Types_, Types_', Walked, [Next]_vars
  PROVE  Walked'
BY WalkSteps, WalkedStays, WalkedAsk, WalkedCount, WalkedPage

-----------------------------------------------------------------------------
(* The invariant and the theorems                                           *)

IInv == Types_ /\ (\A p \in Posts : Told(p)) /\ Walked

LEMMA InitInv == Init => IInv
<1> SUFFICES ASSUME Init PROVE IInv
  OBVIOUS
<1>0. reloj = 0 /\ is_admin = TRUE /\ audit_events \in OldRows /\ walk = NoWalk
  BY DEF Init
<1>1. \A w \in Actors : write[w] = Idle
  BY DEF Init, Actors
<1>2. write \in [Actors -> WriteState]
  BY IdleWrite DEF Init, Actors
<1>3. Rows_
  BY <1>0, PanelAssumption DEF Rows_
<1>4. \A w \in Actors : /\ write[w].fecha \in (0..reloj) \cup {NULL}
                        /\ write[w].phase \in {"open", "committed"} => write[w].fecha \in 0..reloj
                        /\ write[w].tries <= MaxTries
  BY <1>1, IdleWrite, PanelAssumption
<1>5. walk \in WalkState(audit_events)
  <2>1. /\ "idle" \in WalkPhase /\ NULL \in Queries \cup {NULL} /\ 1 \in Nat \ {0} /\ 0 \in Nat
        /\ {} \in SUBSET audit_events
    BY DEF WalkPhase
  <2> QED
    BY <1>0, <2>1, MakeWalk, Zenon DEF NoWalk
<1>6. Types_
  BY <1>0, <1>2, <1>3, <1>4, <1>5, PanelAssumption DEF Types_
<1>7. ASSUME NEW p \in Posts PROVE Told(p)
  <2>1. RowsOf(p) = {}
    BY <1>0, PanelAssumption DEF RowsOf
  <2>2. Cardinality(RowsOf(p)) = 0
    BY <2>1, FS_EmptySet
  <2>3. write[p].phase = "idle" /\ write[p].tries = 0 /\ write[p].answer = NULL
    BY <1>1, IdleWrite DEF Actors
  <2> QED
    BY <2>1, <2>2, <2>3, PanelAssumption DEF Told, Going
<1>8. Walked
  BY <1>0 DEF Walked, WalkComplete, NoWalk
<1> QED
  BY <1>6, <1>7, <1>8 DEF IInv

LEMMA NextInv == IInv /\ [Next]_vars => IInv'
<1> SUFFICES ASSUME IInv, [Next]_vars PROVE IInv'
  OBVIOUS
<1>1. Types_ /\ (\A p \in Posts : Told(p)) /\ Walked
  BY DEF IInv
<1>2. CASE Looks
  <2>1. Types_'
    BY <1>1, <1>2, LooksTypes
  <2>2. \A p \in Posts : write'[p] = write[p] /\ RowsOf(p)' = RowsOf(p)
    BY <1>2 DEF Looks, RowsOf
  <2>3. Walked'
    BY <1>1, <2>1, WalkedStep
  <2> QED
    BY <1>1, <2>1, <2>2, <2>3, ToldSame DEF IInv
<1>3. CASE \E w \in Actors : Moves(w) \/ Adds(w)
  <2>1. PICK w \in Actors : Moves(w) \/ Adds(w)
    BY <1>3
  <2>2. Types_'
    BY <1>1, <2>1, MovesTypes, AddsTypes
  <2>3. \A p \in Posts : Told(p)'
    BY <1>1, <2>1, ToldStep
  <2>4. Walked'
    BY <1>1, <2>2, WalkedStep
  <2> QED
    BY <2>2, <2>3, <2>4 DEF IInv
<1> QED
  BY <1>1, <1>2, <1>3, Steps

\* The invariant holds in every state: each step keeps it.
LEMMA Invariance == Spec => []IInv
BY InitInv, NextInv, PTL DEF Spec

\* Whatever is written and read meanwhile, no two rows have one identifier, no row is from a moment still to come, and
\* whatever the administrator was shown is a row of the history.
THEOREM Types == Spec => []TypeOK
<1>1. IInv => TypeOK
  <2> SUFFICES ASSUME IInv PROVE TypeOK
    OBVIOUS
  <2>1. Types_
    BY DEF IInv
  <2>2. \A w \in Writers \cup Posts :
          /\ write[w].phase \in {"idle", "checked", "open", "committed", "over"}
          /\ write[w].fecha \in (0..reloj) \cup {NULL}
          /\ write[w].tries \in 0..MaxTries
          /\ write[w].answer \in {NULL, 204, 403, 503}
    <3>1. SUFFICES ASSUME NEW w \in Actors
                   PROVE  /\ write[w].phase \in WritePhase /\ write[w].fecha \in (0..reloj) \cup {NULL}
                          /\ write[w].tries \in 0..MaxTries /\ write[w].answer \in {NULL, 204, 403, 503}
      BY DEF Actors, WritePhase
    <3>2. write[w].tries \in Nat /\ write[w].tries <= MaxTries /\ write[w].fecha \in (0..reloj) \cup {NULL}
      BY <2>1, OfWrite DEF Types_
    <3> QED
      BY <2>1, <3>2, OfWrite, PanelAssumption
  <2>3. /\ walk.phase \in {"idle", "asked", "counted", "done"} /\ walk.query \in Queries \cup {NULL}
        /\ walk.pagina \in Nat \ {0} /\ walk.total \in Nat /\ walk.late \in Nat
        /\ walk.before \cup walk.counted \cup walk.shown \subseteq audit_events
    BY <2>1, OfWalk DEF WalkPhase
  <2> QED
    BY <2>1, <2>2, <2>3 DEF Types_, Rows_, TypeOK
<1> QED
  BY <1>1, Invariance, PTL

\* However an action is sent again, fails or loses its answer, a 204 means that it is in the history, and it is there
\* no more often than it was sent.
THEOREM Recorded == Spec => []PostsRecorded
<1>1. IInv => PostsRecorded
  <2> SUFFICES ASSUME IInv, NEW p \in Posts
               PROVE  /\ write[p].answer = 204 => RowsOf(p) # {}
                      /\ Cardinality(RowsOf(p)) <= write[p].tries
                      /\ write[p].answer = 403 /\ write[p].tries = 1 => RowsOf(p) = {}
    BY DEF PostsRecorded, RowsOf
  <2>1. Types_ /\ Told(p) /\ p \in Actors
    BY DEF IInv, Actors
  <2>2. Cardinality(RowsOf(p)) \in Nat /\ write[p].tries \in Nat
    BY <2>1, RowsFinite, OfWrite
  <2>3. Cardinality(RowsOf(p)) <= write[p].tries
    BY <2>1, <2>2 DEF Told
  <2> QED
    BY <2>1, <2>3 DEF Told
<1> QED
  BY <1>1, Invariance, PTL

\* Whoever walks the history page by page to the end was shown every row that was there at the beginning, but for as
\* many as were committed between the last count and the page that came with it.
THEOREM WalksComplete == Spec => []WalkComplete
<1>1. IInv => WalkComplete
  BY DEF IInv, Walked
<1> QED
  BY <1>1, Invariance, PTL

-----------------------------------------------------------------------------
(* The filters                                                              *)

\* The panel shows a row of the catalogue exactly when the query takes it, and under the name it has there.
LEMMA ShownActions ==
  ASSUME NEW e
  PROVE  /\ Shown(e).accion \in Catalog <=> e.action \in Catalog \cup DOMAIN LegacyActions
         /\ \A a \in Catalog : Shown(e).accion = a <=> ActionIs(e, a)
BY DEF Shown, ActionIs, Catalog, LegacyActions

\* A filter of the panel by itself, on a row written in one of the two ways.
LEMMA OneFilter ==
  ASSUME NEW e, WellWritten(e), NEW t, t # NULL
  PROVE  /\ Where(e, [NoFilter EXCEPT !["desde"] = t]) <=> Shown(e).accion \in Catalog /\ Shown(e).fecha >= t
         /\ Where(e, [NoFilter EXCEPT !["hasta"] = t]) <=> Shown(e).accion \in Catalog /\ Shown(e).fecha <= t
         /\ t \in Catalog =>
              (Where(e, [NoFilter EXCEPT !["accion"] = t]) <=> Shown(e).accion \in Catalog /\ Shown(e).accion = t)
         /\ Where(e, [NoFilter EXCEPT !["recurso_tipo"] = t]) <=>
              Shown(e).accion \in Catalog /\ Shown(e).recurso_tipo = t
         /\ Where(e, [NoFilter EXCEPT !["recurso_id"] = t]) <=>
              Shown(e).accion \in Catalog /\ Shown(e).recurso_id = t
<1>1. Where(e, [NoFilter EXCEPT !["desde"] = t]) <=> Shown(e).accion \in Catalog /\ Shown(e).fecha >= t
  <2>1. [NoFilter EXCEPT !["desde"] = t] =
          [desde |-> t, hasta |-> NULL, accion |-> NULL, recurso_tipo |-> NULL, recurso_id |-> NULL]
    BY DEF NoFilter
  <2>2. Shown(e).fecha = e.fecha
    BY DEF Shown
  <2> QED
    BY <2>1, <2>2, ShownActions DEF Where
<1>2. Where(e, [NoFilter EXCEPT !["hasta"] = t]) <=> Shown(e).accion \in Catalog /\ Shown(e).fecha <= t
  <2>1. [NoFilter EXCEPT !["hasta"] = t] =
          [desde |-> NULL, hasta |-> t, accion |-> NULL, recurso_tipo |-> NULL, recurso_id |-> NULL]
    BY DEF NoFilter
  <2>2. Shown(e).fecha = e.fecha
    BY DEF Shown
  <2> QED
    BY <2>1, <2>2, ShownActions DEF Where
<1>3. ASSUME t \in Catalog
      PROVE  Where(e, [NoFilter EXCEPT !["accion"] = t]) <=> Shown(e).accion \in Catalog /\ Shown(e).accion = t
  <2>1. [NoFilter EXCEPT !["accion"] = t] =
          [desde |-> NULL, hasta |-> NULL, accion |-> t, recurso_tipo |-> NULL, recurso_id |-> NULL]
    BY DEF NoFilter
  <2> QED
    BY <1>3, <2>1, ShownActions DEF Where
<1>4. Where(e, [NoFilter EXCEPT !["recurso_tipo"] = t]) <=>
        Shown(e).accion \in Catalog /\ Shown(e).recurso_tipo = t
  <2>1. [NoFilter EXCEPT !["recurso_tipo"] = t] =
          [desde |-> NULL, hasta |-> NULL, accion |-> NULL, recurso_tipo |-> t, recurso_id |-> NULL]
    BY DEF NoFilter
  <2>2. Shown(e).recurso_tipo = t <=> e.resource_type = t \/ (t = "report" /\ IsOldReport(e))
    BY DEF Shown, IsOldReport
  <2> QED
    BY <2>1, <2>2, ShownActions DEF Where
<1>5. Where(e, [NoFilter EXCEPT !["recurso_id"] = t]) <=>
        Shown(e).accion \in Catalog /\ Shown(e).recurso_id = t
  <2>1. [NoFilter EXCEPT !["recurso_id"] = t] =
          [desde |-> NULL, hasta |-> NULL, accion |-> NULL, recurso_tipo |-> NULL, recurso_id |-> t]
    BY DEF NoFilter
  <2>2. Shown(e).recurso_id = IF e.resource_id = NULL /\ e.resource[1] = "reports" THEN e.resource[2] ELSE e.resource_id
    BY DEF Shown, IsOldReport, WellWritten
  <2> QED
    BY <2>1, <2>2, ShownActions DEF Where
<1> QED
  BY <1>1, <1>2, <1>3, <1>4, <1>5

\* A filter finds exactly the rows that are shown with what it asks for: those of the time before the catalogue, which
\* the panel shows in the shape of the new ones, are filtered as they are shown.
THEOREM Filtered == Spec => []FilterFollowsShown
<1> DEFINE Asked(e, field, t) ==
             Where(e, [NoFilter EXCEPT ![field] = t]) <=>
               /\ Shown(e).accion \in Catalog
               /\ CASE field = "desde" -> Shown(e).fecha >= t
                    [] field = "hasta" -> Shown(e).fecha <= t
                    [] OTHER -> Shown(e)[field] = t
<1>1. ASSUME NEW e, WellWritten(e)
      PROVE  /\ \A t \in 0..MaxReloj : Asked(e, "desde", t) /\ Asked(e, "hasta", t)
             /\ \A a \in Catalog : Asked(e, "accion", a)
             /\ \A t \in {"report", "user"} : Asked(e, "recurso_tipo", t)
             /\ \A id : id # NULL => Asked(e, "recurso_id", id)
  <2>1. \A t \in 0..MaxReloj : t # NULL
    BY PanelAssumption
  <2>2. \A t \in Catalog \cup {"report", "user"} : t # NULL
    BY PanelAssumption
  <2> QED
    BY <1>1, <2>1, <2>2, OneFilter
<1>2. IInv => FilterFollowsShown
  <2> SUFFICES ASSUME IInv, NEW filter \in Filters, NEW e \in audit_events PROVE Asked(e, filter[1], filter[2])
    BY DEF FilterFollowsShown
  <2>1. WellWritten(e) /\ \A f \in audit_events : f.resource[2] # NULL
    BY DEF IInv, Types_, Rows_, WellWritten
  <2>2. \/ \E t \in 0..MaxReloj : filter = <<"desde", t>> \/ filter = <<"hasta", t>>
        \/ \E a \in Catalog : filter = <<"accion", a>>
        \/ \E t \in {"report", "user"} : filter = <<"recurso_tipo", t>>
        \/ \E f \in audit_events : filter = <<"recurso_id", f.resource[2]>>
    BY DEF Filters
  <2> HIDE DEF Asked
  <2>3. \A field, t : filter = <<field, t>> => filter[1] = field /\ filter[2] = t
    OBVIOUS
  <2> QED
    BY <1>1, <2>1, <2>2, <2>3
<1> QED
  BY <1>2, Invariance, PTL
=============================================================================
