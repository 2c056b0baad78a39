------------------------------ MODULE AuditPanel ------------------------------
(***************************************************************************)
(* The history of administrative actions (HU-48): the rows that the        *)
(* changes of this service and the posts of the other services write in    *)
(* audit_events, and an administrator who walks the history page by page   *)
(* meanwhile.  fecha is the moment the transaction of the row began, so a  *)
(* row may be committed behind others that are already shown.  Rows are    *)
(* never changed nor deleted.                                              *)
(***************************************************************************)
EXTENDS Integers, FiniteSets

CONSTANTS Writers,     \* transactions of this service that write one row
          Posts,       \* actions that another service reports
          MaxTries,    \* bound: how many times a service sends one of them
          Shapes,      \* what rows say: [action, resource, resource_type, resource_id]
          OldRows,     \* the sets of rows there may be at the beginning
          Queries,     \* AuditQuery, without the page
          PorPagina,   \* por_pagina
          MaxReloj, MaxRows,   \* bounds
          NULL

\* AuditAction and LEGACY_ACTIONS: what moderation wrote before the catalogue, by its name in the catalogue.  The rest
\* of the catalogue is as REPORT_ESCALATED.
Catalog == {"REPORT_REVIEWED", "REPORT_DISCARDED", "REPORT_ESCALATED", "PLAN_CREATED"}
LegacyActions == [report_revisado |-> "REPORT_REVIEWED", report_descartado |-> "REPORT_DISCARDED"]

\* The two ways a row is written: record_audit leaves both columns of the resource NULL, insert_admin_audit fills both.
WellWritten(row) == (row.resource_type = NULL <=> row.resource_id = NULL) /\ row.resource[2] # NULL

ASSUME PanelAssumption ==
  /\ PorPagina \in Nat \ {0}
  /\ MaxTries \in Nat /\ MaxReloj \in Nat /\ MaxRows \in Nat
  /\ Writers \cap Posts = {} /\ NULL \notin Writers \cup Posts
  /\ NULL \notin Nat /\ NULL \notin Catalog \cup {"report", "user"}
  /\ \A shape \in Shapes : WellWritten(shape)
  /\ \A rows \in OldRows :
       /\ IsFiniteSet(rows)
       /\ \A e \in rows : e.id \in 1..MaxRows /\ e.fecha = 0 /\ e.of = NULL /\ WellWritten(e)
       /\ \A e, f \in rows : e.id = f.id => e = f

VARIABLES
  reloj,         \* the clock of PostgreSQL
  is_admin,      \* the actor of the posts is an active account with role admin
  audit_events,  \* the committed rows
  write,         \* local state of each writer and of each post
  walk           \* local state of the administrator who reads

vars == <<reloj, is_admin, audit_events, write, walk>>

Idle == [phase |-> "idle", fecha |-> NULL, tries |-> 0, answer |-> NULL]

\* pages counts those asked for; before, what there was to read when the walk began; counted, what the last count saw;
\* shown, what the pages showed.
NoWalk == [phase |-> "idle", query |-> NULL, pagina |-> 1, total |-> 0, before |-> {}, counted |-> {}, shown |-> {},
           late |-> 0]

Init ==
  /\ reloj = 0
  /\ is_admin = TRUE
  /\ audit_events \in OldRows
  /\ write = [w \in Writers \cup Posts |-> Idle]
  /\ walk = NoWalk

-----------------------------------------------------------------------------
(* Writing                                                                  *)

\* A transaction that audits begins: one of this service, or record_admin_audit for a post that passed the check.
Begin(w) ==
  /\ write[w].phase = IF w \in Posts THEN "checked" ELSE "idle"
  /\ write' = [write EXCEPT ![w].phase = "open", ![w].fecha = reloj]
  /\ UNCHANGED <<reloj, is_admin, audit_events, walk>>

\* A service that was not answered, or was answered a 503, sends the action again; another action comes after that.
\* record_event asks for an actor who is an active administrator.
Post(p) ==
  /\ \/ write[p].phase = "idle"
     \/ write[p].phase = "over" /\ write[p].answer \in {503, NULL}
  /\ write[p].tries < MaxTries
  /\ write' = [write EXCEPT ![p] =
       [Idle EXCEPT !.phase = IF is_admin THEN "checked" ELSE "over",
                    !.tries = write[p].tries + 1,
                    !.answer = IF is_admin THEN NULL ELSE 403]]
  /\ UNCHANGED <<reloj, is_admin, audit_events, walk>>

\* insert_admin_audit or record_audit, and the commit.  The identifier is random, so the rows of one instant are in any
\* order.
Commit(w) ==
  /\ write[w].phase = "open"
  /\ Cardinality(audit_events) < MaxRows
  /\ \E shape \in Shapes, id \in 1..MaxRows \ {e.id : e \in audit_events} :
       audit_events' = audit_events \cup
         {[id |-> id, fecha |-> write[w].fecha, of |-> w, action |-> shape.action, resource |-> shape.resource,
           resource_type |-> shape.resource_type, resource_id |-> shape.resource_id]}
  /\ write' = [write EXCEPT ![w].phase = "committed"]
  /\ UNCHANGED <<reloj, is_admin, walk>>

\* Mistake: a row that cannot be written is forgotten, as a notice is.
AnswerOfFailure(w) == 204

\* DependencyUnavailableError becomes a 503.
AnswerFailed(w) == 503

\* The transaction fails and is rolled back.
RollBack(w) ==
  /\ write[w].phase = "open"
  /\ write' = [write EXCEPT ![w].phase = "over", ![w].answer = AnswerFailed(w)]
  /\ UNCHANGED <<reloj, is_admin, audit_events, walk>>

\* The response arrives; or it does not, whether the row is saved or not.
Answered(p) ==
  /\ \/ write[p].phase = "committed" /\ write' = [write EXCEPT ![p].phase = "over", ![p].answer = 204]
     \/ write[p].phase \in {"checked", "open", "committed"} /\ write' = [write EXCEPT ![p].phase = "over"]
  /\ UNCHANGED <<reloj, is_admin, audit_events, walk>>

Tick ==
  /\ reloj < MaxReloj
  /\ reloj' = reloj + 1
  /\ UNCHANGED <<is_admin, audit_events, write, walk>>

\* The account of the actor is deleted.
ActorDeleted == is_admin /\ is_admin' = FALSE /\ UNCHANGED <<reloj, audit_events, write, walk>>

-----------------------------------------------------------------------------
(* Reading                                                                  *)

IsOldReport(e) == e.resource_type = NULL /\ e.resource[1] = "reports"

\* Mistake: only the name in the catalogue is looked for.
ActionOnly(e, accion) == e.action = accion

\* The name and what was written in its place before the catalogue.
ActionIs(e, accion) ==
  e.action = accion \/ (e.action \in DOMAIN LegacyActions /\ LegacyActions[e.action] = accion)

\* The WHERE of list_admin_audit, over the columns.
Where(e, q) ==
  /\ e.action \in Catalog \cup DOMAIN LegacyActions
  /\ q.desde # NULL => e.fecha >= q.desde
  /\ q.hasta # NULL => e.fecha <= q.hasta
  /\ q.accion # NULL => ActionIs(e, q.accion)
  /\ q.recurso_tipo # NULL => e.resource_type = q.recurso_tipo \/ (q.recurso_tipo = "report" /\ IsOldReport(e))
  /\ q.recurso_id # NULL =>
       (IF e.resource_id = NULL /\ e.resource[1] = "reports" THEN e.resource[2] ELSE e.resource_id) = q.recurso_id

\* What the panel shows of a row: AuditRecord.
Shown(e) ==
  [fecha |-> e.fecha,
   accion |-> IF e.action \in DOMAIN LegacyActions THEN LegacyActions[e.action] ELSE e.action,
   recurso_tipo |-> IF IsOldReport(e) THEN "report" ELSE e.resource_type,
   recurso_id |-> IF IsOldReport(e) THEN e.resource[2] ELSE e.resource_id]

Found(q) == {e \in audit_events : Where(e, q)}

\* ORDER BY fecha DESC, id DESC.
ComesBefore(e, f) == e.fecha > f.fecha \/ (e.fecha = f.fecha /\ e.id > f.id)

\* LIMIT por_pagina OFFSET (pagina - 1) * por_pagina.
PageOf(rows, pagina) ==
  {e \in rows : LET rank == Cardinality({f \in rows : ComesBefore(f, e)})
                IN rank >= (pagina - 1) * PorPagina /\ rank < pagina * PorPagina}

\* Mistake: the last page counts only when it is full.
FullPages(total) == total \div PorPagina

\* ceil(total / por_pagina)
TotalPages(total) == (total + PorPagina - 1) \div PorPagina

\* The administrator chooses the filters.
Ask(q) ==
  /\ walk.phase = "idle"
  /\ walk' = [NoWalk EXCEPT !.phase = "asked", !.query = q, !.before = Found(q)]
  /\ UNCHANGED <<reloj, is_admin, audit_events, write>>

\* SELECT count(*)
Count ==
  /\ walk.phase = "asked"
  /\ walk' = [walk EXCEPT !.phase = "counted", !.total = Cardinality(Found(walk.query)), !.counted = Found(walk.query)]
  /\ UNCHANGED <<reloj, is_admin, audit_events, write>>

\* The SELECT of the page, another statement.  The panel asks for the next one until total_paginas.
Page ==
  /\ walk.phase = "counted"
  /\ walk' = [walk EXCEPT !.phase = IF walk.pagina < TotalPages(walk.total) THEN "asked" ELSE "done",
                          !.pagina = @ + 1,
                          !.shown = @ \cup PageOf(Found(walk.query), walk.pagina),
                          !.late = Cardinality(Found(walk.query) \ walk.counted)]
  /\ UNCHANGED <<reloj, is_admin, audit_events, write>>

Next ==
  \/ Tick \/ ActorDeleted
  \/ \E w \in Writers \cup Posts : Begin(w) \/ Commit(w) \/ RollBack(w)
  \/ \E p \in Posts : Post(p) \/ Answered(p)
  \/ \E q \in Queries : Ask(q)
  \/ Count \/ Page

Spec == Init /\ [][Next]_vars

-----------------------------------------------------------------------------
(* Properties                                                               *)

\* Types of the rows and of the local states.
TypeOK ==
  /\ reloj \in 0..MaxReloj
  /\ is_admin \in BOOLEAN
  /\ \A e \in audit_events : e.id \in 1..MaxRows /\ e.fecha \in 0..reloj
  /\ \A e, f \in audit_events : e.id = f.id => e = f
  /\ \A w \in Writers \cup Posts :
       /\ write[w].phase \in {"idle", "checked", "open", "committed", "over"}
       /\ write[w].fecha \in (0..reloj) \cup {NULL}
       /\ write[w].tries \in 0..MaxTries
       /\ write[w].answer \in {NULL, 204, 403, 503}
  /\ walk.phase \in {"idle", "asked", "counted", "done"}
  /\ walk.query \in Queries \cup {NULL}
  /\ walk.pagina \in Nat \ {0} /\ walk.total \in Nat /\ walk.late \in Nat
  /\ walk.before \cup walk.counted \cup walk.shown \subseteq audit_events

\* Who walks the history to its end sees every row there was at the beginning, although rows are committed meanwhile in
\* front of the page and behind it and the count and the page come from different statements: of what was there only
\* as many rows may be missing as were committed between the count and the page of the last answer.
WalkComplete ==
  walk.phase = "done" => Cardinality(walk.before \ walk.shown) <= walk.late

\* Every filter by itself; the WHERE is a conjunction.
Filters ==
  {<<field, t>> : field \in {"desde", "hasta"}, t \in 0..MaxReloj}
    \cup {<<"accion", a>> : a \in Catalog}
    \cup {<<"recurso_tipo", t>> : t \in {"report", "user"}}
    \cup {<<"recurso_id", e.resource[2]>> : e \in audit_events}

NoFilter == [desde |-> NULL, hasta |-> NULL, accion |-> NULL, recurso_tipo |-> NULL, recurso_id |-> NULL]

\* The filters work on the columns and the panel shows something else, the old reports in the shape of the new ones:
\* a filter finds exactly the rows that, as they are shown, have what it asks for.
FilterFollowsShown ==
  \A filter \in Filters, e \in audit_events :
    Where(e, [NoFilter EXCEPT ![filter[1]] = filter[2]]) <=>
      /\ Shown(e).accion \in Catalog
      /\ CASE filter[1] = "desde" -> Shown(e).fecha >= filter[2]
           [] filter[1] = "hasta" -> Shown(e).fecha <= filter[2]
           [] OTHER -> Shown(e)[filter[1]] = filter[2]

\* What a service was told to be recorded is, once; an action sent again because the answer was lost may be there more
\* than once, but never more often than it was sent, nor by an actor who was refused at the first time.
PostsRecorded ==
  \A p \in Posts :
    LET rows == {e \in audit_events : e.of = p}
    IN /\ write[p].answer = 204 => rows # {}
       /\ Cardinality(rows) <= write[p].tries
       /\ write[p].answer = 403 /\ write[p].tries = 1 => rows = {}
=============================================================================
