------------------------------ MODULE Reports ------------------------------
(***************************************************************************)
(* HU-43 and HU-47, moderation: UserService over table reporte.  A report  *)
(* of an activity or of a message names no person: who made the content is *)
(* asked to the service that owns it, after the report is saved and again  *)
(* when an administrator lists the reports, and what it answers is saved   *)
(* in another transaction.  A review is one transaction, split here at the *)
(* row lock it takes.                                                      *)
(***************************************************************************)
EXTENDS Integers, FiniteSets

CONSTANTS Accounts,
          Contents,    \* activities and messages, of Ms_Activities and Ms_Matching
          AuthorOf,    \* who made each content
          Posts,       \* POST /reports requests; each draws its own uuid4: they name the reports too
          Lists,       \* GET /admin/reports requests
          Reviews,     \* PATCH /admin/reports/{id} requests
          NULL,
          MaxLookups   \* AUTHOR_LOOKUPS_PER_REQUEST

ASSUME ReportsAssumption ==
  /\ MaxLookups \in Nat \ {0}
  /\ AuthorOf \in [Contents -> Accounts] /\ Accounts \cap Contents = {} /\ Posts \cap Lists = {}
  /\ NULL \notin Nat /\ NULL \notin Accounts /\ NULL \notin Contents
  /\ NULL \notin Posts /\ NULL \notin Reviews

VARIABLES
  published,   \* external: the contents that still exist
  reporte,     \* table reporte, by id
  auditoria,   \* the REPORT_* rows of the administrative audit
  request,     \* local state of each request that may ask for an author
  review       \* local state of each review

vars == <<published, reporte, auditoria, request, review>>

Estado == {"pendiente", "revisado", "descartado", "escalado"}
Decision == Estado \ {"pendiente"}      \* ReportReview.estado

\* REPORT_TRANSITIONS, as pairs.
Transitions == ({"pendiente"} \X Decision) \cup {<<"revisado", "escalado">>}

\* objetivo_id stands for tipo too: an account, or a content.  Reports with another motivo are other reports.
\* Only that of a content has an author of its own (CHECK reporte_autor_solo_contenido).
Reporte == [reportante_id : Accounts, objetivo_id : Accounts, estado : Estado, revisado_por : Reviews \cup {NULL},
            autor_id : {NULL}] \cup
           [reportante_id : Accounts, objetivo_id : Contents, estado : Estado, revisado_por : Reviews \cup {NULL},
            autor_id : Accounts \cup {NULL}]

IdleRequest == [phase |-> "idle", user |-> NULL, objetivo_id |-> NULL, page |-> {},
                report |-> NULL, autor |-> NULL]
IdleReview == [phase |-> "idle", report |-> NULL, estado |-> NULL, current |-> NULL]

Init ==
  /\ published = Contents
  /\ reporte = [t \in {} |-> NULL]
  /\ auditoria = {}
  /\ request = [r \in Posts \cup Lists |-> IdleRequest]
  /\ review = [v \in Reviews |-> IdleReview]

Finish(r) == request' = [request EXCEPT ![r] = [IdleRequest EXCEPT !.phase = "done"]]
FinishReview(v) == review' = [review EXCEPT ![v] = [IdleReview EXCEPT !.phase = "done"]]

\* The row lock of SELECT ... FOR UPDATE, held by a review until its transaction ends.
Locked(t) == \E v \in Reviews : review[v].phase = "locked" /\ review[v].report = t

-----------------------------------------------------------------------------
(* POST /reports                                                            *)

\* Any signed-in account reports; it may be deleted meanwhile, for nothing here reads it again.  It cannot report itself.
PostArrive(r, u, objetivo) ==
  /\ request[r].phase = "idle"
  /\ IF objetivo = u
     THEN Finish(r)
     ELSE request' = [request EXCEPT ![r] = [@ EXCEPT !.phase = "creating", !.user = u, !.objetivo_id = objetivo]]
  /\ UNCHANGED <<published, reporte, auditoria, review>>

\* Mistake: the person reported is saved as the author too.
NewReporteAuthored(r) ==
  [reportante_id |-> request[r].user, objetivo_id |-> request[r].objetivo_id, estado |-> "pendiente",
   revisado_por |-> NULL,
   autor_id |-> IF request[r].objetivo_id \in Contents THEN NULL ELSE request[r].objetivo_id]

\* The row create_report inserts.
NewReporte(r) ==
  [reportante_id |-> request[r].user, objetivo_id |-> request[r].objetivo_id, estado |-> "pendiente",
   revisado_por |-> NULL, autor_id |-> NULL]

\* create_report: ON CONFLICT DO NOTHING, 409, or a new row.  Only that of a content has an author to ask for.
PostCreate(r) ==
  LET u == request[r].user
      objetivo == request[r].objetivo_id
      repeated == \E t \in DOMAIN reporte : reporte[t].reportante_id = u /\ reporte[t].objetivo_id = objetivo
  IN /\ request[r].phase = "creating"
     /\ \/ repeated /\ Finish(r) /\ UNCHANGED reporte
        \/ /\ ~repeated
           /\ reporte' = [t \in DOMAIN reporte \cup {r} |-> IF t = r THEN NewReporte(r) ELSE reporte[t]]
           /\ IF objetivo \in Contents
              THEN request' = [request EXCEPT ![r] = [IdleRequest EXCEPT !.phase = "asking", !.page = {r}]]
              ELSE Finish(r)
     /\ UNCHANGED <<published, auditoria, review>>

-----------------------------------------------------------------------------
(* GET /admin/reports                                                       *)

\* The rows as they are now.  Those of a content whose author is not known are asked for, a few: which ones
\* depends on the page, the filter and, for those that were asked for before, on AUTHOR_RETRY.
ListRead(r) ==
  LET unknown == {t \in DOMAIN reporte : reporte[t].objetivo_id \in Contents /\ reporte[t].autor_id = NULL}
  IN /\ request[r].phase = "idle"
     /\ \E page \in SUBSET unknown :
          /\ Cardinality(page) <= MaxLookups
          /\ request' = [request EXCEPT ![r] = [@ EXCEPT !.phase = "asking", !.page = page]]
     /\ UNCHANGED <<published, reporte, auditoria, review>>

-----------------------------------------------------------------------------
(* _find_author                                                             *)

\* The origin service answers with the author, says that the content is missing, or does not answer,
\* which ends the search of the request.
AskOrigin(r, t) ==
  LET c == reporte[t].objetivo_id
  IN /\ request[r].phase = "asking"
     /\ t \in request[r].page
     /\ \/ request' = [request EXCEPT ![r] = [@ EXCEPT !.phase = "answered", !.report = t,
                                                        !.page = request[r].page \ {t},
                                                        !.autor = IF c \in published THEN AuthorOf[c] ELSE NULL]]
        \/ Finish(r)
     /\ UNCHANGED <<published, reporte, auditoria, review>>

\* Mistake: the answers of a page are saved in the rows that come next.
AnsweredNext(r) == IF request[r].page = {} THEN request[r].report ELSE CHOOSE t \in request[r].page : TRUE

\* The row the answer is saved in.
Answered(r) == request[r].report

\* set_report_author, whatever the row holds by now.  An account deleted meanwhile still has its row in
\* usuario, so the subquery finds it.
StoreAuthor(r) ==
  /\ request[r].phase = "answered"
  /\ ~Locked(Answered(r))
  /\ reporte' = [reporte EXCEPT ![Answered(r)].autor_id = request[r].autor]
  /\ request' = [request EXCEPT ![r] = [@ EXCEPT !.phase = "asking", !.report = NULL, !.autor = NULL]]
  /\ UNCHANGED <<published, auditoria, review>>

\* The response, of a list or of a report.
Serve(r) ==
  /\ request[r].phase = "asking"
  /\ request[r].page = {}
  /\ Finish(r)
  /\ UNCHANGED <<published, reporte, auditoria, review>>

-----------------------------------------------------------------------------
(* PATCH /admin/reports/{id}                                                *)

\* Mistake: the SELECT takes no lock.
LockableAlways(t) == TRUE

\* SELECT ... FOR UPDATE waits for the review that holds the row.
Lockable(t) == ~Locked(t)

ReviewBegin(v, t, estado) ==
  /\ review[v].phase = "idle"
  /\ IF t \in DOMAIN reporte
     THEN /\ Lockable(t)
          /\ review' = [review EXCEPT ![v] = [phase |-> "locked", report |-> t, estado |-> estado,
                                              current |-> reporte[t].estado]]
     ELSE FinishReview(v)
  /\ UNCHANGED <<published, reporte, auditoria, request>>

\* The decision is a change, and one the report allows.
Changes(v) == <<review[v].current, review[v].estado>> \in Transitions

\* The same decision again changes nothing; another one that the report does not allow is refused.
ReviewNothing(v) ==
  /\ review[v].phase = "locked"
  /\ ~Changes(v)
  /\ FinishReview(v)
  /\ UNCHANGED <<published, reporte, auditoria, request>>

\* A database error, that of the audit insert included: rollback and 503.
ReviewUnavailable(v) ==
  /\ review[v].phase = "locked"
  /\ FinishReview(v)
  /\ UNCHANGED <<published, reporte, auditoria, request>>

\* The change and its audit row, in one transaction.
ReviewCommit(v) ==
  LET t == review[v].report
  IN /\ review[v].phase = "locked"
     /\ Changes(v)
     /\ reporte' = [reporte EXCEPT ![t] = [@ EXCEPT !.estado = review[v].estado, !.revisado_por = v]]
     /\ auditoria' = auditoria \cup {[report |-> t, desde |-> review[v].current, hasta |-> review[v].estado, by |-> v]}
     /\ FinishReview(v)
     /\ UNCHANGED <<published, request>>

-----------------------------------------------------------------------------
\* The content is deleted at its service.
Unpublish(c) ==
  /\ c \in published
  /\ published' = published \ {c}
  /\ UNCHANGED <<reporte, auditoria, request, review>>

\* A request stops between two transactions; that of a review is one (ReviewUnavailable).
Lost ==
  /\ \E r \in Posts \cup Lists : request[r].phase \notin {"idle", "done"} /\ Finish(r)
  /\ UNCHANGED <<published, reporte, auditoria, review>>

RequestStep(r) ==
  \/ r \in Posts /\ \E u \in Accounts, objetivo \in Accounts \cup Contents : PostArrive(r, u, objetivo)
  \/ r \in Posts /\ PostCreate(r)
  \/ r \in Lists /\ ListRead(r)
  \/ \E t \in request[r].page : AskOrigin(r, t)
  \/ StoreAuthor(r) \/ Serve(r)
ReviewStep(v) == \/ \E t \in Posts, estado \in Decision : ReviewBegin(v, t, estado)
                 \/ ReviewNothing(v) \/ ReviewUnavailable(v) \/ ReviewCommit(v)

Next == \/ Lost
        \/ \E c \in Contents : Unpublish(c)
        \/ \E r \in Posts \cup Lists : RequestStep(r)
        \/ \E v \in Reviews : ReviewStep(v)

Spec == Init /\ [][Next]_vars

-----------------------------------------------------------------------------
(* Properties                                                               *)

TypeOK ==
  /\ published \subseteq Contents
  /\ DOMAIN reporte \subseteq Posts /\ reporte \in [DOMAIN reporte -> Reporte]
  /\ auditoria \subseteq [report : Posts, desde : Estado, hasta : Decision, by : Reviews]
  /\ request \in [Posts \cup Lists ->
       [phase : {"idle", "creating", "asking", "answered", "done"}, user : Accounts \cup {NULL},
        objetivo_id : Accounts \cup Contents \cup {NULL},
        page : SUBSET Posts, report : Posts \cup {NULL}, autor : Accounts \cup {NULL}]]
  /\ review \in [Reviews -> [phase : {"idle", "locked", "done"}, report : Posts \cup {NULL},
                             estado : Decision \cup {NULL}, current : Estado \cup {NULL}]]

AuditOf(t) == {a \in auditoria : a.report = t}

\* The audit tells the story of every report, however many administrators decide at once: its rows form one path
\* from 'pendiente' to the state of the report, along REPORT_TRANSITIONS, and the last names who is in revisado_por.
AuditTrail ==
  /\ \A a \in auditoria : a.report \in DOMAIN reporte /\ <<a.desde, a.hasta>> \in Transitions
  /\ \A a, b \in auditoria : a.report = b.report /\ (a.desde = b.desde \/ a.hasta = b.hasta) => a = b
  /\ \A t \in DOMAIN reporte :
       /\ reporte[t].estado = "pendiente" => AuditOf(t) = {} /\ reporte[t].revisado_por = NULL
       /\ reporte[t].estado # "pendiente" =>
            \E a \in AuditOf(t) : a.hasta = reporte[t].estado /\ a.by = reporte[t].revisado_por
       /\ \A a \in AuditOf(t) :
            /\ a.hasta # reporte[t].estado => \E b \in AuditOf(t) : b.desde = a.hasta
            /\ a.desde # "pendiente" => \E b \in AuditOf(t) : b.hasta = a.desde

\* An author that is saved is the person who made the reported content: answers that arrive after the page
\* they were asked for has changed do not mix.
AuthorOfContent ==
  \A t \in DOMAIN reporte : reporte[t].autor_id # NULL =>
    /\ reporte[t].objetivo_id \in Contents
    /\ reporte[t].autor_id = AuthorOf[reporte[t].objetivo_id]

\* The state of a report moves along REPORT_TRANSITIONS from the state it really has, not from the one read
\* before: a decision that closes it stands.
TransitionStep ==
  \A t \in DOMAIN reporte :
    reporte'[t].estado # reporte[t].estado => <<reporte[t].estado, reporte'[t].estado>> \in Transitions
FirstDecisionStands == [][TransitionStep]_vars

\* "queda guardado: asi se puede sancionar a esa cuenta aunque el contenido se borre despues": an author that was
\* saved is not lost.
KeptStep ==
  \A t \in DOMAIN reporte : reporte[t].autor_id # NULL => reporte'[t].autor_id = reporte[t].autor_id
AuthorKept == [][KeptStep]_vars
=============================================================================
