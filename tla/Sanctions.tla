----------------------------- MODULE Sanctions -----------------------------
(***************************************************************************)
(* HU-45, suspension of accounts: SanctionService over the sanction part   *)
(* of PostgresUserRepository, and the checks that keep a suspended account *)
(* out (get_current_user, login, /internal/v1/accounts/{id}/status).       *)
(*                                                                         *)
(* FastAPI runs every handler in a thread of its own and every repository  *)
(* call is one PostgreSQL transaction, so a request is a sequence of       *)
(* atomic steps that other requests interleave with.  A request keeps what *)
(* it read (target, now) in local variables: they may be stale when used.  *)
(***************************************************************************)
EXTENDS Integers, FiniteSets

CONSTANTS Accounts,   \* every account ever created
          Admins,     \* the accounts with role admin
          Reports,    \* identifiers of reports, saved or not, that an administrator may cite
          Applies,    \* POST /admin/sanctions requests; each draws its own uuid4: they name the sanctions too
          Lifts,      \* POST /admin/sanctions/{id}/lift requests
          Calls,      \* requests of ordinary accounts and of the gateway
          NULL,       \* SQL NULL / None
          MaxTime,    \* bound: the last day of the model
          MaxDias     \* bound: the longest temporal sanction, in days

ASSUME ConstantsAssumption ==
  /\ Admins \subseteq Accounts
  /\ MaxTime \in Nat /\ MaxDias \in Nat
  /\ NULL \notin Nat /\ NULL \notin Accounts /\ NULL \notin Reports
  /\ NULL \notin Applies /\ NULL \notin Lifts
  /\ NULL \notin {"not_found", "not_escalated", "other_target"}

VARIABLES
  clock,         \* datetime.now(utc), in days
  is_active,     \* usuario.is_active
  reporte,       \* table reporte: the columns a sanction reads
  sancion,       \* table sancion, by id
  auditoria,     \* the SANCTION_* rows of the administrative audit
  notificacion,  \* table notificacion: the notices of HU-45
  apply,         \* local state of each apply request
  lift,          \* local state of each lift request
  call           \* local state of each call

requests == <<apply, lift, call>>
vars == <<clock, is_active, reporte, sancion, auditoria, notificacion, apply, lift, call>>

Duration == 1..MaxDias          \* SanctionCreate.dias; a permanent sanction has none
Estado == {"pendiente", "revisado", "descartado", "escalado"}

Sancion ==
  [usuario_id : Accounts, inicio : Nat, fin : Nat \cup {NULL}, reporte_id : Reports \cup {NULL},
   estado : {"activa", "levantada"}, levantada_en : Nat \cup {NULL}, levantada_por : Lifts \cup {NULL}]

\* A report is of a person, or of an activity or message whose author is looked up later (NULL: unknown).
Reporte == [tipo : {"usuario"}, objetivo_id : Accounts, autor_id : {NULL}, estado : Estado] \cup
           [tipo : {"contenido"}, objetivo_id : {NULL}, autor_id : Accounts \cup {NULL}, estado : Estado]
\* The account a report can lead to a sanction of.
NamedAccount(report) == IF report.tipo = "usuario" THEN report.objetivo_id ELSE report.autor_id

\* Mistake: the stored state alone, as if a job closed what ended.
InForceUntilClosed(row, t) == row.estado = "activa"
\* Mistake: the dates alone, as if lifting moved fin.
InForceByDates(row, t) == row.fin # NULL => row.fin > t

\* SanctionRecord.in_force_at, and the WHERE of get_active_sanction.
InForceAt(row, t) == row.estado = "activa" /\ (row.fin # NULL => row.fin > t)

SuspendedAt(u, t) ==
  \E s \in DOMAIN sancion : sancion[s].usuario_id = u /\ InForceAt(sancion[s], t)

-----------------------------------------------------------------------------
(* Local state of the requests.  A finished request keeps only its answer. *)

IdleApply == [phase |-> "idle", target |-> NULL, dias |-> NULL, reporte_id |-> NULL,
              now |-> 0, answer |-> "none"]
IdleLift  == [phase |-> "idle", sancion_id |-> NULL, now |-> 0, answer |-> "none"]
IdleCall  == [phase |-> "idle", kind |-> "none", user |-> NULL, now |-> 0, answer |-> "none"]

FinishApply(r, answer) ==
  apply' = [apply EXCEPT ![r] = [IdleApply EXCEPT !.phase = "done", !.answer = answer]]
FinishLift(r, answer) ==
  lift' = [lift EXCEPT ![r] = [IdleLift EXCEPT !.phase = "done", !.answer = answer]]
FinishCall(c, answer) ==
  call' = [call EXCEPT ![c] = [IdleCall EXCEPT !.phase = "done", !.answer = answer]]

Init ==
  /\ clock = 0
  /\ is_active = [u \in Accounts |-> TRUE]
  /\ \E saved \in SUBSET Reports : reporte \in [saved -> Reporte]
  /\ sancion = [s \in {} |-> NULL]
  /\ auditoria = {}
  /\ notificacion = {}
  /\ apply = [r \in Applies |-> IdleApply]
  /\ lift = [r \in Lifts |-> IdleLift]
  /\ call = [c \in Calls |-> IdleCall]

-----------------------------------------------------------------------------
(* POST /admin/sanctions                                                    *)

\* apply: the target is read (get_user); it must exist and not be an administrator.
ApplyLookUp(r, u, dias, report) ==
  /\ apply[r].phase = "idle"
  /\ \/ /\ ~is_active[u]
        /\ FinishApply(r, "unknown")
     \/ /\ is_active[u] /\ u \in Admins
        /\ FinishApply(r, "not_sanctionable")
     \/ /\ is_active[u] /\ u \notin Admins
        /\ apply' = [apply EXCEPT ![r] = [phase |-> "found", target |-> u, dias |-> dias,
                        reporte_id |-> report, now |-> 0, answer |-> "none"]]
  /\ UNCHANGED <<clock, is_active, reporte, sancion, auditoria, notificacion, lift, call>>

\* now = utcnow(), long before the transaction gets its connection and its lock.
\* Bound: a temporal sanction ends within the model's time.
ApplyReadClock(r) ==
  /\ apply[r].phase = "found"
  /\ apply[r].dias # NULL => clock + apply[r].dias <= MaxTime
  /\ apply' = [apply EXCEPT ![r] = [@ EXCEPT !.phase = "timed", !.now = clock]]
  /\ UNCHANGED <<clock, is_active, reporte, sancion, auditoria, notificacion, lift, call>>

\* Mistake: the closing forgets to compare fin with now.
ClosedTemporal(u, t) ==
  [s \in DOMAIN sancion |->
     IF sancion[s].usuario_id = u /\ sancion[s].estado = "activa" /\ sancion[s].fin # NULL
     THEN [sancion[s] EXCEPT !.estado = "levantada", !.levantada_en = sancion[s].fin]
     ELSE sancion[s]]
\* Mistake: the computed state 'vencida' is stored.
ClosedAsVencida(u, t) ==
  [s \in DOMAIN sancion |->
     IF sancion[s].usuario_id = u /\ sancion[s].estado = "activa" /\ sancion[s].fin # NULL /\ sancion[s].fin <= t
     THEN [sancion[s] EXCEPT !.estado = "vencida", !.levantada_en = sancion[s].fin]
     ELSE sancion[s]]

\* The table once the transaction has closed the sanctions of u that ended by time t.
ClosedExpired(u, t) ==
  [s \in DOMAIN sancion |->
     IF sancion[s].usuario_id = u /\ sancion[s].estado = "activa" /\ sancion[s].fin # NULL /\ sancion[s].fin <= t
     THEN [sancion[s] EXCEPT !.estado = "levantada", !.levantada_en = sancion[s].fin]
     ELSE sancion[s]]

\* Mistake: the conflict check compares fin with now, and misses the permanent ones, whose fin is NULL.
StillEnding(u, t) ==
  \E s \in DOMAIN sancion :
    sancion[s].usuario_id = u /\ sancion[s].estado = "activa" /\ sancion[s].fin # NULL /\ sancion[s].fin > t

\* SELECT ... estado = 'activa' after the closing; the unique index sancion_una_activa says the same.
StillActive(u, t) ==
  \E s \in DOMAIN sancion :
    /\ ClosedExpired(u, t)[s].usuario_id = u
    /\ ClosedExpired(u, t)[s].estado = "activa"

\* Mistake: only a report of a person is compared with the account.
ReportProblemPersonOnly(report, u) ==
  CASE report = NULL -> NULL
    [] report # NULL /\ report \notin DOMAIN reporte -> "not_found"
    [] report \in DOMAIN reporte /\ reporte[report].estado # "escalado" -> "not_escalated"
    [] report \in DOMAIN reporte /\ reporte[report].estado = "escalado" /\ reporte[report].tipo = "usuario"
         /\ reporte[report].objetivo_id # u -> "other_target"
    [] OTHER -> NULL

\* What the report check raises, in its order; NULL when the report may originate the sanction of u.
ReportProblem(report, u) ==
  CASE report = NULL -> NULL
    [] report # NULL /\ report \notin DOMAIN reporte -> "not_found"
    [] report \in DOMAIN reporte /\ reporte[report].estado # "escalado" -> "not_escalated"
    [] report \in DOMAIN reporte /\ reporte[report].estado = "escalado" /\ NamedAccount(reporte[report]) # u -> "other_target"
    [] OTHER -> NULL

\* apply_sanction refuses: the transaction rolls back, the closing of expired sanctions included.
ApplyRefused(r) ==
  LET u == apply[r].target
      t == apply[r].now
      problem == ReportProblem(apply[r].reporte_id, u)
  IN /\ apply[r].phase = "timed"
     /\ \/ ~is_active[u] /\ FinishApply(r, "unknown")
        \/ is_active[u] /\ StillActive(u, t) /\ FinishApply(r, "conflict")
        \/ is_active[u] /\ ~StillActive(u, t) /\ problem # NULL /\ FinishApply(r, problem)
     /\ UNCHANGED <<clock, is_active, reporte, sancion, auditoria, notificacion, lift, call>>

\* The row apply_sanction inserts.
NewSancion(r) ==
  [usuario_id |-> apply[r].target, inicio |-> apply[r].now,
   fin |-> IF apply[r].dias = NULL THEN NULL ELSE apply[r].now + apply[r].dias,
   reporte_id |-> apply[r].reporte_id, estado |-> "activa", levantada_en |-> NULL, levantada_por |-> NULL]

\* apply_sanction commits: closed rows, the new row and its audit row together, or nothing.
ApplyCommit(r) ==
  LET u == apply[r].target
      t == apply[r].now
  IN /\ apply[r].phase = "timed"
     /\ is_active[u]
     /\ ~StillActive(u, t)
     /\ ReportProblem(apply[r].reporte_id, u) = NULL
     /\ sancion' = [s \in DOMAIN sancion \cup {r} |-> IF s = r THEN NewSancion(r) ELSE ClosedExpired(u, t)[s]]
     /\ auditoria' = auditoria \cup {[action |-> "SANCTION_APPLIED", sancion_id |-> r, by |-> r]}
     /\ apply' = [apply EXCEPT ![r].phase = "notify"]
     /\ UNCHANGED <<clock, is_active, reporte, notificacion, lift, call>>

\* Mistake: the audit row is written in a transaction of its own, before the sanction.
ApplyUnavailableAudited(r) ==
  /\ apply[r].phase = "timed"
  /\ FinishApply(r, "unavailable")
  /\ auditoria' = auditoria \cup {[action |-> "SANCTION_APPLIED", sancion_id |-> r, by |-> r]}
  /\ UNCHANGED <<clock, is_active, reporte, sancion, notificacion, lift, call>>

\* A database error anywhere in the transaction, the audit insert included: rollback and 503.
ApplyUnavailable(r) ==
  /\ apply[r].phase = "timed"
  /\ FinishApply(r, "unavailable")
  /\ UNCHANGED <<clock, is_active, reporte, sancion, auditoria, notificacion, lift, call>>

\* _notify after the commit: a notice that cannot be saved is only logged.
ApplyNotify(r) ==
  /\ apply[r].phase = "notify"
  /\ \/ notificacion' = notificacion \cup
              {[usuario_id |-> apply[r].target, sancion_id |-> r, evento |-> "aplicada"]}
     \/ UNCHANGED notificacion
  /\ FinishApply(r, "created")
  /\ UNCHANGED <<clock, is_active, reporte, sancion, auditoria, lift, call>>

-----------------------------------------------------------------------------
(* POST /admin/sanctions/{id}/lift                                          *)

\* lift: now = utcnow() before the transaction.  The administrator names a sanction that
\* exists (its uuid4 is known only from the service) or an identifier no row has (NULL).
LiftReadClock(r, s) ==
  /\ lift[r].phase = "idle"
  /\ lift' = [lift EXCEPT ![r] = [phase |-> "timed", sancion_id |-> s, now |-> clock, answer |-> "none"]]
  /\ UNCHANGED <<clock, is_active, reporte, sancion, auditoria, notificacion, apply, call>>

\* Mistake: lift notifies whether or not lift_sanction changed the row.
LiftNothingNotified(r) ==
  LET s == lift[r].sancion_id
  IN /\ lift[r].phase = "timed"
     /\ \/ s = NULL /\ FinishLift(r, "unknown")
        \/ s # NULL /\ ~InForceAt(sancion[s], lift[r].now) /\ lift' = [lift EXCEPT ![r].phase = "look_up"]
     /\ UNCHANGED <<clock, is_active, reporte, sancion, auditoria, notificacion, apply, call>>

\* lift_sanction finds no row, or one already lifted or ended by the request's own now: nothing changes.
LiftNothing(r) ==
  LET s == lift[r].sancion_id
  IN /\ lift[r].phase = "timed"
     /\ \/ s = NULL /\ FinishLift(r, "unknown")
        \/ s # NULL /\ ~InForceAt(sancion[s], lift[r].now) /\ FinishLift(r, "unchanged")
     /\ UNCHANGED <<clock, is_active, reporte, sancion, auditoria, notificacion, apply, call>>

\* lift_sanction changes the row and writes its audit row in one transaction, under FOR UPDATE.
LiftCommit(r) ==
  LET s == lift[r].sancion_id
  IN /\ lift[r].phase = "timed"
     /\ s # NULL
     /\ InForceAt(sancion[s], lift[r].now)
     /\ sancion' = [sancion EXCEPT ![s] = [@ EXCEPT !.estado = "levantada", !.levantada_por = r,
                                                         !.levantada_en = lift[r].now]]
     /\ auditoria' = auditoria \cup {[action |-> "SANCTION_LIFTED", sancion_id |-> s, by |-> r]}
     /\ lift' = [lift EXCEPT ![r].phase = "look_up"]
     /\ UNCHANGED <<clock, is_active, reporte, notificacion, apply, call>>

LiftUnavailable(r) ==
  /\ lift[r].phase = "timed"
  /\ FinishLift(r, "unavailable")
  /\ UNCHANGED <<clock, is_active, reporte, sancion, auditoria, notificacion, apply, call>>

\* The account is read again (get_user): a deleted one gets no notice.
LiftLookUp(r) ==
  /\ lift[r].phase = "look_up"
  /\ IF is_active[sancion[lift[r].sancion_id].usuario_id]
     THEN lift' = [lift EXCEPT ![r].phase = "notify"]
     ELSE FinishLift(r, "lifted")
  /\ UNCHANGED <<clock, is_active, reporte, sancion, auditoria, notificacion, apply, call>>

LiftNotify(r) ==
  LET s == lift[r].sancion_id
  IN /\ lift[r].phase = "notify"
     /\ \/ notificacion' = notificacion \cup
                 {[usuario_id |-> sancion[s].usuario_id, sancion_id |-> s, evento |-> "levantada"]}
        \/ UNCHANGED notificacion
     /\ FinishLift(r, "lifted")
     /\ UNCHANGED <<clock, is_active, reporte, sancion, auditoria, apply, call>>

-----------------------------------------------------------------------------
(* What a sanction restricts: requests with a token (the one that changes   *)
(* this module's state is DELETE /users/me), login, and the gateway's       *)
(* question about an account.                                               *)

Restricted == <<clock, reporte, sancion, auditoria, notificacion, apply, lift>>

\* get_user / get_user_by_email find only active accounts; the gateway's question looks up no account.
CallArrive(c, kind, u) ==
  /\ call[c].phase = "idle"
  /\ \/ /\ kind # "status" /\ ~is_active[u]
        /\ FinishCall(c, "unauthorized")
     \/ /\ kind = "delete" /\ is_active[u] /\ u \in Admins      \* administrators skip the check
        /\ call' = [call EXCEPT ![c] = [IdleCall EXCEPT !.phase = "authorized", !.kind = kind, !.user = u]]
     \/ /\ kind = "status" \/ (is_active[u] /\ ~(kind = "delete" /\ u \in Admins))
        /\ call' = [call EXCEPT ![c] = [IdleCall EXCEPT !.phase = "found", !.kind = kind, !.user = u]]
  /\ UNCHANGED is_active /\ UNCHANGED Restricted

\* ensure_not_suspended evaluates utcnow() and then waits for a connection.
CallReadClock(c) ==
  /\ \/ call[c].phase = "found" /\ call' = [call EXCEPT ![c] = [@ EXCEPT !.phase = "timed", !.now = clock]]
     \/ call[c].phase = "checked" /\ call' = [call EXCEPT ![c] = [@ EXCEPT !.phase = "issuing", !.now = clock]]
  /\ UNCHANGED is_active /\ UNCHANGED Restricted

\* Mistake: the token is issued without checking again.
CallCheckOnce(c) ==
  LET suspended == SuspendedAt(call[c].user, call[c].now)
      kind == call[c].kind
  IN /\ call[c].phase \in {"timed", "issuing"}
     /\ \/ suspended /\ call[c].phase = "timed" /\ FinishCall(c, "suspended")
        \/ ~suspended /\ kind = "status" /\ FinishCall(c, "not_suspended")
        \/ /\ ~suspended /\ kind = "login" /\ call[c].phase = "timed"
           /\ call' = [call EXCEPT ![c].phase = "checked"]
        \/ kind = "login" /\ call[c].phase = "issuing" /\ FinishCall(c, "token")
        \/ ~suspended /\ kind = "delete" /\ call' = [call EXCEPT ![c].phase = "authorized"]
     /\ UNCHANGED is_active /\ UNCHANGED Restricted

\* get_active_sanction at the time read before.  A login is checked twice: before the audit
\* of its success and again by _issue_token.
CallCheck(c) ==
  LET suspended == SuspendedAt(call[c].user, call[c].now)
      kind == call[c].kind
  IN /\ call[c].phase \in {"timed", "issuing"}
     /\ \/ suspended /\ FinishCall(c, "suspended")
        \/ ~suspended /\ kind = "status" /\ FinishCall(c, "not_suspended")
        \/ /\ ~suspended /\ kind = "login" /\ call[c].phase = "timed"
           /\ call' = [call EXCEPT ![c].phase = "checked"]
        \/ ~suspended /\ kind = "login" /\ call[c].phase = "issuing" /\ FinishCall(c, "token")
        \/ ~suspended /\ kind = "delete" /\ call' = [call EXCEPT ![c].phase = "authorized"]
     /\ UNCHANGED is_active /\ UNCHANGED Restricted

\* delete_user: a logical deletion; the sanctions of the account stay.  An administrator deletes any account
\* (_authorize), and gets a 404 for one already deleted.
CallDelete(c) ==
  /\ call[c].phase = "authorized"
  /\ \E u \in Accounts :
       /\ u = call[c].user \/ call[c].user \in Admins
       /\ is_active' = [is_active EXCEPT ![u] = FALSE]
  /\ FinishCall(c, "served")
  /\ UNCHANGED Restricted

-----------------------------------------------------------------------------
\* Time passes. Bound: MaxTime.
Tick ==
  /\ clock < MaxTime
  /\ clock' = clock + 1
  /\ UNCHANGED <<is_active, reporte, sancion, auditoria, notificacion, apply, lift, call>>

Running == {"found", "timed", "notify", "look_up", "authorized", "checked", "issuing"}

\* The process dies, or a handler stops on an error after its transaction: the rest never happens.
Crash ==
  /\ \/ \E r \in Applies : apply[r].phase \in Running /\ FinishApply(r, "lost") /\ UNCHANGED <<lift, call>>
     \/ \E r \in Lifts : lift[r].phase \in Running /\ FinishLift(r, "lost") /\ UNCHANGED <<apply, call>>
     \/ \E c \in Calls : call[c].phase \in Running /\ FinishCall(c, "lost") /\ UNCHANGED <<apply, lift>>
  /\ UNCHANGED <<clock, is_active, reporte, sancion, auditoria, notificacion>>

ApplyStep(r) ==
  \/ \E u \in Accounts, dias \in Duration \cup {NULL}, report \in Reports \cup {NULL} :
        ApplyLookUp(r, u, dias, report)
  \/ ApplyReadClock(r) \/ ApplyRefused(r) \/ ApplyCommit(r) \/ ApplyUnavailable(r) \/ ApplyNotify(r)

LiftStep(r) ==
  \/ \E s \in DOMAIN sancion \cup {NULL} : LiftReadClock(r, s)
  \/ LiftNothing(r) \/ LiftCommit(r) \/ LiftUnavailable(r) \/ LiftLookUp(r) \/ LiftNotify(r)

CallStep(c) ==
  \/ \E kind \in {"delete", "login", "status"}, u \in Accounts : CallArrive(c, kind, u)
  \/ CallReadClock(c) \/ CallCheck(c) \/ CallDelete(c)

Next ==
  \/ Tick
  \/ Crash
  \/ \E r \in Applies : ApplyStep(r)
  \/ \E r \in Lifts : LiftStep(r)
  \/ \E c \in Calls : CallStep(c)

\* The only fairness assumed is that time goes on.
Spec == Init /\ [][Next]_vars /\ WF_vars(Tick)

-----------------------------------------------------------------------------
(* Properties                                                               *)

ApplyState ==
  [phase : {"idle", "found", "timed", "notify", "done"}, target : Accounts \cup {NULL},
   dias : Duration \cup {NULL}, reporte_id : Reports \cup {NULL}, now : Nat,
   answer : {"none", "unknown", "not_sanctionable", "conflict", "not_found", "not_escalated", "other_target",
             "unavailable", "created", "lost"}]
LiftState ==
  [phase : {"idle", "timed", "look_up", "notify", "done"}, sancion_id : Applies \cup {NULL}, now : Nat,
   answer : {"none", "unknown", "unchanged", "unavailable", "lifted", "lost"}]
CallState ==
  [phase : {"idle", "found", "timed", "checked", "issuing", "authorized", "done"},
   kind : {"none", "delete", "login", "status"}, user : Accounts \cup {NULL}, now : Nat,
   answer : {"none", "unauthorized", "suspended", "not_suspended", "token", "served", "lost"}]

\* Types of the tables and of the local state of the requests.
TypeOK ==
  /\ clock \in Nat
  /\ is_active \in [Accounts -> BOOLEAN]
  /\ DOMAIN reporte \subseteq Reports /\ reporte \in [DOMAIN reporte -> Reporte]
  /\ DOMAIN sancion \subseteq Applies
  /\ sancion \in [DOMAIN sancion -> Sancion]
  /\ auditoria \subseteq [action : {"SANCTION_APPLIED", "SANCTION_LIFTED"}, sancion_id : Applies,
                          by : Applies \cup Lifts]
  /\ notificacion \subseteq [usuario_id : Accounts, sancion_id : Applies, evento : {"aplicada", "levantada"}]
  /\ apply \in [Applies -> ApplyState]
  /\ lift \in [Lifts -> LiftState]
  /\ call \in [Calls -> CallState]

\* However many administrators sanction an account at once, and however stale the time each of them
\* read, the account never has two rows in state 'activa' (apply_sanction: lock, closing, conflict).
OneActiveSanction ==
  \A s1, s2 \in DOMAIN sancion :
    /\ sancion[s1].usuario_id = sancion[s2].usuario_id
    /\ sancion[s1].estado = "activa" /\ sancion[s2].estado = "activa"
    => s1 = s2

\* Every saved sanction has exactly one SANCTION_APPLIED row, every sanction lifted by an administrator
\* exactly one SANCTION_LIFTED row by the request that lifted it, and there is no other row: not for a
\* rollback, a repeated lift or an automatic closing (the audit is written in the same transaction).
AuditMatchesSanctions ==
  auditoria =
    {[action |-> "SANCTION_APPLIED", sancion_id |-> s, by |-> s] : s \in DOMAIN sancion} \cup
    {[action |-> "SANCTION_LIFTED", sancion_id |-> s, by |-> sancion[s].levantada_por] :
       s \in {x \in DOMAIN sancion : sancion[x].levantada_por # NULL}}

\* The period of a closed sanction is a real one: it ends after it began and never after its own fin,
\* although lift uses a time read before the row was locked; an automatic closing is dated at fin.
PeriodWellFormed ==
  \A s \in DOMAIN sancion :
    /\ sancion[s].fin # NULL => sancion[s].inicio < sancion[s].fin
    /\ (sancion[s].estado = "levantada") = (sancion[s].levantada_en # NULL)
    /\ sancion[s].estado = "levantada" =>
         /\ sancion[s].inicio <= sancion[s].levantada_en
         /\ sancion[s].fin # NULL => sancion[s].levantada_en <= sancion[s].fin
         /\ sancion[s].levantada_por = NULL => sancion[s].levantada_en = sancion[s].fin

\* A person is told of a suspension only once it is saved, and of its lifting only if an administrator
\* did lift it (_notify runs after the commit, and lift notifies only when it changed the row).
NoticesTruthful ==
  \A n \in notificacion :
    /\ n.sancion_id \in DOMAIN sancion
    /\ n.usuario_id = sancion[n.sancion_id].usuario_id
    /\ n.evento = "levantada" => sancion[n.sancion_id].levantada_por # NULL

\* What a request remembers is still true of the tables when it uses it, however late: times read are
\* past, a sanction not yet committed has no row, and a committed one is the account's and the lifter's.
RequestsConsistent ==
  /\ \A r \in Applies :
       /\ apply[r].now <= clock
       /\ apply[r].phase \in {"found", "timed", "notify"} => apply[r].target \in Accounts
       /\ r \in DOMAIN sancion => apply[r].phase \in {"notify", "done"}
       /\ apply[r].phase = "notify" => r \in DOMAIN sancion /\ sancion[r].usuario_id = apply[r].target
  /\ \A r \in Lifts :
       LET s == lift[r].sancion_id
       IN /\ lift[r].now <= clock
          /\ s # NULL => s \in DOMAIN sancion /\ sancion[s].inicio <= lift[r].now
          /\ lift[r].phase \in {"look_up", "notify"} => s # NULL /\ sancion[s].levantada_por = r
  /\ \A s \in DOMAIN sancion :
       /\ sancion[s].inicio <= clock
       /\ sancion[s].levantada_por # NULL => sancion[s].estado = "levantada"
  /\ \A c \in Calls :
       /\ call[c].now <= clock
       /\ call[c].phase \in {"found", "timed", "checked", "issuing", "authorized"} => call[c].user \in Accounts

\* A sanction that cites a report cites an escalated one about the sanctioned account
\* (here the reports stand still; how they change is module Reports).
ReportOrigin ==
  \A s \in DOMAIN sancion : sancion[s].reporte_id # NULL =>
    /\ sancion[s].reporte_id \in DOMAIN reporte
    /\ reporte[sancion[s].reporte_id].estado = "escalado"
    /\ NamedAccount(reporte[sancion[s].reporte_id]) = sancion[s].usuario_id

\* A saved sanction is never removed, what it says never changes, and once closed it never changes
\* again: a second lift, or a lift racing the closing by a new sanction, cannot rewrite the history.
HistoryStep ==
  /\ DOMAIN sancion \subseteq DOMAIN sancion'
  /\ \A s \in DOMAIN sancion :
       /\ sancion'[s].usuario_id = sancion[s].usuario_id /\ sancion'[s].reporte_id = sancion[s].reporte_id
       /\ sancion'[s].inicio = sancion[s].inicio /\ sancion'[s].fin = sancion[s].fin
       /\ sancion[s].estado = "levantada" => sancion'[s] = sancion[s]
HistoryFrozen == [][HistoryStep]_vars

\* An administrator gets a conflict only if a sanction of the account was in force at the time the
\* request read: a temporal sanction that ended by itself never blocks the next one.
ConflictStep ==
  \A r \in Applies : apply[r].answer # "conflict" /\ apply'[r].answer = "conflict" =>
    SuspendedAt(apply[r].target, apply[r].now)
ConflictJustified == [][ConflictStep]_vars

\* No request gets past the check, no token is issued and the gateway is told nothing good while a
\* sanction of the account is in force by the real clock, although the check uses an older time.
NotServedStep ==
  \A c \in Calls :
    /\ call[c].phase \in {"timed", "issuing"} /\ call'[c] # call[c]
    /\ call'[c].phase = "authorized" \/ call'[c].answer \in {"token", "not_suspended"}
    => ~SuspendedAt(call[c].user, clock)
SuspendedNotServed == [][NotServedStep]_vars

\* A temporal suspension ends by itself: no job and no administrator is needed.
TemporalEnds ==
  \A s \in Applies :
    (s \in DOMAIN sancion /\ sancion[s].fin # NULL)
      ~> (s \in DOMAIN sancion /\ ~InForceAt(sancion[s], clock))

\* The sanctions that bar each account: its rows in force by the real clock.
Barring == [u \in Accounts |->
  {[id |-> s, fin |-> sancion[s].fin] :
     s \in {x \in DOMAIN sancion : sancion[x].usuario_id = u /\ InForceAt(sancion[x], clock)}}]

\* Seen from outside, the rows and transactions behave as AccountSuspension: one sanction bars an account
\* at a time, and only an administrator's lift or the passing of its end frees it.
Suspension == INSTANCE AccountSuspension WITH barred <- Barring
SuspensionSpec == Suspension!AbsSpec
=============================================================================
