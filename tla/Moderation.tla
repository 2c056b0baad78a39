------------------------------ MODULE Moderation ------------------------------
(***************************************************************************)
(* Reports and Sanctions over one database: the reports are posted, their  *)
(* authors are looked up and decisions are made on them while a sanction   *)
(* that cites one is applied.  apply_sanction reads the report of the same *)
(* table FOR SHARE, so it waits for the review that holds its row.         *)
(***************************************************************************)
EXTENDS Reports

CONSTANTS Applies,            \* POST /admin/sanctions requests
          MaxTime, MaxDias    \* bounds

ASSUME ModerationAssumption ==
  /\ MaxTime \in Nat /\ MaxDias \in Nat
  /\ NULL \notin Applies /\ NULL \notin {"not_found", "not_escalated", "other_target"}

VARIABLES
  clock, is_active, sancion, notificacion, apply,  \* as in Sanctions
  sanciones_auditadas                              \* the SANCTION_* rows of the administrative audit

sanctionVars == <<clock, is_active, sancion, notificacion, apply, sanciones_auditadas>>

\* The columns of a report that apply_sanction reads.
Cited(report) ==
  IF report.objetivo_id \in Accounts
  THEN [tipo |-> "usuario", objetivo_id |-> report.objetivo_id, autor_id |-> NULL, estado |-> report.estado]
  ELSE [tipo |-> "contenido", objetivo_id |-> NULL, autor_id |-> report.autor_id, estado |-> report.estado]

\* Liftings, deletions of accounts and the calls of ordinary accounts are left to Sanctions.
S == INSTANCE Sanctions WITH
       Admins <- {}, Reports <- Posts, Lifts <- {}, Calls <- {},
       reporte <- [t \in DOMAIN reporte |-> Cited(reporte[t])], auditoria <- sanciones_auditadas,
       lift <- [r \in {} |-> NULL], call <- [c \in {} |-> NULL]

ModerationInit == Init /\ S!Init

\* SELECT ... FOR SHARE, when the transaction gets that far.
Waits(r) ==
  \/ ~is_active[apply[r].target]
  \/ S!StillActive(apply[r].target, apply[r].now)
  \/ ~Locked(apply[r].reporte_id)

Sanction(r) ==
  \/ \E u \in Accounts, dias \in S!Duration \cup {NULL}, t \in Posts \cup {NULL} : S!ApplyLookUp(r, u, dias, t)
  \/ S!ApplyReadClock(r)
  \/ S!ApplyUnavailable(r) \/ S!ApplyNotify(r)
  \/ apply[r].phase = "timed" /\ Waits(r) /\ (S!ApplyRefused(r) \/ S!ApplyCommit(r))

ModerationNext ==
  \/ Next /\ UNCHANGED sanctionVars
  \/ UNCHANGED vars /\ S!Tick
  \/ UNCHANGED vars /\ \E r \in Applies : Sanction(r)

moderationVars == <<vars, sanctionVars>>

\* The only fairness assumed is that time goes on.
ModerationSpec ==
  ModerationInit /\ [][ModerationNext]_moderationVars /\ WF_moderationVars(UNCHANGED vars /\ S!Tick)

-----------------------------------------------------------------------------
(* Properties                                                               *)

\* Every sanction that cites a report can be traced to a decision: the report is escalated, for good, an audit row says
\* so and who did it, and the account is the person reported or who really made the content, also when the author
\* was looked up, or lost again, while the sanction was on its way.
SanctionTraceable ==
  \A s \in DOMAIN sancion :
    LET t == sancion[s].reporte_id
    IN t # NULL =>
         /\ t \in DOMAIN reporte
         /\ reporte[t].estado = "escalado"
         /\ \E a \in auditoria : a.report = t /\ a.hasta = "escalado" /\ a.by = reporte[t].revisado_por
         /\ reporte[t].objetivo_id \in Accounts => sancion[s].usuario_id = reporte[t].objetivo_id
         /\ reporte[t].objetivo_id \in Contents => sancion[s].usuario_id = AuthorOf[reporte[t].objetivo_id]

\* A temporal sanction ends by itself, whatever happens to its report: only time has to go on.
TemporalEnds == S!TemporalEnds
=============================================================================
