-------------------------- MODULE SanctionsProofs --------------------------
(***************************************************************************)
(* What TLAPS proves of Sanctions for every value of the constants: any    *)
(* number of accounts, administrators, requests and days.                  *)
(***************************************************************************)
EXTENDS Sanctions, TLAPS

\* The inductive invariant: the properties of the tables, which need each other, and what the
\* requests in progress remember of them.
IInv ==
  /\ TypeOK
  /\ RequestsConsistent
  /\ OneActiveSanction
  /\ AuditMatchesSanctions
  /\ PeriodWellFormed
  /\ NoticesTruthful

\* The initial state: no sanction, no audit row, every request idle.
LEMMA InitIInv == Init => IInv
<1> SUFFICES ASSUME Init PROVE IInv
  OBVIOUS
<1>1. TypeOK
  BY ConstantsAssumption
     DEF Init, TypeOK, ApplyState, LiftState, CallState, IdleApply, IdleLift, IdleCall
<1>2. RequestsConsistent
  BY ConstantsAssumption DEF Init, RequestsConsistent, IdleApply, IdleLift, IdleCall
<1>3. OneActiveSanction /\ AuditMatchesSanctions /\ PeriodWellFormed /\ NoticesTruthful
  BY DEF Init, OneActiveSanction, AuditMatchesSanctions, PeriodWellFormed, NoticesTruthful
<1> QED
  BY <1>1, <1>2, <1>3 DEF IInv

\* A finished request is well typed.
LEMMA FinishedTypes ==
  /\ \A a \in {"unknown", "not_sanctionable", "conflict", "not_found", "not_escalated", "other_target",
               "unavailable", "created", "lost"} :
       [IdleApply EXCEPT !.phase = "done", !.answer = a] \in ApplyState
  /\ \A a \in {"unknown", "unchanged", "unavailable", "lifted", "lost"} :
       [IdleLift EXCEPT !.phase = "done", !.answer = a] \in LiftState
  /\ \A a \in {"unauthorized", "suspended", "not_suspended", "token", "served", "lost"} :
       [IdleCall EXCEPT !.phase = "done", !.answer = a] \in CallState
BY DEF IdleApply, IdleLift, IdleCall, ApplyState, LiftState, CallState

\* So is one that goes on.
LEMMA ChangedTypes ==
  /\ \A a \in ApplyState, t \in Nat : [a EXCEPT !.phase = "timed", !.now = t] \in ApplyState
  /\ \A a \in ApplyState : [a EXCEPT !.phase = "notify"] \in ApplyState
  /\ \A k \in CallState, t \in Nat, p \in {"timed", "issuing"} : [k EXCEPT !.phase = p, !.now = t] \in CallState
  /\ \A k \in CallState, p \in {"checked", "authorized"} : [k EXCEPT !.phase = p] \in CallState
<1>1. \A a \in ApplyState, t \in Nat : [a EXCEPT !.phase = "timed", !.now = t] \in ApplyState
  BY DEF ApplyState
<1>2. \A a \in ApplyState : [a EXCEPT !.phase = "notify"] \in ApplyState
  BY DEF ApplyState
<1>3. \A k \in CallState, t \in Nat, p \in {"timed", "issuing"} : [k EXCEPT !.phase = p, !.now = t] \in CallState
  BY DEF CallState
<1>4. \A k \in CallState, p \in {"checked", "authorized"} : [k EXCEPT !.phase = p] \in CallState
  BY DEF CallState
<1> QED
  BY <1>1, <1>2, <1>3, <1>4

\* The report check raises one of three problems.
LEMMA ReportProblemType ==
  ASSUME NEW report, NEW u, ReportProblem(report, u) # NULL
  PROVE  ReportProblem(report, u) \in {"not_found", "not_escalated", "other_target"}
BY DEF ReportProblem

\* The closing only changes rows of the table, and leaves every one of them a row.
LEMMA ClosedExpiredType ==
  ASSUME TypeOK, NEW u, NEW t
  PROVE  /\ DOMAIN ClosedExpired(u, t) = DOMAIN sancion
         /\ \A s \in DOMAIN sancion : ClosedExpired(u, t)[s] \in Sancion
<1>1. DOMAIN ClosedExpired(u, t) = DOMAIN sancion
  BY DEF ClosedExpired
<1>2. ASSUME NEW s \in DOMAIN sancion PROVE ClosedExpired(u, t)[s] \in Sancion
  <2>1. sancion[s] \in Sancion
    BY DEF TypeOK
  <2>2. sancion[s].fin # NULL => [sancion[s] EXCEPT !.estado = "levantada", !.levantada_en = sancion[s].fin] \in Sancion
    BY <2>1 DEF Sancion
  <2>3. CASE sancion[s].fin = NULL
    BY <2>1, <2>3 DEF ClosedExpired
  <2>4. CASE sancion[s].fin # NULL
    BY <2>1, <2>2, <2>4 DEF ClosedExpired
  <2> QED
    BY <2>3, <2>4
<1> QED
  BY <1>1, <1>2

\* Every step of an apply request keeps the types.
LEMMA ApplyStepTypeOK == ASSUME IInv, NEW r \in Applies, ApplyStep(r) PROVE TypeOK'
<1> USE DEF IInv, TypeOK
<1>1. ASSUME NEW u \in Accounts, NEW dias \in Duration \cup {NULL}, NEW report \in Reports \cup {NULL},
             ApplyLookUp(r, u, dias, report)
      PROVE TypeOK'
  <2>1. [phase |-> "found", target |-> u, dias |-> dias, reporte_id |-> report, now |-> 0, answer |-> "none"]
          \in ApplyState
    BY DEF ApplyState
  <2>2. apply' \in [Applies -> ApplyState]
    BY <1>1, <2>1, FinishedTypes DEF ApplyLookUp, FinishApply
  <2> QED
    BY <1>1, <2>2 DEF ApplyLookUp
<1>2. CASE ApplyReadClock(r)
  <2>1. apply' \in [Applies -> ApplyState]
    <3>1. [apply[r] EXCEPT !.phase = "timed", !.now = clock] \in ApplyState
      BY ChangedTypes
    <3>2. apply' = [apply EXCEPT ![r] = [apply[r] EXCEPT !.phase = "timed", !.now = clock]]
      BY <1>2 DEF ApplyReadClock
    <3> QED
      BY <3>1, <3>2
  <2> QED
    BY <1>2, <2>1 DEF ApplyReadClock
<1>3. CASE ApplyRefused(r)
  <2>1. apply' \in [Applies -> ApplyState]
    <3> DEFINE problem == ReportProblem(apply[r].reporte_id, apply[r].target)
    <3>1. PICK a \in {"unknown", "conflict", "not_found", "not_escalated", "other_target"} : FinishApply(r, a)
      <4>1. problem # NULL => problem \in {"not_found", "not_escalated", "other_target"}
        BY ReportProblemType
      <4> HIDE DEF problem
      <4>2. \/ FinishApply(r, "unknown")
            \/ FinishApply(r, "conflict")
            \/ problem # NULL /\ FinishApply(r, problem)
        BY <1>3 DEF ApplyRefused, problem
      <4> QED
        BY <4>1, <4>2
    <3> QED
      BY <3>1, FinishedTypes DEF FinishApply
  <2> QED
    BY <1>3, <2>1 DEF ApplyRefused
<1>4. CASE ApplyCommit(r)
  <2>1. apply' \in [Applies -> ApplyState]
    <3>1. [apply[r] EXCEPT !.phase = "notify"] \in ApplyState
      BY ChangedTypes
    <3>2. apply' = [apply EXCEPT ![r] = [apply[r] EXCEPT !.phase = "notify"]]
      BY <1>4 DEF ApplyCommit
    <3> QED
      BY <3>1, <3>2
  <2>2. NewSancion(r) \in Sancion
    BY <1>4, ConstantsAssumption DEF ApplyCommit, NewSancion, Sancion, RequestsConsistent, ApplyState, Duration
  <2>3. \A s \in DOMAIN sancion : ClosedExpired(apply[r].target, apply[r].now)[s] \in Sancion
    BY ClosedExpiredType
  <2>4. DOMAIN sancion' \subseteq Applies /\ sancion' \in [DOMAIN sancion' -> Sancion]
    BY <1>4, <2>2, <2>3 DEF ApplyCommit
  <2>5. auditoria' \subseteq [action : {"SANCTION_APPLIED", "SANCTION_LIFTED"}, sancion_id : Applies,
                             by : Applies \cup Lifts]
    BY <1>4 DEF ApplyCommit
  <2> QED
    BY <1>4, <2>1, <2>4, <2>5 DEF ApplyCommit
<1>5. CASE ApplyUnavailable(r)
  <2>1. apply' \in [Applies -> ApplyState]
    BY <1>5, FinishedTypes DEF ApplyUnavailable, FinishApply
  <2> QED
    BY <1>5, <2>1 DEF ApplyUnavailable
<1>6. CASE ApplyNotify(r)
  <2>1. apply' \in [Applies -> ApplyState]
    BY <1>6, FinishedTypes DEF ApplyNotify, FinishApply
  <2>2. apply[r].target \in Accounts
    BY <1>6 DEF ApplyNotify, RequestsConsistent
  <2> QED
    BY <1>6, <2>1, <2>2 DEF ApplyNotify
<1> QED
  BY <1>1, <1>2, <1>3, <1>4, <1>5, <1>6 DEF ApplyStep

\* Every step of a lift request keeps the types.
LEMMA LiftStepTypeOK == ASSUME IInv, NEW r \in Lifts, LiftStep(r) PROVE TypeOK'
<1> USE DEF IInv, TypeOK
<1>1. ASSUME NEW s \in DOMAIN sancion \cup {NULL}, LiftReadClock(r, s) PROVE TypeOK'
  <2>1. [phase |-> "timed", sancion_id |-> s, now |-> clock, answer |-> "none"] \in LiftState
    BY DEF LiftState
  <2>2. lift' \in [Lifts -> LiftState]
    BY <1>1, <2>1 DEF LiftReadClock
  <2> QED
    BY <1>1, <2>2 DEF LiftReadClock
<1>2. CASE LiftNothing(r)
  <2>1. lift' \in [Lifts -> LiftState]
    BY <1>2, FinishedTypes DEF LiftNothing, FinishLift
  <2> QED
    BY <1>2, <2>1 DEF LiftNothing
<1>3. CASE LiftCommit(r)
  <2> DEFINE s == lift[r].sancion_id
  <2>1. lift' \in [Lifts -> LiftState]
    <3>1. [lift[r] EXCEPT !.phase = "look_up"] \in LiftState
      BY DEF LiftState
    <3>2. lift' = [lift EXCEPT ![r] = [lift[r] EXCEPT !.phase = "look_up"]]
      BY <1>3 DEF LiftCommit
    <3> QED
      BY <3>1, <3>2
  <2>2. s \in DOMAIN sancion /\ s \in Applies
    BY <1>3 DEF LiftCommit, RequestsConsistent
  <2>3. sancion' = [sancion EXCEPT ![s] = [sancion[s] EXCEPT !.estado = "levantada", !.levantada_por = r,
                                                           !.levantada_en = lift[r].now]]
    BY <1>3 DEF LiftCommit
  <2>4. [sancion[s] EXCEPT !.estado = "levantada", !.levantada_por = r, !.levantada_en = lift[r].now] \in Sancion
    <3>1. sancion[s] \in Sancion /\ lift[r].now \in Nat
      BY <2>2 DEF LiftState
    <3> HIDE DEF s
    <3> QED
      BY <3>1 DEF Sancion
  <2>5. DOMAIN sancion' \subseteq Applies /\ sancion' \in [DOMAIN sancion' -> Sancion]
    BY <2>3, <2>4
  <2>6. auditoria' \subseteq [action : {"SANCTION_APPLIED", "SANCTION_LIFTED"}, sancion_id : Applies,
                             by : Applies \cup Lifts]
    BY <1>3, <2>2 DEF LiftCommit
  <2> QED
    BY <1>3, <2>1, <2>5, <2>6 DEF LiftCommit
<1>4. CASE LiftUnavailable(r)
  <2>1. lift' \in [Lifts -> LiftState]
    BY <1>4, FinishedTypes DEF LiftUnavailable, FinishLift
  <2> QED
    BY <1>4, <2>1 DEF LiftUnavailable
<1>5. CASE LiftLookUp(r)
  <2>1. lift' \in [Lifts -> LiftState]
    <3>1. [lift[r] EXCEPT !.phase = "notify"] \in LiftState
      BY DEF LiftState
    <3>2. lift' = [lift EXCEPT ![r] = [lift[r] EXCEPT !.phase = "notify"]] \/ FinishLift(r, "lifted")
      BY <1>5 DEF LiftLookUp
    <3> QED
      BY <3>1, <3>2, FinishedTypes DEF FinishLift
  <2> QED
    BY <1>5, <2>1 DEF LiftLookUp
<1>6. CASE LiftNotify(r)
  <2>1. lift' \in [Lifts -> LiftState]
    BY <1>6, FinishedTypes DEF LiftNotify, FinishLift
  <2>2. lift[r].sancion_id \in DOMAIN sancion
    BY <1>6 DEF LiftNotify, RequestsConsistent
  <2>3. lift[r].sancion_id \in Applies /\ sancion[lift[r].sancion_id].usuario_id \in Accounts
    BY <2>2 DEF Sancion
  <2>4. notificacion' \subseteq [usuario_id : Accounts, sancion_id : Applies, evento : {"aplicada", "levantada"}]
    BY <1>6, <2>3 DEF LiftNotify
  <2> QED
    BY <1>6, <2>1, <2>4 DEF LiftNotify
<1> QED
  BY <1>1, <1>2, <1>3, <1>4, <1>5, <1>6 DEF LiftStep

\* Every step of a call keeps the types.
LEMMA CallStepTypeOK == ASSUME IInv, NEW c \in Calls, CallStep(c) PROVE TypeOK'
<1> USE DEF IInv, TypeOK, Restricted
<1>1. ASSUME NEW kind \in {"delete", "login", "status"}, NEW u \in Accounts, CallArrive(c, kind, u)
      PROVE TypeOK'
  <2>1. \A p \in {"authorized", "found"} :
          [IdleCall EXCEPT !.phase = p, !.kind = kind, !.user = u] \in CallState
    BY DEF IdleCall, CallState
  <2>2. call' \in [Calls -> CallState]
    BY <1>1, <2>1, FinishedTypes DEF CallArrive, FinishCall
  <2> QED
    BY <1>1, <2>2 DEF CallArrive
<1>2. CASE CallReadClock(c)
  <2>1. \A p \in {"timed", "issuing"} : [call[c] EXCEPT !.phase = p, !.now = clock] \in CallState
    BY ChangedTypes
  <2>2. PICK p \in {"timed", "issuing"} : call' = [call EXCEPT ![c] = [call[c] EXCEPT !.phase = p, !.now = clock]]
    BY <1>2 DEF CallReadClock
  <2>3. call' \in [Calls -> CallState]
    BY <2>1, <2>2
  <2> QED
    BY <1>2, <2>3 DEF CallReadClock
<1>3. CASE CallCheck(c)
  <2>1. \A p \in {"checked", "authorized"} : [call[c] EXCEPT !.phase = p] \in CallState
    BY ChangedTypes
  <2>2. \/ \E a \in {"suspended", "not_suspended", "token"} : FinishCall(c, a)
        \/ \E p \in {"checked", "authorized"} : call' = [call EXCEPT ![c] = [call[c] EXCEPT !.phase = p]]
    BY <1>3 DEF CallCheck
  <2>3. call' \in [Calls -> CallState]
    BY <2>1, <2>2, FinishedTypes DEF FinishCall
  <2> QED
    BY <1>3, <2>3 DEF CallCheck
<1>4. CASE CallDelete(c)
  <2>1. call' \in [Calls -> CallState]
    BY <1>4, FinishedTypes DEF CallDelete, FinishCall
  <2> QED
    BY <1>4, <2>1 DEF CallDelete
<1> QED
  BY <1>1, <1>2, <1>3, <1>4 DEF CallStep

\* Every step keeps the types.
LEMMA StepTypeOK == ASSUME IInv, [Next]_vars PROVE TypeOK'
<1>1. CASE UNCHANGED vars
  BY <1>1 DEF vars, IInv, TypeOK
<1>2. CASE Tick
  BY <1>2 DEF Tick, IInv, TypeOK
<1>3. CASE Crash
  <2>1. /\ apply' \in [Applies -> ApplyState]
        /\ lift' \in [Lifts -> LiftState]
        /\ call' \in [Calls -> CallState]
    BY <1>3, FinishedTypes DEF Crash, FinishApply, FinishLift, FinishCall, IInv, TypeOK
  <2> QED
    BY <1>3, <2>1 DEF Crash, IInv, TypeOK
<1> QED
  BY <1>1, <1>2, <1>3, ApplyStepTypeOK, LiftStepTypeOK, CallStepTypeOK DEF Next

-----------------------------------------------------------------------------
\* What the closing does to each row: nothing, or it closes a temporal one that ended, dated at its end.
LEMMA ClosedExpiredRow ==
  ASSUME TypeOK, NEW u, NEW t, NEW s \in DOMAIN sancion
  PROVE  LET old == sancion[s]
             new == ClosedExpired(u, t)[s]
         IN /\ new.usuario_id = old.usuario_id /\ new.inicio = old.inicio /\ new.fin = old.fin
            /\ new.reporte_id = old.reporte_id /\ new.levantada_por = old.levantada_por
            /\ \/ new = old
               \/ /\ old.usuario_id = u /\ old.estado = "activa" /\ old.fin # NULL /\ old.fin <= t
                  /\ new.estado = "levantada" /\ new.levantada_en = old.fin
<1>1. sancion[s] \in Sancion
  BY DEF TypeOK
<1> DEFINE ends == /\ sancion[s].usuario_id = u /\ sancion[s].estado = "activa"
                   /\ sancion[s].fin # NULL /\ sancion[s].fin <= t
<1>2. CASE ends
  <2>1. ClosedExpired(u, t)[s] = [sancion[s] EXCEPT !.estado = "levantada", !.levantada_en = sancion[s].fin]
    BY <1>2 DEF ClosedExpired
  <2> QED
    BY <1>1, <1>2, <2>1 DEF Sancion
<1>3. CASE ~ends
  BY <1>3 DEF ClosedExpired
<1> QED
  BY <1>2, <1>3

\* What a committed apply does to the table.
LEMMA ApplyCommitEffect ==
  ASSUME IInv, NEW r \in Applies, ApplyCommit(r)
  PROVE  LET u == apply[r].target
             t == apply[r].now
         IN /\ r \notin DOMAIN sancion
            /\ DOMAIN sancion' = DOMAIN sancion \cup {r}
            /\ sancion'[r] = NewSancion(r)
            /\ \A s \in DOMAIN sancion : sancion'[s] = ClosedExpired(u, t)[s]
            /\ u \in Accounts /\ t \in Nat /\ t <= clock /\ apply[r].dias \in Duration \cup {NULL}
            /\ \A s \in DOMAIN sancion : ~(sancion'[s].usuario_id = u /\ sancion'[s].estado = "activa")
<1>1. r \notin DOMAIN sancion
  BY DEF ApplyCommit, IInv, RequestsConsistent
<1>2. sancion' = [s \in DOMAIN sancion \cup {r} |->
                    IF s = r THEN NewSancion(r) ELSE ClosedExpired(apply[r].target, apply[r].now)[s]]
  BY DEF ApplyCommit
<1>3. apply[r] \in ApplyState
  BY DEF IInv, TypeOK
<1>4. apply[r].target \in Accounts /\ apply[r].now <= clock
  BY DEF ApplyCommit, IInv, RequestsConsistent
<1>5. \A s \in DOMAIN sancion : ~(/\ ClosedExpired(apply[r].target, apply[r].now)[s].usuario_id = apply[r].target
                                  /\ ClosedExpired(apply[r].target, apply[r].now)[s].estado = "activa")
  BY DEF ApplyCommit, StillActive
<1> QED
  BY <1>1, <1>2, <1>3, <1>4, <1>5 DEF ApplyState

\* What it does to the rows that were there, and the row it adds.
LEMMA ApplyCommitRows ==
  ASSUME IInv, NEW r \in Applies, ApplyCommit(r)
  PROVE  /\ \A s \in DOMAIN sancion :
              /\ sancion'[s].usuario_id = sancion[s].usuario_id /\ sancion'[s].inicio = sancion[s].inicio
              /\ sancion'[s].fin = sancion[s].fin /\ sancion'[s].reporte_id = sancion[s].reporte_id
              /\ sancion'[s].levantada_por = sancion[s].levantada_por
              /\ \/ sancion'[s] = sancion[s]
                 \/ /\ sancion[s].estado = "activa" /\ sancion[s].fin # NULL /\ sancion[s].fin <= apply[r].now
                    /\ sancion'[s].estado = "levantada" /\ sancion'[s].levantada_en = sancion[s].fin
         /\ /\ sancion'[r].usuario_id = apply[r].target /\ sancion'[r].inicio = apply[r].now
            /\ sancion'[r].estado = "activa" /\ sancion'[r].levantada_en = NULL
            /\ sancion'[r].levantada_por = NULL /\ sancion'[r].reporte_id = apply[r].reporte_id
            /\ sancion'[r].fin = IF apply[r].dias = NULL THEN NULL ELSE apply[r].now + apply[r].dias
<1>1. ASSUME NEW s \in DOMAIN sancion
      PROVE  /\ sancion'[s].usuario_id = sancion[s].usuario_id /\ sancion'[s].inicio = sancion[s].inicio
             /\ sancion'[s].fin = sancion[s].fin /\ sancion'[s].reporte_id = sancion[s].reporte_id
             /\ sancion'[s].levantada_por = sancion[s].levantada_por
             /\ \/ sancion'[s] = sancion[s]
                \/ /\ sancion[s].estado = "activa" /\ sancion[s].fin # NULL /\ sancion[s].fin <= apply[r].now
                   /\ sancion'[s].estado = "levantada" /\ sancion'[s].levantada_en = sancion[s].fin
  <2>1. sancion'[s] = ClosedExpired(apply[r].target, apply[r].now)[s]
    BY ApplyCommitEffect
  <2>2. TypeOK
    BY DEF IInv
  <2> DEFINE u == apply[r].target
             t == apply[r].now
  <2>3. sancion'[s] = ClosedExpired(u, t)[s]
    BY <2>1
  <2> HIDE DEF u, t
  <2>4. LET old == sancion[s]
            new == ClosedExpired(u, t)[s]
         IN /\ new.usuario_id = old.usuario_id /\ new.inicio = old.inicio /\ new.fin = old.fin
            /\ new.reporte_id = old.reporte_id /\ new.levantada_por = old.levantada_por
            /\ \/ new = old
               \/ /\ old.usuario_id = u /\ old.estado = "activa" /\ old.fin # NULL /\ old.fin <= t
                  /\ new.estado = "levantada" /\ new.levantada_en = old.fin
    BY <2>2, ClosedExpiredRow
  <2> QED
    BY <2>3, <2>4 DEF t
<1>2. sancion'[r] = NewSancion(r)
  BY ApplyCommitEffect
<1> QED
  BY <1>1, <1>2 DEF NewSancion

\* What a committed lift does to the table.
LEMMA LiftCommitEffect ==
  ASSUME IInv, NEW r \in Lifts, LiftCommit(r)
  PROVE  LET s == lift[r].sancion_id
         IN /\ s \in DOMAIN sancion
            /\ InForceAt(sancion[s], lift[r].now)
            /\ DOMAIN sancion' = DOMAIN sancion
            /\ \A x \in DOMAIN sancion : x # s => sancion'[x] = sancion[x]
            /\ sancion'[s].usuario_id = sancion[s].usuario_id /\ sancion'[s].inicio = sancion[s].inicio
            /\ sancion'[s].fin = sancion[s].fin /\ sancion'[s].reporte_id = sancion[s].reporte_id
            /\ sancion'[s].estado = "levantada" /\ sancion'[s].levantada_por = r
            /\ sancion'[s].levantada_en = lift[r].now
            /\ lift[r].now \in Nat /\ lift[r].now <= clock /\ sancion[s].inicio <= lift[r].now
<1> DEFINE s == lift[r].sancion_id
<1>1. s \in DOMAIN sancion /\ lift[r].now <= clock /\ sancion[s].inicio <= lift[r].now
  BY DEF LiftCommit, IInv, RequestsConsistent
<1>2. sancion[s] \in Sancion /\ lift[r] \in LiftState
  BY <1>1 DEF IInv, TypeOK
<1>3. sancion' = [sancion EXCEPT ![s] = [sancion[s] EXCEPT !.estado = "levantada", !.levantada_por = r,
                                                         !.levantada_en = lift[r].now]]
  BY DEF LiftCommit
<1>4. InForceAt(sancion[s], lift[r].now)
  BY DEF LiftCommit
<1>5. lift[r].now \in Nat
  BY <1>2 DEF LiftState
<1> HIDE DEF s
<1>6. /\ sancion'[s] = [sancion[s] EXCEPT !.estado = "levantada", !.levantada_por = r, !.levantada_en = lift[r].now]
      /\ DOMAIN sancion' = DOMAIN sancion
      /\ \A x \in DOMAIN sancion : x # s => sancion'[x] = sancion[x]
  BY <1>1, <1>3
<1>7. /\ sancion'[s].usuario_id = sancion[s].usuario_id /\ sancion'[s].inicio = sancion[s].inicio
      /\ sancion'[s].fin = sancion[s].fin /\ sancion'[s].reporte_id = sancion[s].reporte_id
      /\ sancion'[s].estado = "levantada" /\ sancion'[s].levantada_por = r
      /\ sancion'[s].levantada_en = lift[r].now
  BY <1>2, <1>6 DEF Sancion
<1> QED
  BY <1>1, <1>4, <1>5, <1>6, <1>7 DEF s

\* Only the two committing transactions touch the sanctions and their audit.
LEMMA TablesChange ==
  ASSUME [Next]_vars
  PROVE  \/ \E r \in Applies : ApplyCommit(r)
         \/ \E r \in Lifts : LiftCommit(r)
         \/ sancion' = sancion /\ auditoria' = auditoria
<1>1. ASSUME NEW r \in Applies, ApplyStep(r), ~ApplyCommit(r) PROVE sancion' = sancion /\ auditoria' = auditoria
  BY <1>1 DEF ApplyStep, ApplyLookUp, ApplyReadClock, ApplyRefused, ApplyUnavailable, ApplyNotify
<1>2. ASSUME NEW r \in Lifts, LiftStep(r), ~LiftCommit(r) PROVE sancion' = sancion /\ auditoria' = auditoria
  BY <1>2 DEF LiftStep, LiftReadClock, LiftNothing, LiftUnavailable, LiftLookUp, LiftNotify
<1>3. ASSUME NEW c \in Calls, CallStep(c) PROVE sancion' = sancion /\ auditoria' = auditoria
  BY <1>3 DEF CallStep, CallArrive, CallReadClock, CallCheck, CallDelete, Restricted
<1>4. CASE Tick \/ Crash \/ UNCHANGED vars
  BY <1>4 DEF Tick, Crash, vars
<1> QED
  BY <1>1, <1>2, <1>3, <1>4 DEF Next

\* Only a tick moves the clock.
LEMMA ClockFrame == ASSUME [Next]_vars PROVE Tick \/ clock' = clock
<1>1. ASSUME NEW r \in Applies, ApplyStep(r) PROVE clock' = clock
  BY <1>1 DEF ApplyStep, ApplyLookUp, ApplyReadClock, ApplyRefused, ApplyCommit, ApplyUnavailable, ApplyNotify
<1>2. ASSUME NEW r \in Lifts, LiftStep(r) PROVE clock' = clock
  BY <1>2 DEF LiftStep, LiftReadClock, LiftNothing, LiftCommit, LiftUnavailable, LiftLookUp, LiftNotify
<1>3. ASSUME NEW c \in Calls, CallStep(c) PROVE clock' = clock
  BY <1>3 DEF CallStep, CallArrive, CallReadClock, CallCheck, CallDelete, Restricted
<1>4. Crash \/ UNCHANGED vars => clock' = clock
  BY DEF Crash, vars
<1> QED
  BY <1>1, <1>2, <1>3, <1>4 DEF Next

\* The clock never goes back.
LEMMA ClockMonotone == ASSUME TypeOK, [Next]_vars PROVE clock' \in Nat /\ clock <= clock'
BY ClockFrame DEF Tick, TypeOK

\* No step makes a second row of an account 'activa': a new one comes only when none was left.
LEMMA StepOneActive == ASSUME IInv, [Next]_vars PROVE OneActiveSanction'
<1> SUFFICES ASSUME NEW s1 \in DOMAIN sancion', NEW s2 \in DOMAIN sancion',
                    sancion'[s1].usuario_id = sancion'[s2].usuario_id,
                    sancion'[s1].estado = "activa", sancion'[s2].estado = "activa"
             PROVE  s1 = s2
  BY DEF OneActiveSanction
<1>1. ASSUME NEW r \in Applies, ApplyCommit(r) PROVE s1 = s2
  <2>1. /\ DOMAIN sancion' = DOMAIN sancion \cup {r}
        /\ \A s \in DOMAIN sancion : ~(sancion'[s].usuario_id = apply[r].target /\ sancion'[s].estado = "activa")
    BY <1>1, ApplyCommitEffect
  <2>2. CASE s1 = r \/ s2 = r
    <3>1. sancion'[r].usuario_id = apply[r].target
      BY <1>1, ApplyCommitRows
    <3> QED
      BY <2>1, <2>2, <3>1
  <2>3. CASE s1 # r /\ s2 # r
    <3>1. s1 \in DOMAIN sancion /\ s2 \in DOMAIN sancion
      BY <2>1, <2>3
    <3>2. \A s \in {s1, s2} : sancion[s].estado = "activa" /\ sancion'[s].usuario_id = sancion[s].usuario_id
      BY <1>1, <3>1, ApplyCommitRows
    <3> QED
      BY <3>1, <3>2 DEF IInv, OneActiveSanction
  <2> QED
    BY <2>2, <2>3
<1>2. ASSUME NEW r \in Lifts, LiftCommit(r) PROVE s1 = s2
  BY <1>2, LiftCommitEffect DEF IInv, OneActiveSanction
<1>3. CASE sancion' = sancion
  BY <1>3 DEF IInv, OneActiveSanction
<1> QED
  BY <1>1, <1>2, <1>3, TablesChange

\* No step separates the audit from the sanctions.
LEMMA StepAudit == ASSUME IInv, [Next]_vars PROVE AuditMatchesSanctions'
<1> DEFINE applied(s) == [action |-> "SANCTION_APPLIED", sancion_id |-> s, by |-> s]
           lifted(s, l) == [action |-> "SANCTION_LIFTED", sancion_id |-> s, by |-> l]
<1>1. auditoria = {applied(s) : s \in DOMAIN sancion} \cup
                  {lifted(s, sancion[s].levantada_por) : s \in {x \in DOMAIN sancion : sancion[x].levantada_por # NULL}}
  BY DEF IInv, AuditMatchesSanctions
<1> SUFFICES auditoria' = {applied(s) : s \in DOMAIN sancion'} \cup
               {lifted(s, sancion'[s].levantada_por) : s \in {x \in DOMAIN sancion' : sancion'[x].levantada_por # NULL}}
  BY DEF AuditMatchesSanctions
<1>2. ASSUME NEW r \in Applies, ApplyCommit(r)
      PROVE  auditoria' = {applied(s) : s \in DOMAIN sancion'} \cup
               {lifted(s, sancion'[s].levantada_por) : s \in {x \in DOMAIN sancion' : sancion'[x].levantada_por # NULL}}
  <2>1. auditoria' = auditoria \cup {applied(r)}
    BY <1>2 DEF ApplyCommit
  <2>2. DOMAIN sancion' = DOMAIN sancion \cup {r} /\ sancion'[r].levantada_por = NULL
    BY <1>2, ApplyCommitEffect, ApplyCommitRows
  <2>3. \A s \in DOMAIN sancion : sancion'[s].levantada_por = sancion[s].levantada_por
    BY <1>2, ApplyCommitRows
  <2> HIDE DEF applied, lifted
  <2> QED
    BY <1>1, <2>1, <2>2, <2>3
<1>3. ASSUME NEW r \in Lifts, LiftCommit(r)
      PROVE  auditoria' = {applied(s) : s \in DOMAIN sancion'} \cup
               {lifted(s, sancion'[s].levantada_por) : s \in {x \in DOMAIN sancion' : sancion'[x].levantada_por # NULL}}
  <2> DEFINE s0 == lift[r].sancion_id
  <2>1. auditoria' = auditoria \cup {lifted(s0, r)}
    BY <1>3 DEF LiftCommit
  <2>2. /\ s0 \in DOMAIN sancion /\ DOMAIN sancion' = DOMAIN sancion
        /\ sancion'[s0].levantada_por = r
        /\ \A x \in DOMAIN sancion : x # s0 => sancion'[x] = sancion[x]
    BY <1>3, LiftCommitEffect
  <2>3. sancion[s0].levantada_por = NULL /\ r # NULL
    BY <1>3, <2>2, LiftCommitEffect, ConstantsAssumption DEF InForceAt, IInv, RequestsConsistent
  <2> HIDE DEF applied, lifted, s0
  <2> QED
    BY <1>1, <2>1, <2>2, <2>3
<1>4. CASE sancion' = sancion /\ auditoria' = auditoria
  BY <1>1, <1>4
<1> QED
  BY <1>2, <1>3, <1>4, TablesChange

\* No step leaves a sanction with a period that is not one.
LEMMA StepPeriod == ASSUME IInv, [Next]_vars PROVE PeriodWellFormed'
<1> SUFFICES ASSUME NEW s \in DOMAIN sancion'
             PROVE  /\ sancion'[s].fin # NULL => sancion'[s].inicio < sancion'[s].fin
                    /\ (sancion'[s].estado = "levantada") = (sancion'[s].levantada_en # NULL)
                    /\ sancion'[s].estado = "levantada" =>
                         /\ sancion'[s].inicio <= sancion'[s].levantada_en
                         /\ sancion'[s].fin # NULL => sancion'[s].levantada_en <= sancion'[s].fin
                         /\ sancion'[s].levantada_por = NULL => sancion'[s].levantada_en = sancion'[s].fin
  BY DEF PeriodWellFormed
<1>0. \A x \in DOMAIN sancion : sancion[x] \in Sancion
  BY DEF IInv, TypeOK
<1>1. ASSUME NEW r \in Applies, ApplyCommit(r), s = r
      PROVE  /\ sancion'[s].fin # NULL => sancion'[s].inicio < sancion'[s].fin
             /\ sancion'[s].estado = "activa" /\ sancion'[s].levantada_en = NULL
  <2>1. apply[r].now \in Nat /\ apply[r].dias \in Duration \cup {NULL}
    BY <1>1, ApplyCommitEffect
  <2>2. apply[r].dias # NULL => apply[r].now < apply[r].now + apply[r].dias
    BY <2>1, ConstantsAssumption DEF Duration
  <2>3. /\ sancion'[s].estado = "activa" /\ sancion'[s].levantada_en = NULL /\ sancion'[s].inicio = apply[r].now
        /\ sancion'[s].fin = IF apply[r].dias = NULL THEN NULL ELSE apply[r].now + apply[r].dias
    BY <1>1, ApplyCommitRows
  <2> QED
    BY <2>2, <2>3
<1>2. ASSUME NEW r \in Applies, ApplyCommit(r), s # r
      PROVE  \/ sancion'[s] = sancion[s]
             \/ /\ sancion[s].fin # NULL /\ sancion'[s].fin = sancion[s].fin
                /\ sancion'[s].inicio = sancion[s].inicio
                /\ sancion'[s].estado = "levantada" /\ sancion'[s].levantada_en = sancion[s].fin
  <2>1. s \in DOMAIN sancion
    BY <1>2, ApplyCommitEffect
  <2> QED
    BY <1>2, <2>1, ApplyCommitRows
<1>3. ASSUME NEW r \in Lifts, LiftCommit(r)
      PROVE  \/ sancion'[s] = sancion[s]
             \/ /\ InForceAt(sancion[s], lift[r].now)
                /\ sancion'[s].fin = sancion[s].fin /\ sancion'[s].inicio = sancion[s].inicio
                /\ sancion'[s].estado = "levantada" /\ sancion'[s].levantada_en = lift[r].now
                /\ sancion'[s].levantada_por # NULL
                /\ lift[r].now \in Nat /\ sancion[s].inicio <= lift[r].now
  BY <1>3, LiftCommitEffect, ConstantsAssumption
<1>4. ASSUME NEW r \in Applies, ApplyCommit(r), s # r PROVE s \in DOMAIN sancion
  BY <1>4, ApplyCommitEffect
<1>5. ASSUME NEW r \in Lifts, LiftCommit(r) PROVE s \in DOMAIN sancion
  BY <1>5, LiftCommitEffect
<1>6. ASSUME NEW x \in DOMAIN sancion
      PROVE  /\ sancion[x].fin \in Nat \cup {NULL} /\ sancion[x].inicio \in Nat
             /\ sancion[x].fin # NULL => sancion[x].inicio < sancion[x].fin
  BY <1>0 DEF Sancion, IInv, PeriodWellFormed
<1> QED
  <2>1. CASE \E r \in Applies : ApplyCommit(r) /\ s = r
    BY <1>1, <2>1
  <2>2. CASE \E r \in Applies : ApplyCommit(r) /\ s # r
    BY <1>2, <1>4, <1>6, <2>2, ConstantsAssumption DEF IInv, PeriodWellFormed
  <2>3. CASE \E r \in Lifts : LiftCommit(r)
    BY <1>3, <1>5, <1>6, <2>3, ConstantsAssumption DEF IInv, PeriodWellFormed, InForceAt
  <2>4. CASE sancion' = sancion
    BY <2>4 DEF IInv, PeriodWellFormed
  <2> QED
    BY <2>1, <2>2, <2>3, <2>4, TablesChange

\* No step tells a person what is not so.
LEMMA StepNotices == ASSUME IInv, [Next]_vars PROVE NoticesTruthful'
<1>1. \A s \in DOMAIN sancion :
        /\ s \in DOMAIN sancion'
        /\ sancion'[s].usuario_id = sancion[s].usuario_id
        /\ sancion[s].levantada_por # NULL => sancion'[s].levantada_por # NULL
  <2>1. ASSUME NEW r \in Applies, ApplyCommit(r), NEW s \in DOMAIN sancion
        PROVE  /\ s \in DOMAIN sancion'
               /\ sancion'[s].usuario_id = sancion[s].usuario_id
               /\ sancion'[s].levantada_por = sancion[s].levantada_por
    <3>1. s \in DOMAIN sancion'
      BY <2>1, ApplyCommitEffect
    <3> QED
      BY <2>1, <3>1, ApplyCommitRows
  <2>2. ASSUME NEW r \in Lifts, LiftCommit(r), NEW s \in DOMAIN sancion
        PROVE  /\ s \in DOMAIN sancion'
               /\ sancion'[s].usuario_id = sancion[s].usuario_id
               /\ sancion[s].levantada_por # NULL => sancion'[s].levantada_por # NULL
    BY <2>2, LiftCommitEffect, ConstantsAssumption
  <2>3. CASE sancion' = sancion
    BY <2>3
  <2> QED
    BY <2>1, <2>2, <2>3, TablesChange
<1>2. ASSUME NEW n \in notificacion'
      PROVE  \/ n \in notificacion
             \/ /\ n.sancion_id \in DOMAIN sancion
                /\ n.usuario_id = sancion[n.sancion_id].usuario_id
                /\ n.evento = "levantada" => sancion[n.sancion_id].levantada_por # NULL
  <2>1. ASSUME NEW r \in Applies, ApplyNotify(r), n \notin notificacion
        PROVE  /\ n.sancion_id \in DOMAIN sancion
               /\ n.usuario_id = sancion[n.sancion_id].usuario_id
               /\ n.evento = "levantada" => sancion[n.sancion_id].levantada_por # NULL
    <3>1. n = [usuario_id |-> apply[r].target, sancion_id |-> r, evento |-> "aplicada"]
      BY <2>1 DEF ApplyNotify
    <3>2. r \in DOMAIN sancion /\ sancion[r].usuario_id = apply[r].target
      BY <2>1 DEF ApplyNotify, IInv, RequestsConsistent
    <3> QED
      BY <3>1, <3>2
  <2>2. ASSUME NEW r \in Lifts, LiftNotify(r), n \notin notificacion
        PROVE  /\ n.sancion_id \in DOMAIN sancion
               /\ n.usuario_id = sancion[n.sancion_id].usuario_id
               /\ n.evento = "levantada" => sancion[n.sancion_id].levantada_por # NULL
    <3> DEFINE s == lift[r].sancion_id
    <3>1. n = [usuario_id |-> sancion[s].usuario_id, sancion_id |-> s, evento |-> "levantada"]
      BY <2>2 DEF LiftNotify
    <3>2. s \in DOMAIN sancion /\ sancion[s].levantada_por = r
      BY <2>2 DEF LiftNotify, IInv, RequestsConsistent
    <3> QED
      BY <3>1, <3>2, ConstantsAssumption
  <2>3. ASSUME NEW r \in Applies, ApplyStep(r), ~ApplyNotify(r) PROVE notificacion' = notificacion
    BY <2>3 DEF ApplyStep, ApplyLookUp, ApplyReadClock, ApplyRefused, ApplyCommit, ApplyUnavailable
  <2>4. ASSUME NEW r \in Lifts, LiftStep(r), ~LiftNotify(r) PROVE notificacion' = notificacion
    BY <2>4 DEF LiftStep, LiftReadClock, LiftNothing, LiftCommit, LiftUnavailable, LiftLookUp
  <2>5. ASSUME NEW c \in Calls, CallStep(c) PROVE notificacion' = notificacion
    BY <2>5 DEF CallStep, CallArrive, CallReadClock, CallCheck, CallDelete, Restricted
  <2>6. CASE Tick \/ Crash \/ UNCHANGED vars
    BY <2>6 DEF Tick, Crash, vars
  <2> QED
    BY <2>1, <2>2, <2>3, <2>4, <2>5, <2>6 DEF Next
<1> QED
  BY <1>1, <1>2 DEF IInv, NoticesTruthful

-----------------------------------------------------------------------------
\* No step makes what a request remembers untrue.

\* The part of RequestsConsistent about the rows: they begin in the past, only a lifted one has a lifter.
LEMMA StepRowsConsistent ==
  ASSUME IInv, [Next]_vars, NEW s \in DOMAIN sancion'
  PROVE  /\ sancion'[s].inicio <= clock'
         /\ sancion'[s].levantada_por # NULL => sancion'[s].estado = "levantada"
<1> USE DEF IInv
<1>1. clock \in Nat /\ clock' \in Nat /\ clock <= clock'
  BY ClockMonotone DEF TypeOK
<1>2. \A x \in DOMAIN sancion :
        /\ sancion[x].inicio <= clock /\ sancion[x].inicio \in Nat
        /\ sancion[x].levantada_por # NULL => sancion[x].estado = "levantada"
  BY DEF RequestsConsistent, TypeOK, Sancion
<1>3. CASE \E r \in Applies : ApplyCommit(r)
  <2>1. PICK r \in Applies : ApplyCommit(r)
    BY <1>3
  <2>2. CASE s = r
    <3>1. apply[r].now \in Nat /\ apply[r].now <= clock
      BY <2>1, ApplyCommitEffect
    <3>2. sancion'[r].inicio = apply[r].now /\ sancion'[r].levantada_por = NULL
      BY <2>1, ApplyCommitRows
    <3> QED
      BY <1>1, <2>2, <3>1, <3>2
  <2>3. CASE s # r
    <3>1. s \in DOMAIN sancion
      BY <2>1, <2>3, ApplyCommitEffect
    <3> QED
      BY <1>1, <1>2, <2>1, <3>1, ApplyCommitRows
  <2> QED
    BY <2>2, <2>3
<1>4. CASE \E r \in Lifts : LiftCommit(r)
  <2>1. PICK r \in Lifts : LiftCommit(r)
    BY <1>4
  <2>2. s \in DOMAIN sancion
    BY <2>1, LiftCommitEffect
  <2> QED
    BY <1>1, <1>2, <2>1, <2>2, LiftCommitEffect
<1>5. CASE sancion' = sancion
  BY <1>1, <1>2, <1>5
<1> QED
  BY <1>3, <1>4, <1>5, TablesChange

\* Only its own steps and a crash change an apply request.
LEMMA ApplyFrame ==
  ASSUME [Next]_vars
  PROVE  \/ \E q \in Applies : ApplyStep(q)
         \/ apply' = apply
         \/ \E q \in Applies : FinishApply(q, "lost")
<1>1. ASSUME NEW q \in Lifts, LiftStep(q) PROVE apply' = apply
  BY <1>1 DEF LiftStep, LiftReadClock, LiftNothing, LiftCommit, LiftUnavailable, LiftLookUp, LiftNotify
<1>2. ASSUME NEW c \in Calls, CallStep(c) PROVE apply' = apply
  BY <1>2 DEF CallStep, CallArrive, CallReadClock, CallCheck, CallDelete, Restricted
<1>3. CASE Tick \/ UNCHANGED vars
  BY <1>3 DEF Tick, vars
<1>4. CASE Crash
  BY <1>4 DEF Crash
<1> QED
  BY <1>1, <1>2, <1>3, <1>4 DEF Next

\* What one step does to the local state of an apply request.
LEMMA ApplyChange ==
  ASSUME IInv, [Next]_vars, NEW r \in Applies
  PROVE  \/ apply'[r] = apply[r] /\ ~ApplyCommit(r)
         \/ apply'[r].phase = "found" /\ apply'[r].target \in Accounts /\ apply'[r].now = 0
              /\ apply[r].phase = "idle"
         \/ apply'[r].phase = "timed" /\ apply'[r].target = apply[r].target /\ apply'[r].now = clock
              /\ apply[r].phase = "found"
         \/ apply'[r].phase = "notify" /\ apply'[r].target = apply[r].target /\ apply'[r].now = apply[r].now
              /\ apply[r].phase = "timed" /\ ApplyCommit(r)
         \/ apply'[r].phase = "done" /\ apply'[r].now = 0 /\ ~ApplyCommit(r)
<1> DEFINE Change(q) ==
      \/ apply'[q].phase = "found" /\ apply'[q].target \in Accounts /\ apply'[q].now = 0
           /\ apply[q].phase = "idle"
      \/ apply'[q].phase = "timed" /\ apply'[q].target = apply[q].target /\ apply'[q].now = clock
           /\ apply[q].phase = "found"
      \/ apply'[q].phase = "notify" /\ apply'[q].target = apply[q].target /\ apply'[q].now = apply[q].now
           /\ apply[q].phase = "timed" /\ ApplyCommit(q)
      \/ apply'[q].phase = "done" /\ apply'[q].now = 0 /\ ~ApplyCommit(q)
<1>1. /\ apply \in [Applies -> ApplyState]
      /\ apply[r] = [phase |-> apply[r].phase, target |-> apply[r].target, dias |-> apply[r].dias,
                     reporte_id |-> apply[r].reporte_id, now |-> apply[r].now, answer |-> apply[r].answer]
  BY DEF IInv, TypeOK, ApplyState
<1>2. ASSUME NEW q \in Applies, NEW a, FinishApply(q, a)
      PROVE  /\ apply'[q].phase = "done" /\ apply'[q].now = 0 /\ ~ApplyCommit(q)
             /\ \A x \in Applies : x # q => apply'[x] = apply[x]
  <2>1. apply' = [apply EXCEPT ![q] = [IdleApply EXCEPT !.phase = "done", !.answer = a]]
    BY <1>2 DEF FinishApply
  <2>2. apply'[q].phase = "done" /\ apply'[q].now = 0
    BY <1>1, <2>1 DEF IdleApply
  <2>3. ApplyCommit(q) => apply'[q].phase = "notify"
    BY <1>1 DEF ApplyCommit, ApplyState
  <2> QED
    BY <1>1, <2>1, <2>2, <2>3
<1>3. ASSUME NEW q \in Applies, ApplyStep(q)
      PROVE  Change(q) /\ \A x \in Applies : x # q => apply'[x] = apply[x]
  <2>1. ASSUME NEW u \in Accounts, NEW dias \in Duration \cup {NULL}, NEW report \in Reports \cup {NULL},
               ApplyLookUp(q, u, dias, report)
        PROVE  Change(q) /\ \A x \in Applies : x # q => apply'[x] = apply[x]
    <3>1. \/ \E a \in {"unknown", "not_sanctionable"} : FinishApply(q, a)
          \/ /\ apply' = [apply EXCEPT ![q] = [phase |-> "found", target |-> u, dias |-> dias,
                            reporte_id |-> report, now |-> 0, answer |-> "none"]]
             /\ apply[q].phase = "idle"
      BY <2>1 DEF ApplyLookUp
    <3> QED
      BY <1>1, <1>2, <3>1
  <2>2. CASE ApplyReadClock(q)
    BY <1>1, <2>2 DEF ApplyReadClock, ApplyState
  <2>3. CASE ApplyRefused(q) \/ ApplyUnavailable(q) \/ ApplyNotify(q)
    <3>1. \E a : FinishApply(q, a)
      BY <2>3 DEF ApplyRefused, ApplyUnavailable, ApplyNotify
    <3> QED
      BY <1>2, <3>1
  <2>4. CASE ApplyCommit(q)
    <3>1. apply' = [apply EXCEPT ![q] = [apply[q] EXCEPT !.phase = "notify"]] /\ apply[q].phase = "timed"
      BY <2>4 DEF ApplyCommit
    <3>2. apply[q] \in ApplyState
      BY <1>1
    <3> QED
      BY <1>1, <2>4, <3>1, <3>2 DEF ApplyState
  <2> QED
    BY <1>3, <2>1, <2>2, <2>3, <2>4 DEF ApplyStep
<1>4. ASSUME apply'[r] = apply[r] PROVE ~ApplyCommit(r)
  BY <1>1, <1>4 DEF ApplyCommit, ApplyState
<1> QED
  <2>1. CASE \E q \in Applies : ApplyStep(q)
    BY <1>3, <1>4, <2>1
  <2>2. CASE apply' = apply
    BY <1>4, <2>2
  <2>3. CASE \E q \in Applies : FinishApply(q, "lost")
    BY <1>2, <1>4, <2>3
  <2> QED
    BY ApplyFrame, <2>1, <2>2, <2>3

\* An apply request still remembers the truth after any step.
LEMMA StepApplyConsistent ==
  ASSUME IInv, [Next]_vars, NEW r \in Applies
  PROVE  /\ apply'[r].now <= clock'
         /\ apply'[r].phase \in {"found", "timed", "notify"} => apply'[r].target \in Accounts
         /\ r \in DOMAIN sancion' => apply'[r].phase \in {"notify", "done"}
         /\ apply'[r].phase = "notify" => r \in DOMAIN sancion' /\ sancion'[r].usuario_id = apply'[r].target
<1>1. clock \in Nat /\ clock' \in Nat /\ clock <= clock'
  BY ClockMonotone DEF IInv, TypeOK
<1>2. /\ apply[r].now \in Nat /\ apply[r].now <= clock
      /\ apply[r].phase \in {"found", "timed", "notify"} => apply[r].target \in Accounts
      /\ r \in DOMAIN sancion => apply[r].phase \in {"notify", "done"}
      /\ apply[r].phase = "notify" => r \in DOMAIN sancion /\ sancion[r].usuario_id = apply[r].target
  BY DEF IInv, TypeOK, ApplyState, RequestsConsistent
<1>3. ~ApplyCommit(r) => /\ r \in DOMAIN sancion' <=> r \in DOMAIN sancion
                         /\ r \in DOMAIN sancion => sancion'[r].usuario_id = sancion[r].usuario_id
  <2>1. ASSUME NEW q \in Applies, ApplyCommit(q), q # r
        PROVE  /\ r \in DOMAIN sancion' <=> r \in DOMAIN sancion
               /\ r \in DOMAIN sancion => sancion'[r].usuario_id = sancion[r].usuario_id
    <3>1. DOMAIN sancion' = DOMAIN sancion \cup {q}
      BY <2>1, ApplyCommitEffect
    <3>2. r \in DOMAIN sancion => sancion'[r].usuario_id = sancion[r].usuario_id
      BY <2>1, ApplyCommitRows
    <3> QED
      BY <2>1, <3>1, <3>2
  <2>2. ASSUME NEW q \in Lifts, LiftCommit(q)
        PROVE  /\ r \in DOMAIN sancion' <=> r \in DOMAIN sancion
               /\ r \in DOMAIN sancion => sancion'[r].usuario_id = sancion[r].usuario_id
    BY <2>2, LiftCommitEffect
  <2> QED
    BY <2>1, <2>2, TablesChange
<1>4. ApplyCommit(r) => r \in DOMAIN sancion' /\ sancion'[r].usuario_id = apply[r].target
  BY ApplyCommitEffect, ApplyCommitRows
<1>5. CASE apply'[r] = apply[r] /\ ~ApplyCommit(r)
  BY <1>1, <1>2, <1>3, <1>5
<1>6. CASE /\ apply'[r].phase = "found" /\ apply'[r].target \in Accounts /\ apply'[r].now = 0
           /\ apply[r].phase = "idle"
  <2>1. ~ApplyCommit(r)
    BY <1>6 DEF ApplyCommit
  <2> QED
    BY <1>1, <1>2, <1>3, <1>6, <2>1
<1>7. CASE /\ apply'[r].phase = "timed" /\ apply'[r].target = apply[r].target /\ apply'[r].now = clock
           /\ apply[r].phase = "found"
  <2>1. ~ApplyCommit(r)
    BY <1>7 DEF ApplyCommit
  <2> QED
    BY <1>1, <1>2, <1>3, <1>7, <2>1
<1>8. CASE /\ apply'[r].phase = "notify" /\ apply'[r].target = apply[r].target /\ apply'[r].now = apply[r].now
           /\ apply[r].phase = "timed" /\ ApplyCommit(r)
  BY <1>1, <1>2, <1>4, <1>8
<1>9. CASE apply'[r].phase = "done" /\ apply'[r].now = 0 /\ ~ApplyCommit(r)
  BY <1>1, <1>2, <1>3, <1>9
<1> QED
  BY <1>5, <1>6, <1>7, <1>8, <1>9, ApplyChange

\* What one step does to the local state of a lift request.
LEMMA LiftChange ==
  ASSUME IInv, [Next]_vars, NEW r \in Lifts
  PROVE  \/ lift'[r] = lift[r]
         \/ lift'[r].phase = "timed" /\ lift'[r].now = clock /\ lift'[r].sancion_id \in DOMAIN sancion \cup {NULL}
         \/ lift'[r].phase = "look_up" /\ lift'[r].now = lift[r].now
              /\ lift'[r].sancion_id = lift[r].sancion_id /\ LiftCommit(r)
         \/ lift'[r].phase = "notify" /\ lift'[r].now = lift[r].now
              /\ lift'[r].sancion_id = lift[r].sancion_id /\ lift[r].phase = "look_up"
         \/ lift'[r].phase = "done" /\ lift'[r].now = 0 /\ lift'[r].sancion_id = NULL
<1> DEFINE Change(q) ==
      \/ lift'[q].phase = "timed" /\ lift'[q].now = clock /\ lift'[q].sancion_id \in DOMAIN sancion \cup {NULL}
      \/ lift'[q].phase = "look_up" /\ lift'[q].now = lift[q].now
           /\ lift'[q].sancion_id = lift[q].sancion_id /\ LiftCommit(q)
      \/ lift'[q].phase = "notify" /\ lift'[q].now = lift[q].now
           /\ lift'[q].sancion_id = lift[q].sancion_id /\ lift[q].phase = "look_up"
      \/ lift'[q].phase = "done" /\ lift'[q].now = 0 /\ lift'[q].sancion_id = NULL
<1>1. lift \in [Lifts -> LiftState] /\ \A q \in Lifts : lift[q] \in LiftState
  BY DEF IInv, TypeOK
<1>2. ASSUME NEW q \in Lifts, NEW a, FinishLift(q, a)
      PROVE  /\ lift'[q].phase = "done" /\ lift'[q].now = 0 /\ lift'[q].sancion_id = NULL
             /\ \A x \in Lifts : x # q => lift'[x] = lift[x]
  BY <1>1, <1>2 DEF FinishLift, IdleLift
<1>3. ASSUME NEW q \in Lifts, NEW p, lift' = [lift EXCEPT ![q] = [lift[q] EXCEPT !.phase = p]]
      PROVE  /\ lift'[q].phase = p /\ lift'[q].now = lift[q].now /\ lift'[q].sancion_id = lift[q].sancion_id
             /\ \A x \in Lifts : x # q => lift'[x] = lift[x]
  BY <1>1, <1>3 DEF LiftState
<1>4. ASSUME NEW q \in Lifts, LiftStep(q)
      PROVE  Change(q) /\ \A x \in Lifts : x # q => lift'[x] = lift[x]
  <2>1. ASSUME NEW s \in DOMAIN sancion \cup {NULL}, LiftReadClock(q, s)
        PROVE  Change(q) /\ \A x \in Lifts : x # q => lift'[x] = lift[x]
    BY <1>1, <2>1 DEF LiftReadClock
  <2>2. CASE LiftNothing(q) \/ LiftUnavailable(q) \/ LiftNotify(q)
    <3>1. \E a : FinishLift(q, a)
      BY <2>2 DEF LiftNothing, LiftUnavailable, LiftNotify
    <3> QED
      BY <1>2, <3>1
  <2>3. CASE LiftCommit(q)
    <3>1. lift' = [lift EXCEPT ![q] = [lift[q] EXCEPT !.phase = "look_up"]]
      BY <2>3 DEF LiftCommit
    <3> QED
      BY <1>3, <2>3, <3>1
  <2>4. CASE LiftLookUp(q)
    <3>1. /\ lift[q].phase = "look_up"
          /\ \/ lift' = [lift EXCEPT ![q] = [lift[q] EXCEPT !.phase = "notify"]]
             \/ FinishLift(q, "lifted")
      BY <2>4 DEF LiftLookUp
    <3> QED
      BY <1>2, <1>3, <3>1
  <2> QED
    BY <1>4, <2>1, <2>2, <2>3, <2>4 DEF LiftStep
<1>5. (\A q \in Lifts : ~LiftStep(q)) => lift' = lift \/ \E q \in Lifts : FinishLift(q, "lost")
  <2>1. ASSUME NEW q \in Applies, ApplyStep(q) PROVE lift' = lift
    BY <2>1 DEF ApplyStep, ApplyLookUp, ApplyReadClock, ApplyRefused, ApplyCommit, ApplyUnavailable, ApplyNotify
  <2>2. ASSUME NEW c \in Calls, CallStep(c) PROVE lift' = lift
    BY <2>2 DEF CallStep, CallArrive, CallReadClock, CallCheck, CallDelete, Restricted
  <2>3. CASE Tick \/ UNCHANGED vars
    BY <2>3 DEF Tick, vars
  <2>4. CASE Crash
    BY <2>4 DEF Crash
  <2> QED
    BY <2>1, <2>2, <2>3, <2>4 DEF Next
<1> QED
  <2>1. CASE \E q \in Lifts : LiftStep(q)
    BY <1>4, <2>1
  <2>2. CASE lift' = lift
    BY <2>2
  <2>3. CASE \E q \in Lifts : FinishLift(q, "lost")
    BY <1>2, <2>3
  <2> QED
    BY <1>5, <2>1, <2>2, <2>3

\* A lift request still remembers the truth after any step.
LEMMA StepLiftConsistent ==
  ASSUME IInv, [Next]_vars, NEW r \in Lifts
  PROVE  /\ lift'[r].now <= clock'
         /\ lift'[r].sancion_id # NULL => /\ lift'[r].sancion_id \in DOMAIN sancion'
                                          /\ sancion'[lift'[r].sancion_id].inicio <= lift'[r].now
         /\ lift'[r].phase \in {"look_up", "notify"} =>
              lift'[r].sancion_id # NULL /\ sancion'[lift'[r].sancion_id].levantada_por = r
<1>1. clock \in Nat /\ clock' \in Nat /\ clock <= clock'
  BY ClockMonotone DEF IInv, TypeOK
<1>2. /\ lift[r].now \in Nat /\ lift[r].now <= clock
      /\ lift[r].sancion_id # NULL => /\ lift[r].sancion_id \in DOMAIN sancion
                                      /\ sancion[lift[r].sancion_id].inicio <= lift[r].now
      /\ lift[r].phase \in {"look_up", "notify"} =>
           lift[r].sancion_id # NULL /\ sancion[lift[r].sancion_id].levantada_por = r
  BY DEF IInv, TypeOK, LiftState, RequestsConsistent
<1>3. \A s \in DOMAIN sancion :
        /\ s \in DOMAIN sancion'
        /\ sancion'[s].inicio = sancion[s].inicio /\ sancion[s].inicio <= clock
        /\ sancion[s].levantada_por # NULL => sancion'[s].levantada_por = sancion[s].levantada_por
  <2>1. ASSUME NEW q \in Applies, ApplyCommit(q), NEW s \in DOMAIN sancion
        PROVE  /\ s \in DOMAIN sancion' /\ sancion'[s].inicio = sancion[s].inicio
               /\ sancion'[s].levantada_por = sancion[s].levantada_por
    <3>1. s \in DOMAIN sancion'
      BY <2>1, ApplyCommitEffect
    <3> QED
      BY <2>1, <3>1, ApplyCommitRows
  <2>2. ASSUME NEW q \in Lifts, LiftCommit(q), NEW s \in DOMAIN sancion
        PROVE  /\ s \in DOMAIN sancion' /\ sancion'[s].inicio = sancion[s].inicio
               /\ sancion[s].levantada_por # NULL => sancion'[s].levantada_por = sancion[s].levantada_por
    <3>1. CASE s # lift[q].sancion_id
      BY <2>2, <3>1, LiftCommitEffect
    <3>2. CASE s = lift[q].sancion_id
      <4>1. sancion[s].levantada_por = NULL
        BY <2>2, <3>2, LiftCommitEffect DEF InForceAt, IInv, RequestsConsistent
      <4> QED
        BY <2>2, <3>2, <4>1, LiftCommitEffect
    <3> QED
      BY <3>1, <3>2
  <2>3. \A s \in DOMAIN sancion : sancion[s].inicio <= clock
    BY DEF IInv, RequestsConsistent
  <2> QED
    BY <2>1, <2>2, <2>3, TablesChange
<1>4. LiftCommit(r) => /\ lift[r].sancion_id \in DOMAIN sancion
                       /\ sancion'[lift[r].sancion_id].levantada_por = r
  BY LiftCommitEffect
<1>5. NULL \notin DOMAIN sancion /\ NULL # r
  BY ConstantsAssumption DEF IInv, TypeOK
<1>6. CASE lift'[r] = lift[r]
  BY <1>1, <1>2, <1>3, <1>5, <1>6
<1>7. CASE lift'[r].phase = "timed" /\ lift'[r].now = clock /\ lift'[r].sancion_id \in DOMAIN sancion \cup {NULL}
  BY <1>1, <1>3, <1>7
<1>8. CASE /\ lift'[r].phase = "look_up" /\ lift'[r].now = lift[r].now
           /\ lift'[r].sancion_id = lift[r].sancion_id /\ LiftCommit(r)
  BY <1>1, <1>2, <1>3, <1>4, <1>5, <1>8
<1>9. CASE /\ lift'[r].phase = "notify" /\ lift'[r].now = lift[r].now
           /\ lift'[r].sancion_id = lift[r].sancion_id /\ lift[r].phase = "look_up"
  BY <1>1, <1>2, <1>3, <1>5, <1>9
<1>10. CASE lift'[r].phase = "done" /\ lift'[r].now = 0 /\ lift'[r].sancion_id = NULL
  BY <1>1, <1>10
<1> QED
  BY <1>6, <1>7, <1>8, <1>9, <1>10, LiftChange

\* Only its own steps and a crash change a call.
LEMMA CallFrame ==
  ASSUME [Next]_vars
  PROVE  \/ \E q \in Calls : CallStep(q)
         \/ call' = call
         \/ \E q \in Calls : FinishCall(q, "lost")
<1>1. ASSUME NEW q \in Applies, ApplyStep(q) PROVE call' = call
  BY <1>1 DEF ApplyStep, ApplyLookUp, ApplyReadClock, ApplyRefused, ApplyCommit, ApplyUnavailable, ApplyNotify
<1>2. ASSUME NEW q \in Lifts, LiftStep(q) PROVE call' = call
  BY <1>2 DEF LiftStep, LiftReadClock, LiftNothing, LiftCommit, LiftUnavailable, LiftLookUp, LiftNotify
<1>3. CASE Tick \/ UNCHANGED vars
  BY <1>3 DEF Tick, vars
<1>4. CASE Crash
  BY <1>4 DEF Crash
<1> QED
  BY <1>1, <1>2, <1>3, <1>4 DEF Next

\* A call still remembers the truth after any step.
LEMMA StepCallConsistent ==
  ASSUME IInv, [Next]_vars, NEW c \in Calls
  PROVE  /\ call'[c].now <= clock'
         /\ call'[c].phase \in {"found", "timed", "checked", "issuing", "authorized"} => call'[c].user \in Accounts
<1> DEFINE Good(q) == /\ call'[q].now <= clock
                      /\ call'[q].phase \in {"found", "timed", "checked", "issuing", "authorized"}
                           => call'[q].user \in Accounts
<1>1. clock \in Nat /\ clock' \in Nat /\ clock <= clock'
  BY ClockMonotone DEF IInv, TypeOK
<1>2. /\ call \in [Calls -> CallState]
      /\ \A q \in Calls :
           /\ call[q] \in CallState /\ call[q].now \in Nat /\ call[q].now <= clock
           /\ call[q].phase \in {"found", "timed", "checked", "issuing", "authorized"} => call[q].user \in Accounts
  BY DEF IInv, TypeOK, RequestsConsistent, CallState
<1>3. ASSUME NEW q \in Calls, NEW a, FinishCall(q, a)
      PROVE  Good(q) /\ \A x \in Calls : x # q => call'[x] = call[x]
  <2>1. call'[q].phase = "done" /\ call'[q].now = 0 /\ \A x \in Calls : x # q => call'[x] = call[x]
    BY <1>2, <1>3 DEF FinishCall, IdleCall
  <2> QED
    BY <1>1, <2>1
<1>4. ASSUME NEW q \in Calls, CallStep(q) PROVE Good(q) /\ \A x \in Calls : x # q => call'[x] = call[x]
  <2>1. ASSUME NEW kind \in {"delete", "login", "status"}, NEW u \in Accounts, CallArrive(q, kind, u)
        PROVE  Good(q) /\ \A x \in Calls : x # q => call'[x] = call[x]
    <3>1. \/ FinishCall(q, "unauthorized")
          \/ \E p \in {"authorized", "found"} :
               call' = [call EXCEPT ![q] = [IdleCall EXCEPT !.phase = p, !.kind = kind, !.user = u]]
      BY <2>1 DEF CallArrive
    <3>2. CASE FinishCall(q, "unauthorized")
      BY <1>3, <3>2
    <3>3. CASE \E p \in {"authorized", "found"} :
                 call' = [call EXCEPT ![q] = [IdleCall EXCEPT !.phase = p, !.kind = kind, !.user = u]]
      <4>1. call'[q].now = 0 /\ call'[q].user = u /\ \A x \in Calls : x # q => call'[x] = call[x]
        BY <1>2, <3>3 DEF IdleCall
      <4> QED
        BY <1>1, <4>1
    <3> QED
      BY <3>1, <3>2, <3>3
  <2>2. CASE CallReadClock(q)
    <3>1. PICK p \in {"timed", "issuing"} : call' = [call EXCEPT ![q] = [call[q] EXCEPT !.phase = p, !.now = clock]]
      BY <2>2 DEF CallReadClock
    <3>2. call[q].phase \in {"found", "checked"}
      BY <2>2 DEF CallReadClock
    <3>3. call'[q].now = clock /\ call'[q].user = call[q].user /\ \A x \in Calls : x # q => call'[x] = call[x]
      BY <1>2, <3>1 DEF CallState
    <3> QED
      BY <1>1, <1>2, <3>2, <3>3
  <2>3. CASE CallCheck(q)
    <3>1. \/ \E a : FinishCall(q, a)
          \/ \E p \in {"checked", "authorized"} : call' = [call EXCEPT ![q] = [call[q] EXCEPT !.phase = p]]
      BY <2>3 DEF CallCheck
    <3>2. call[q].phase \in {"timed", "issuing"}
      BY <2>3 DEF CallCheck
    <3>3. CASE \E p \in {"checked", "authorized"} : call' = [call EXCEPT ![q] = [call[q] EXCEPT !.phase = p]]
      <4>1. call'[q].now = call[q].now /\ call'[q].user = call[q].user /\ \A x \in Calls : x # q => call'[x] = call[x]
        BY <1>2, <3>3 DEF CallState
      <4> QED
        BY <1>2, <3>2, <4>1
    <3> QED
      BY <1>3, <3>1, <3>3
  <2>4. CASE CallDelete(q)
    BY <1>3, <2>4 DEF CallDelete
  <2> QED
    BY <1>4, <2>1, <2>2, <2>3, <2>4 DEF CallStep
<1>5. CASE Good(c)
  <2>1. call'[c] \in CallState
    BY StepTypeOK DEF TypeOK
  <2>2. call'[c].now \in Nat
    BY <2>1 DEF CallState
  <2> QED
    BY <1>1, <1>5, <2>2
<1>6. CASE call'[c] = call[c]
  BY <1>1, <1>2, <1>6
<1> QED
  <2>1. CASE \E q \in Calls : CallStep(q)
    BY <1>4, <1>5, <1>6, <2>1
  <2>2. CASE call' = call
    BY <1>6, <2>2
  <2>3. CASE \E q \in Calls : FinishCall(q, "lost")
    BY <1>3, <1>5, <1>6, <2>3
  <2> QED
    BY CallFrame, <2>1, <2>2, <2>3

-----------------------------------------------------------------------------
\* The inductive step: the parts proved above together.
LEMMA StepIInv == IInv /\ [Next]_vars => IInv'
<1> SUFFICES ASSUME IInv, [Next]_vars PROVE IInv'
  OBVIOUS
<1>1. RequestsConsistent'
  BY StepApplyConsistent, StepLiftConsistent, StepRowsConsistent, StepCallConsistent DEF RequestsConsistent
<1> QED
  BY <1>1, StepTypeOK, StepOneActive, StepAudit, StepPeriod, StepNotices DEF IInv

\* The inductive invariant holds in every reachable state, whatever the interleaving.
THEOREM Inductive == Spec => []IInv
BY InitIInv, StepIInv, PTL DEF Spec

\* Every state is well typed.
THEOREM Types == Spec => []TypeOK
<1>1. IInv => TypeOK
  BY DEF IInv
<1> QED
  BY <1>1, Inductive, PTL

\* An account never has two active sanctions, for any number of administrators, requests and accounts,
\* and however late each request reaches the database after reading the clock.
THEOREM AtMostOneActive == Spec => []OneActiveSanction
<1>1. IInv => OneActiveSanction
  BY DEF IInv
<1> QED
  BY <1>1, Inductive, PTL

\* The administrative audit holds exactly one row for each sanction applied and each sanction lifted.
THEOREM AuditAtomic == Spec => []AuditMatchesSanctions
<1>1. IInv => AuditMatchesSanctions
  BY DEF IInv
<1> QED
  BY <1>1, Inductive, PTL

\* Every closed sanction has a period within its own beginning and end.
THEOREM PeriodsWellFormed == Spec => []PeriodWellFormed
<1>1. IInv => PeriodWellFormed
  BY DEF IInv
<1> QED
  BY <1>1, Inductive, PTL

\* No notice says what did not happen.
THEOREM NoticesSound == Spec => []NoticesTruthful
<1>1. IInv => NoticesTruthful
  BY DEF IInv
<1> QED
  BY <1>1, Inductive, PTL

-----------------------------------------------------------------------------
(* Where a sanction comes from.                                             *)

\* The reports stand still in this module.
LEMMA ReportsStill == ASSUME [Next]_vars PROVE reporte' = reporte
<1>1. ASSUME NEW r \in Applies, ApplyStep(r) PROVE reporte' = reporte
  BY <1>1 DEF ApplyStep, ApplyLookUp, ApplyReadClock, ApplyRefused, ApplyCommit, ApplyUnavailable, ApplyNotify
<1>2. ASSUME NEW r \in Lifts, LiftStep(r) PROVE reporte' = reporte
  BY <1>2 DEF LiftStep, LiftReadClock, LiftNothing, LiftCommit, LiftUnavailable, LiftLookUp, LiftNotify
<1>3. ASSUME NEW c \in Calls, CallStep(c) PROVE reporte' = reporte
  BY <1>3 DEF CallStep, CallArrive, CallReadClock, CallCheck, CallDelete, Restricted
<1>4. CASE Tick \/ Crash \/ UNCHANGED vars
  BY <1>4 DEF Tick, Crash, vars
<1> QED
  BY <1>1, <1>2, <1>3, <1>4 DEF Next

\* The report check lets a report through only if it is escalated and names the account.
LEMMA ReportAccepted ==
  ASSUME NEW report \in Reports, NEW u, ReportProblem(report, u) = NULL
  PROVE  report \in DOMAIN reporte /\ reporte[report].estado = "escalado" /\ NamedAccount(reporte[report]) = u
<1>1. report # NULL
  BY ConstantsAssumption
<1>2. report \notin DOMAIN reporte => ReportProblem(report, u) = "not_found"
  BY <1>1 DEF ReportProblem
<1>3. report \in DOMAIN reporte /\ reporte[report].estado # "escalado" => ReportProblem(report, u) = "not_escalated"
  BY <1>1 DEF ReportProblem
<1>4. report \in DOMAIN reporte /\ reporte[report].estado = "escalado" /\ NamedAccount(reporte[report]) # u
        => ReportProblem(report, u) = "other_target"
  BY <1>1 DEF ReportProblem
<1> QED
  BY <1>2, <1>3, <1>4, ConstantsAssumption

\* A sanction that cites a report cites an escalated one that names the sanctioned account.
THEOREM OriginSound == Spec => []ReportOrigin
<1>1. Init => ReportOrigin
  BY DEF Init, ReportOrigin
<1>2. ASSUME IInv, ReportOrigin, [Next]_vars PROVE ReportOrigin'
  <2> DEFINE Justified(s) == sancion[s].reporte_id # NULL =>
                /\ sancion[s].reporte_id \in DOMAIN reporte
                /\ reporte[sancion[s].reporte_id].estado = "escalado"
                /\ NamedAccount(reporte[sancion[s].reporte_id]) = sancion[s].usuario_id
             Same(s) == sancion'[s].reporte_id = sancion[s].reporte_id /\ sancion'[s].usuario_id = sancion[s].usuario_id
  <2>1. reporte' = reporte
    BY <1>2, ReportsStill
  <2>2. ASSUME NEW s \in DOMAIN sancion, s \in DOMAIN sancion', Same(s) PROVE Justified(s)'
    BY <1>2, <2>1, <2>2 DEF ReportOrigin, NamedAccount
  <2>3. ASSUME NEW r \in Applies, ApplyCommit(r) PROVE ReportOrigin'
    <3>1. \A s \in DOMAIN sancion : Same(s)
      BY <1>2, <2>3, ApplyCommitRows
    <3>2. DOMAIN sancion' = DOMAIN sancion \cup {r}
      BY <1>2, <2>3, ApplyCommitEffect
    <3>3. Justified(r)'
      <4>1. apply[r].reporte_id \in Reports \cup {NULL}
        BY <1>2 DEF IInv, TypeOK, ApplyState
      <4>2. sancion'[r].reporte_id = apply[r].reporte_id /\ sancion'[r].usuario_id = apply[r].target
        BY <1>2, <2>3, ApplyCommitRows
      <4>3. ReportProblem(apply[r].reporte_id, apply[r].target) = NULL
        BY <2>3 DEF ApplyCommit
      <4> QED
        BY <2>1, <4>1, <4>2, <4>3, ReportAccepted DEF NamedAccount
    <3>4. \A s \in DOMAIN sancion' : Justified(s)'
      BY <2>2, <3>1, <3>2, <3>3
    <3> QED
      BY <3>4 DEF ReportOrigin
  <2>4. ASSUME NEW r \in Lifts, LiftCommit(r) PROVE ReportOrigin'
    <3>1. DOMAIN sancion' = DOMAIN sancion /\ \A s \in DOMAIN sancion : Same(s)
      BY <1>2, <2>4, LiftCommitEffect
    <3>2. \A s \in DOMAIN sancion' : Justified(s)'
      BY <2>2, <3>1
    <3> QED
      BY <3>2 DEF ReportOrigin
  <2>5. CASE sancion' = sancion
    BY <1>2, <2>1, <2>5 DEF ReportOrigin, NamedAccount
  <2> QED
    BY <1>2, <2>3, <2>4, <2>5, TablesChange
<1> QED
  BY <1>1, <1>2, Inductive, PTL DEF Spec

-----------------------------------------------------------------------------
(* What a step may never do.                                                *)

\* A saved sanction stays, says what it said, and once closed never changes again.
THEOREM ClosedForever == Spec => HistoryFrozen
<1>1. ASSUME IInv, [Next]_vars PROVE [HistoryStep]_vars
  <2>1. ASSUME NEW r \in Applies, ApplyCommit(r) PROVE HistoryStep
    <3>1. DOMAIN sancion \subseteq DOMAIN sancion'
      BY <1>1, <2>1, ApplyCommitEffect
    <3> QED
      BY <1>1, <2>1, <3>1, ApplyCommitRows DEF HistoryStep
  <2>2. ASSUME NEW r \in Lifts, LiftCommit(r) PROVE HistoryStep
    <3>1. DOMAIN sancion \subseteq DOMAIN sancion' /\ sancion[lift[r].sancion_id].estado # "levantada"
      BY <1>1, <2>2, LiftCommitEffect DEF InForceAt
    <3> QED
      BY <1>1, <2>2, <3>1, LiftCommitEffect DEF HistoryStep
  <2>3. CASE sancion' = sancion
    BY <2>3 DEF HistoryStep
  <2> QED
    BY <1>1, <2>1, <2>2, <2>3, TablesChange
<1> QED
  BY <1>1, Inductive, PTL DEF Spec, HistoryFrozen

\* A call gets past the check only while no sanction bars its account, at the very moment of the query:
\* the check's own time is older, so it can only be stricter.
THEOREM NeverServed == Spec => SuspendedNotServed
<1>1. ASSUME IInv, [Next]_vars PROVE [NotServedStep]_vars
  <2> SUFFICES ASSUME NEW c \in Calls, call[c].phase \in {"timed", "issuing"}, call'[c] # call[c],
                      call'[c].phase = "authorized" \/ call'[c].answer \in {"token", "not_suspended"}
               PROVE  ~SuspendedAt(call[c].user, clock)
    BY DEF NotServedStep
  <2>1. call \in [Calls -> CallState] /\ call[c] \in CallState
    BY <1>1 DEF IInv, TypeOK
  <2>2. call[c].now \in Nat /\ call[c].now <= clock /\ clock \in Nat
    BY <1>1, <2>1 DEF IInv, RequestsConsistent, TypeOK, CallState
  <2>3. ASSUME NEW a, FinishCall(c, a) PROVE call'[c].phase = "done" /\ call'[c].answer = a
    BY <2>1, <2>3 DEF FinishCall, IdleCall
  <2>4. ~SuspendedAt(call[c].user, call[c].now)
    <3>1. CASE \E q \in Calls : CallStep(q)
      <4>1. PICK q \in Calls : CallStep(q)
        BY <3>1
      <4>2. q = c
        BY <2>1, <4>1 DEF CallStep, CallArrive, CallReadClock, CallCheck, CallDelete, FinishCall
      <4>3. CallCheck(c)
        BY <4>1, <4>2 DEF CallStep, CallArrive, CallReadClock, CallDelete
      <4>4. SuspendedAt(call[c].user, call[c].now) => FinishCall(c, "suspended")
        BY <4>3 DEF CallCheck
      <4> QED
        BY <2>3, <4>4
    <3>2. CASE call' = call
      BY <3>2
    <3>3. CASE \E q \in Calls : FinishCall(q, "lost")
      <4>1. FinishCall(c, "lost")
        BY <2>1, <3>3 DEF FinishCall
      <4> QED
        BY <2>3, <4>1
    <3> QED
      BY <1>1, <3>1, <3>2, <3>3, CallFrame
  <2>5. ASSUME NEW s \in DOMAIN sancion, InForceAt(sancion[s], clock) PROVE InForceAt(sancion[s], call[c].now)
    <3>1. sancion[s].fin \in Nat \cup {NULL}
      BY <1>1 DEF IInv, TypeOK, Sancion
    <3> QED
      BY <2>2, <2>5, <3>1 DEF InForceAt
  <2> QED
    BY <2>4, <2>5 DEF SuspendedAt
<1> QED
  BY <1>1, Inductive, PTL DEF Spec, SuspendedNotServed

\* An administrator meets a conflict only if a sanction of the account was in force at the time read.
THEOREM ConflictOnlyIfInForce == Spec => ConflictJustified
<1>1. ASSUME IInv, [Next]_vars PROVE [ConflictStep]_vars
  <2> SUFFICES ASSUME NEW r \in Applies, apply[r].answer # "conflict", apply'[r].answer = "conflict"
               PROVE  SuspendedAt(apply[r].target, apply[r].now)
    BY DEF ConflictStep
  <2>1. apply \in [Applies -> ApplyState] /\ \A q \in Applies : apply[q] \in ApplyState
    BY <1>1 DEF IInv, TypeOK
  <2>2. ASSUME NEW q \in Applies, NEW a, FinishApply(q, a), a # "conflict" PROVE FALSE
    BY <2>1, <2>2 DEF FinishApply, IdleApply
  <2>3. ASSUME NEW q \in Applies, NEW p, apply' = [apply EXCEPT ![q] = p], p.answer # "conflict" PROVE FALSE
    BY <2>1, <2>3
  <2>4. ASSUME NEW q \in Applies, ApplyStep(q) PROVE is_active[apply[q].target] /\ q = r /\
               StillActive(apply[q].target, apply[q].now)
    <3>1. ASSUME NEW u \in Accounts, NEW dias \in Duration \cup {NULL}, NEW report \in Reports \cup {NULL},
                 ApplyLookUp(q, u, dias, report)
          PROVE FALSE
      BY <2>2, <2>3, <3>1 DEF ApplyLookUp
    <3>2. CASE ApplyReadClock(q)
      <4>1. apply' = [apply EXCEPT ![q] = [apply[q] EXCEPT !.phase = "timed", !.now = clock]]
        BY <3>2 DEF ApplyReadClock
      <4> QED
        BY <2>1, <4>1 DEF ApplyState
    <3>3. CASE ApplyUnavailable(q) \/ ApplyNotify(q)
      BY <2>2, <3>3 DEF ApplyUnavailable, ApplyNotify
    <3>4. CASE ApplyCommit(q)
      <4>1. apply' = [apply EXCEPT ![q] = [apply[q] EXCEPT !.phase = "notify"]]
        BY <3>4 DEF ApplyCommit
      <4> QED
        BY <2>1, <4>1 DEF ApplyState
    <3>5. CASE ApplyRefused(q)
      <4> DEFINE problem == ReportProblem(apply[q].reporte_id, apply[q].target)
      <4>1. problem # NULL => problem # "conflict"
        BY ReportProblemType
      <4>2. \/ FinishApply(q, "unknown")
            \/ /\ is_active[apply[q].target] /\ StillActive(apply[q].target, apply[q].now)
               /\ FinishApply(q, "conflict")
            \/ problem # NULL /\ FinishApply(q, problem)
        BY <3>5 DEF ApplyRefused
      <4> HIDE DEF problem
      <4>3. /\ is_active[apply[q].target] /\ StillActive(apply[q].target, apply[q].now)
            /\ FinishApply(q, "conflict")
        BY <2>2, <4>1, <4>2
      <4>4. q = r
        BY <2>1, <4>3 DEF FinishApply
      <4> QED
        BY <4>3, <4>4
    <3> QED
      BY <2>4, <3>1, <3>2, <3>3, <3>4, <3>5 DEF ApplyStep
  <2>5. \E q \in Applies : ApplyStep(q)
    <3>1. ASSUME apply' = apply PROVE FALSE
      BY <3>1
    <3> QED
      BY <2>2, <3>1, ApplyFrame, <1>1
  <2>6. StillActive(apply[r].target, apply[r].now)
    BY <2>4, <2>5
  <2>7. PICK s \in DOMAIN sancion :
          /\ ClosedExpired(apply[r].target, apply[r].now)[s].usuario_id = apply[r].target
          /\ ClosedExpired(apply[r].target, apply[r].now)[s].estado = "activa"
    BY <2>6 DEF StillActive
  <2>8. sancion[s].usuario_id = apply[r].target /\ InForceAt(sancion[s], apply[r].now)
    <3>1. sancion[s] \in Sancion /\ apply[r].now \in Nat
      BY <1>1, <2>1 DEF IInv, TypeOK, ApplyState
    <3>2. ~(/\ sancion[s].usuario_id = apply[r].target /\ sancion[s].estado = "activa"
            /\ sancion[s].fin # NULL /\ sancion[s].fin <= apply[r].now)
      BY <2>7, <3>1 DEF ClosedExpired, Sancion
    <3>3. ClosedExpired(apply[r].target, apply[r].now)[s] = sancion[s]
      BY <3>2 DEF ClosedExpired
    <3>4. sancion[s].fin # NULL => sancion[s].fin \in Nat
      BY <3>1 DEF Sancion
    <3> QED
      BY <2>7, <3>1, <3>2, <3>3, <3>4 DEF InForceAt
  <2> QED
    BY <2>8 DEF SuspendedAt
<1> QED
  BY <1>1, Inductive, PTL DEF Spec, ConflictJustified

-----------------------------------------------------------------------------
(* The rows and transactions implement AccountSuspension.                   *)

\* A sanction bars its account in the abstract state exactly when its row is in force.
LEMMA BarringMembers ==
  ASSUME NEW u \in Accounts, NEW b
  PROVE  b \in Barring[u] <=>
           \E s \in DOMAIN sancion : /\ sancion[s].usuario_id = u /\ InForceAt(sancion[s], clock)
                                     /\ b = [id |-> s, fin |-> sancion[s].fin]
BY DEF Barring

\* An applied sanction is the abstract Suspend, or nothing when it ended before the commit.
LEMMA ApplyRefines ==
  ASSUME IInv, NEW r \in Applies, ApplyCommit(r)
  PROVE  (\E u \in Accounts : Suspension!Suspend(u)) \/ UNCHANGED <<clock, Barring>>
<1> DEFINE u == apply[r].target
           t == apply[r].now
<1>1. u \in Accounts /\ t \in Nat /\ t <= clock /\ clock \in Nat
  BY ApplyCommitEffect DEF IInv, TypeOK
<1>2. clock' = clock
  BY DEF ApplyCommit
<1>3. \A s \in DOMAIN sancion : sancion[s].fin \in Nat \cup {NULL} /\ sancion[s] \in Sancion
  BY DEF IInv, TypeOK, Sancion
<1>4. ASSUME NEW s \in DOMAIN sancion
      PROVE  /\ sancion'[s].usuario_id = sancion[s].usuario_id /\ sancion'[s].fin = sancion[s].fin
             /\ InForceAt(sancion'[s], clock) <=> InForceAt(sancion[s], clock)
  <2>1. \/ sancion'[s] = sancion[s]
        \/ /\ sancion[s].fin # NULL /\ sancion[s].fin <= t /\ sancion'[s].estado = "levantada"
    BY ApplyCommitRows
  <2>2. sancion'[s].usuario_id = sancion[s].usuario_id /\ sancion'[s].fin = sancion[s].fin
    BY ApplyCommitRows
  <2> QED
    BY <1>1, <1>3, <2>1, <2>2 DEF InForceAt
<1>5. \A s \in DOMAIN sancion : ~(sancion[s].usuario_id = u /\ InForceAt(sancion[s], clock))
  <2>1. \A s \in DOMAIN sancion : ~(sancion'[s].usuario_id = u /\ sancion'[s].estado = "activa")
    BY ApplyCommitEffect
  <2> QED
    BY <1>4, <2>1 DEF InForceAt
<1>6. Barring[u] = {}
  BY <1>1, <1>5, BarringMembers
<1>7. DOMAIN sancion' = DOMAIN sancion \cup {r} /\ r \notin DOMAIN sancion
      /\ sancion'[r].usuario_id = u /\ sancion'[r].estado = "activa"
  BY ApplyCommitEffect, ApplyCommitRows
<1> DEFINE b == [id |-> r, fin |-> sancion'[r].fin]
           New(v) == {[id |-> s, fin |-> sancion'[s].fin] :
                        s \in {x \in DOMAIN sancion' : sancion'[x].usuario_id = v /\ InForceAt(sancion'[x], clock')}}
<1>8. Barring' = [v \in Accounts |-> New(v)]
  BY DEF Barring
<1>9. ASSUME NEW v \in Accounts
      PROVE  New(v) = Barring[v] \cup (IF v = u /\ InForceAt(sancion'[r], clock) THEN {b} ELSE {})
  <2>1. \A c : c \in New(v) <=>
          \/ \E s \in DOMAIN sancion : /\ sancion[s].usuario_id = v /\ InForceAt(sancion[s], clock)
                                       /\ c = [id |-> s, fin |-> sancion[s].fin]
          \/ v = u /\ InForceAt(sancion'[r], clock) /\ c = b
    <3> HIDE DEF u
    <3> QED
      BY <1>2, <1>4, <1>7
  <2> HIDE DEF New, b, u
  <2> QED
    BY <2>1, BarringMembers
<1>10. CASE InForceAt(sancion'[r], clock)
  <2>1. Barring' = [Barring EXCEPT ![u] = {b}]
    <3>1. \A v \in Accounts : New(v) = IF v = u THEN {b} ELSE Barring[v]
      <4> HIDE DEF New, b, u
      <4> QED
        BY <1>6, <1>9, <1>10
    <3> HIDE DEF New, b, u
    <3> QED
      BY <1>8, <3>1 DEF Barring
  <2>2. b.fin # NULL => b.fin > clock
    BY <1>10 DEF InForceAt
  <2>3. Suspension!Suspend(u)
    <3>1. Barring'[u] = {b}
      <4> HIDE DEF b, u
      <4> QED
        BY <1>1, <2>1 DEF Barring
    <3> HIDE DEF b, u
    <3> QED
      BY <1>2, <1>6, <2>1, <2>2, <3>1 DEF Suspension!Suspend, Suspension!Bars
  <2> QED
    BY <1>1, <2>3
<1>11. CASE ~InForceAt(sancion'[r], clock)
  <2>1. \A v \in Accounts : New(v) = Barring[v]
    <3> HIDE DEF New, b, u
    <3> QED
      BY <1>9, <1>11
  <2> HIDE DEF New
  <2> QED
    BY <1>2, <1>8, <2>1 DEF Barring
<1> QED
  BY <1>10, <1>11

\* A committed lift is the abstract Lift, or nothing when the sanction ended before the commit.
LEMMA LiftRefines ==
  ASSUME IInv, NEW r \in Lifts, LiftCommit(r)
  PROVE  (\E u \in Accounts : Suspension!Lift(u)) \/ UNCHANGED <<clock, Barring>>
<1> DEFINE s0 == lift[r].sancion_id
           u == sancion[s0].usuario_id
           New(v) == {[id |-> s, fin |-> sancion'[s].fin] :
                        s \in {x \in DOMAIN sancion' : sancion'[x].usuario_id = v /\ InForceAt(sancion'[x], clock')}}
<1>1. /\ s0 \in DOMAIN sancion /\ DOMAIN sancion' = DOMAIN sancion
      /\ sancion'[s0].estado = "levantada" /\ sancion[s0].estado = "activa"
      /\ \A x \in DOMAIN sancion : x # s0 => sancion'[x] = sancion[x]
  BY LiftCommitEffect DEF InForceAt
<1>2. u \in Accounts
  BY <1>1 DEF IInv, TypeOK, Sancion
<1>3. clock' = clock
  BY DEF LiftCommit
<1>4. Barring' = [v \in Accounts |-> New(v)]
  BY DEF Barring
<1>5. \A v \in Accounts : \A c : c \in New(v) <=>
        \E s \in DOMAIN sancion : /\ s # s0 /\ sancion[s].usuario_id = v /\ InForceAt(sancion[s], clock)
                                  /\ c = [id |-> s, fin |-> sancion[s].fin]
  <2> HIDE DEF s0
  <2> QED
    BY <1>1, <1>3 DEF InForceAt
<1>6. \A s \in DOMAIN sancion : sancion[s].usuario_id = u /\ InForceAt(sancion[s], clock) => s = s0
  BY <1>1 DEF IInv, OneActiveSanction, InForceAt
<1>7. \A v \in Accounts \ {u} : New(v) = Barring[v]
  <2>1. \A v \in Accounts \ {u} : \A c : c \in New(v) <=> c \in Barring[v]
    <3> HIDE DEF New
    <3> QED
      BY <1>5, BarringMembers
  <2> HIDE DEF New, u
  <2> QED
    BY <2>1
<1>8. CASE InForceAt(sancion[s0], clock)
  <2>1. New(u) = {}
    <3> HIDE DEF New, u, s0
    <3> QED
      BY <1>2, <1>5, <1>6
  <2>2. [id |-> s0, fin |-> sancion[s0].fin] \in Barring[u]
    BY <1>1, <1>2, <1>8, BarringMembers
  <2>3. Barring' = [Barring EXCEPT ![u] = {}]
    <3> HIDE DEF New, u, s0
    <3> QED
      BY <1>4, <1>7, <2>1 DEF Barring
  <2> HIDE DEF u
  <2> QED
    BY <1>2, <1>3, <2>2, <2>3 DEF Suspension!Lift
<1>9. CASE ~InForceAt(sancion[s0], clock)
  <2>1. New(u) = Barring[u]
    <3>1. \A c : c \in New(u) <=> c \in Barring[u]
      <4> HIDE DEF New, u, s0
      <4> QED
        BY <1>2, <1>5, <1>9, BarringMembers
    <3> HIDE DEF New, u
    <3> QED
      BY <3>1
  <2> HIDE DEF New, u
  <2> QED
    BY <1>3, <1>4, <1>7, <2>1 DEF Barring
<1> QED
  BY <1>8, <1>9

\* A tick is the abstract Pass.
LEMMA TickRefines == ASSUME IInv, Tick PROVE Suspension!Pass
<1>1. sancion' = sancion /\ clock' = clock + 1 /\ clock \in Nat
  BY DEF Tick, IInv, TypeOK
<1>2. \A s \in DOMAIN sancion : sancion[s].fin \in Nat \cup {NULL}
  BY DEF IInv, TypeOK, Sancion
<1> DEFINE New(v) == {[id |-> s, fin |-> sancion'[s].fin] :
                        s \in {x \in DOMAIN sancion' : sancion'[x].usuario_id = v /\ InForceAt(sancion'[x], clock')}}
           Kept(v) == {b \in Barring[v] : Suspension!Bars(b.fin, clock')}
<1>3. Barring' = [v \in Accounts |-> New(v)]
  BY DEF Barring
<1>4. \A v \in Accounts : New(v) = Kept(v)
  <2>1. ASSUME NEW v \in Accounts, NEW c PROVE c \in New(v) <=> c \in Kept(v)
    <3>1. c \in New(v) <=> \E s \in DOMAIN sancion : /\ sancion[s].usuario_id = v /\ InForceAt(sancion[s], clock')
                                                     /\ c = [id |-> s, fin |-> sancion[s].fin]
      BY <1>1
    <3>2. c \in Kept(v) <=> c \in Barring[v] /\ (c.fin # NULL => c.fin > clock')
      BY DEF Suspension!Bars
    <3>3. \A s \in DOMAIN sancion : InForceAt(sancion[s], clock') <=>
            InForceAt(sancion[s], clock) /\ (sancion[s].fin # NULL => sancion[s].fin > clock')
      BY <1>1, <1>2 DEF InForceAt
    <3> HIDE DEF New, Kept
    <3> QED
      BY <3>1, <3>2, <3>3, BarringMembers
  <2> HIDE DEF New, Kept
  <2> QED
    BY <2>1
<1> HIDE DEF New
<1> QED
  BY <1>1, <1>3, <1>4 DEF Suspension!Pass

\* Sanctions implements AccountSuspension: an account is barred by one sanction at a time, from the commit
\* of an administrator's sanction until its end or an administrator's lift, and for no other reason.
THEOREM Refinement == Spec => SuspensionSpec
<1>1. Init => Suspension!AbsInit
  BY DEF Init, Suspension!AbsInit, Barring
<1>2. ASSUME IInv, [Next]_vars PROVE [Suspension!AbsNext]_(Suspension!absVars)
  <2>1. CASE \E r \in Applies : ApplyCommit(r)
    BY <1>2, <2>1, ApplyRefines DEF Suspension!AbsNext, Suspension!absVars
  <2>2. CASE \E r \in Lifts : LiftCommit(r)
    BY <1>2, <2>2, LiftRefines DEF Suspension!AbsNext, Suspension!absVars
  <2>3. CASE Tick
    BY <1>2, <2>3, TickRefines DEF Suspension!AbsNext
  <2>4. CASE sancion' = sancion /\ ~Tick
    <3>1. clock' = clock
      BY <1>2, <2>4, ClockFrame
    <3> QED
      BY <2>4, <3>1 DEF Barring, Suspension!absVars
  <2> QED
    BY <1>2, <2>1, <2>2, <2>3, <2>4, TablesChange
<1> QED
  BY <1>1, <1>2, Inductive, PTL DEF Spec, SuspensionSpec, Suspension!AbsSpec
=============================================================================
