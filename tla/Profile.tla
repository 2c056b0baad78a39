------------------------------- MODULE Profile -------------------------------
(***************************************************************************)
(* The profile, the preferences and the consents of an account, and their  *)
(* export.  No row is shared with another account, so the module is about  *)
(* one, asked for by its owner or by an administrator (_authorize).        *)
(* What PUT /preferences replaces is in four tables, and get_user reads    *)
(* them one SELECT after another, each of which sees what is committed by  *)
(* then (READ COMMITTED): the module splits both transactions.             *)
(***************************************************************************)
EXTENDS Integers, Sequences, FiniteSets

CONSTANTS Requests,    \* each is of any kind; those that replace or grant something name what they write
          Registered,  \* what create_user wrote
          NULL

ASSUME ProfileAssumption == Registered \notin Requests /\ NULL \notin Requests \cup {Registered}

VARIABLES
  is_active,  \* usuario.is_active
  filas,      \* in each table, the writers whose rows are committed in it
  consent,    \* table consent, by the request that granted it
  auditoria,  \* the requests whose success is in audit_events
  request,    \* local state of each request
  history     \* history: who wrote the profile and who the preferences, in order

vars == <<is_active, filas, consent, auditoria, request, history>>

Writer == Requests \cup {Registered}

\* The tables of the preferences; the profile is columns of usuario.
Preferencias == {"preferencia_usuario", "usuario_deporte", "disponibilidad", "preferencia_perfil"}
Tables == Preferencias \cup {"usuario"}

\* The SELECTs of get_user.  The last one, of the consents, takes no part in what follows.
SelectOrder == <<"usuario", "preferencia_usuario", "usuario_deporte", "disponibilidad", "preferencia_perfil">>

WrittenIn(table) == IF table = "usuario" THEN history.perfil ELSE history.preferencias

\* gone, the rows a PUT has deleted in its transaction; seen, what get_user has read; answer, the revoked_at a
\* revocation is answered with; since, how much had been written when the request began to read.
Idle == [kind |-> NULL, phase |-> "idle", consent |-> NULL, answer |-> NULL,
         gone |-> [t \in {} |-> {}], seen |-> [t \in {} |-> {}], since |-> [perfil |-> 1, preferencias |-> 1]]

Init ==
  /\ is_active = TRUE
  /\ filas = [t \in Tables |-> {Registered}]
  /\ consent = [c \in {} |-> NULL]
  /\ auditoria = {}
  /\ request = [r \in Requests |-> Idle]
  /\ history = [perfil |-> <<Registered>>, preferencias |-> <<Registered>>]

In(r, kind, phase) == request[r].kind = kind /\ request[r].phase = phase
Go(r, phase) == request' = [request EXCEPT ![r].phase = phase]
Fail(r) == request' = [request EXCEPT ![r] = [Idle EXCEPT !.kind = request[r].kind, !.phase = "failed"]]

\* What had been written of each thing, as far as the request can tell.
WrittenByNow == [perfil |-> Len(history.perfil), preferencias |-> Len(history.preferencias)]

\* get_current_user, _authorize and _get_user_or_404: the account is there.  A GET then reads it: "export" is one that
\* is audited (of the export or the profile), "get" one that is not (of the preferences, the role or the consents).
Arrive(r, kind, c) ==
  /\ request[r].phase = "idle"
  /\ is_active
  /\ request' = [request EXCEPT ![r] =
       [Idle EXCEPT !.kind = kind, !.phase = IF kind \in {"get", "export"} THEN "reading" ELSE "arrived",
                    !.consent = c, !.since = WrittenByNow]]
  /\ UNCHANGED <<is_active, filas, consent, auditoria, history>>

-----------------------------------------------------------------------------
(* replace_preferences and replace_profile                                  *)

\* Between its first statement and its commit a PUT holds the row of preferencia_usuario.
InTransaction(r) == request[r].phase \in {"upserted", "sports", "windows"}

\* Mistake: ON CONFLICT DO NOTHING, which locks no row.
LockableAlways == TRUE

\* ON CONFLICT DO UPDATE waits for the transaction that holds the row.
Lockable == \A q \in Requests : ~InTransaction(q)

\* The upsert of preferencia_usuario, which comes first.
PutUpsert(r) ==
  /\ In(r, "preferences", "arrived")
  /\ Lockable
  /\ Go(r, "upserted")
  /\ UNCHANGED <<is_active, filas, consent, auditoria, history>>

\* A DELETE removes the rows that are committed when it begins; the INSERTs that follow it see no other.
Delete(r, table, phase) ==
  request' = [request EXCEPT ![r].phase = phase,
                             ![r].gone = [t \in DOMAIN @ \cup {table} |-> IF t = table THEN filas[t] ELSE @[t]]]

\* _replace_deportes, then _replace_disponibilidad.
PutReplace(r) ==
  /\ \/ In(r, "preferences", "upserted") /\ Delete(r, "usuario_deporte", "sports")
     \/ In(r, "preferences", "sports") /\ Delete(r, "disponibilidad", "windows")
  /\ UNCHANGED <<is_active, filas, consent, auditoria, history>>

\* Mistake: the user looked up before the change is what is answered.
AnsweringFirst(r, written) ==
  [request EXCEPT ![r].phase = "read", ![r].gone = Idle.gone, ![r].seen = filas, ![r].since = written]

\* _get_user_or_raise, after the commit: the account is read again.
ReadingAgain(r, written) ==
  [request EXCEPT ![r].phase = "reading", ![r].gone = Idle.gone, ![r].since = written]

\* _replace_objetivos_zona and the commit: one row in each of two tables, new rows in place of the deleted ones in
\* the other two.
PutCommit(r) ==
  /\ In(r, "preferences", "windows")
  /\ filas' = [t \in Tables |-> CASE t \in DOMAIN request[r].gone -> (filas[t] \ request[r].gone[t]) \cup {r}
                                  [] t = "usuario" -> filas[t]
                                  [] OTHER -> {r}]
  /\ history' = [history EXCEPT !.preferencias = Append(@, r)]
  /\ request' = ReadingAgain(r, [WrittenByNow EXCEPT !.preferencias = @ + 1])
  /\ UNCHANGED <<is_active, consent, auditoria>>

\* The UPDATE of replace_profile asks for no is_active: the row of a deleted account is written too.
ProfileCommit(r) ==
  /\ In(r, "profile", "arrived")
  /\ filas' = [filas EXCEPT !["usuario"] = {r}]
  /\ history' = [history EXCEPT !.perfil = Append(@, r)]
  /\ request' = ReadingAgain(r, [WrittenByNow EXCEPT !.perfil = @ + 1])
  /\ UNCHANGED <<is_active, consent, auditoria>>

\* get_user, one SELECT at a time.  The first one finds no account that is not active: a 404, or the KeyError of
\* _get_user_or_raise once the change is committed.
Select(r) ==
  LET seen == request[r].seen
      table == SelectOrder[Cardinality(DOMAIN seen) + 1]
  IN /\ request[r].phase = "reading"
     /\ IF table = "usuario" /\ ~is_active
        THEN Fail(r)
        ELSE request' = [request EXCEPT
               ![r].seen = [t \in DOMAIN @ \cup {table} |-> IF t = table THEN filas[t] ELSE @[t]],
               ![r].phase = IF table = "preferencia_perfil" THEN "read" ELSE "reading"]
     /\ UNCHANGED <<is_active, filas, consent, auditoria, history>>

-----------------------------------------------------------------------------
(* Consents                                                                 *)

GrantCommit(r) ==
  /\ In(r, "grant", "arrived")
  /\ consent' = [c \in DOMAIN consent \cup {r} |->
                   IF c = r THEN [status |-> "active", revoked_at |-> NULL] ELSE consent[c]]
  /\ Go(r, "read")
  /\ UNCHANGED <<is_active, filas, auditoria, history>>

\* Mistake: the UPDATE does not ask for status = 'active'.
RevocableAlways(c) == TRUE

\* The UPDATE changes a consent that is active, also one it waited for another revocation to leave.
Revocable(c) == consent[c].status = "active"

\* Mistake: the UPDATE does not set revoked_at.
RevokeCommitUndated(r) ==
  /\ In(r, "revoke", "arrived")
  /\ consent' = [consent EXCEPT ![request[r].consent].status = "revoked"]
  /\ Go(r, "read")
  /\ UNCHANGED <<is_active, filas, auditoria, history>>

\* revoke_consent: the UPDATE or, when it changes nothing, the SELECT of the row as it is.  A moment is named by the
\* request whose transaction began then.
RevokeCommit(r) ==
  LET c == request[r].consent
      revoked_at == IF Revocable(c) THEN r ELSE consent[c].revoked_at
  IN /\ In(r, "revoke", "arrived")
     /\ consent' = [consent EXCEPT ![c] = [status |-> "revoked", revoked_at |-> revoked_at]]
     /\ request' = [request EXCEPT ![r].phase = "read", ![r].answer = revoked_at]
     /\ UNCHANGED <<is_active, filas, auditoria, history>>

-----------------------------------------------------------------------------
\* What is audited, and when: a change once it is committed and read again, an export once it is read.
Auditable(r) == request[r].kind # "get" /\ request[r].phase = "read"

Audit(r) ==
  /\ Auditable(r)
  /\ r \notin auditoria
  /\ auditoria' = auditoria \cup {r}
  /\ UNCHANGED <<is_active, filas, consent, request, history>>

\* The response.
Answer(r) ==
  /\ request[r].phase = "read"
  /\ request[r].kind = "get" \/ r \in auditoria
  /\ Go(r, "done")
  /\ UNCHANGED <<is_active, filas, consent, auditoria, history>>

\* The process dies or PostgreSQL fails: a transaction in progress is rolled back.
Lost(r) ==
  /\ request[r].phase \notin {"idle", "done", "failed"}
  /\ Fail(r)
  /\ UNCHANGED <<is_active, filas, consent, auditoria, history>>

\* delete_account, which is in LiveLocation.
DeleteAccount ==
  /\ is_active
  /\ is_active' = FALSE
  /\ UNCHANGED <<filas, consent, auditoria, request, history>>

Step(r) ==
  \/ \E kind \in {"preferences", "profile", "get", "export", "grant"} : Arrive(r, kind, NULL)
  \/ \E c \in DOMAIN consent : Arrive(r, "revoke", c)
  \/ PutUpsert(r) \/ PutReplace(r) \/ PutCommit(r) \/ ProfileCommit(r) \/ Select(r)
  \/ GrantCommit(r) \/ RevokeCommit(r) \/ Audit(r) \/ Answer(r) \/ Lost(r)

Next == DeleteAccount \/ \E r \in Requests : Step(r)

Spec == Init /\ [][Next]_vars

-----------------------------------------------------------------------------
(* Properties                                                               *)

\* Types of the tables and of the local state of the requests.
TypeOK ==
  /\ is_active \in BOOLEAN
  /\ filas \in [Tables -> SUBSET Writer]
  /\ DOMAIN consent \subseteq Requests
  /\ consent \in [DOMAIN consent -> [status : {"active"}, revoked_at : {NULL}] \cup [status : {"revoked"}, revoked_at : Requests]]
  /\ auditoria \subseteq Requests
  /\ \A r \in Requests :
       /\ request[r].kind \in {"preferences", "profile", "get", "export", "grant", "revoke", NULL}
       /\ request[r].phase \in {"idle", "arrived", "upserted", "sports", "windows", "reading", "read", "done", "failed"}
       /\ request[r].consent \in Requests \cup {NULL} /\ request[r].answer \in Requests \cup {NULL}
       /\ DOMAIN request[r].gone \subseteq {"usuario_deporte", "disponibilidad"}
       /\ \A t \in DOMAIN request[r].gone : request[r].gone[t] \subseteq Writer
       /\ DOMAIN request[r].seen \subseteq Tables
       /\ \A t \in DOMAIN request[r].seen : request[r].seen[t] \subseteq Writer
       /\ request[r].since \in [perfil : Nat, preferencias : Nat]
  /\ history.perfil \in Seq(Writer) /\ history.preferencias \in Seq(Writer)

\* However many PUTs replace the preferences at once, the four tables hold those of exactly one of them, all of it
\* and nothing else: deletions and insertions of two never mix.
PreferencesWhole ==
  LET last == history.preferencias[Len(history.preferencias)] IN \A t \in Preferencias : filas[t] = {last}

\* What get_user reads may mix several PUTs, but each part was current at some moment of the request, later SELECTs
\* see no less than earlier ones, and the answer of a PUT is made of its own values or of later ones.
AnswersCurrent ==
  \A r \in Requests :
    LET seen == request[r].seen
        Read(t, k) == k \in DOMAIN WrittenIn(t) /\ seen[t] = {WrittenIn(t)[k]}
        first == IF request[r].kind = "profile" THEN "perfil" ELSE "preferencias"
    IN request[r].phase \in {"read", "done"} /\ request[r].kind \notin {"grant", "revoke"} =>
         /\ \E k \in request[r].since.perfil .. Len(history.perfil) : Read("usuario", k)
         /\ \E k \in [2..5 -> request[r].since.preferencias .. Len(history.preferencias)] :
              \A i \in 2..5 : Read(SelectOrder[i], k[i]) /\ (i > 2 => k[i - 1] <= k[i])
         /\ request[r].kind \in {"preferences", "profile"} => history[first][request[r].since[first]] = r

\* A consent is revoked once: the date of the first revocation stays, and everybody who revokes it is told that one.
RevocationStands ==
  \A r \in Requests : request[r].answer # NULL =>
    consent[request[r].consent] = [status |-> "revoked", revoked_at |-> request[r].answer]

\* The audit tells no more than what happened, and of what was answered all of it: a row is of a change that is
\* committed or of an export that was read, whatever fails in between; and nothing audited is answered without its row.
AuditTruthful ==
  \A r \in Requests :
    /\ r \in auditoria =>
         CASE request[r].kind = "preferences" -> \E k \in DOMAIN history.preferencias : history.preferencias[k] = r
           [] request[r].kind = "profile" -> \E k \in DOMAIN history.perfil : history.perfil[k] = r
           [] request[r].kind = "grant" -> r \in DOMAIN consent
           [] request[r].kind = "revoke" -> \E c \in DOMAIN consent : consent[c].status = "revoked"
           [] OTHER -> request[r].phase \in {"read", "done", "failed"}
    /\ request[r].phase = "done" /\ request[r].kind # "get" => r \in auditoria
=============================================================================
