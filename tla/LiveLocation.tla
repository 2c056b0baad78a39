----------------------------- MODULE LiveLocation -----------------------------
(***************************************************************************)
(* The live position of the athletes (table ubicacion_actual), what uses   *)
(* it (GET /suggestions) and what removes it: DELETE /location and the     *)
(* deletion of the account.  Every call of the repository is a transaction *)
(* of its own, so the requests that concern one person interleave between  *)
(* them.                                                                   *)
(***************************************************************************)
EXTENDS Integers, FiniteSets

CONSTANTS Accounts,
          Athletes,    \* those with a role of ATHLETE_ROLES; the others are administrators
          Zona,        \* the fixed zone of each profile, or NULL
          Places,      \* the positions, on a line
          Requests,    \* each is of any kind, and of any person who can make it
          NULL,
          MinMove,     \* LOCATION_MIN_MOVE_METERS
          TouchAfter,  \* TOUCH_AFTER
          MaxAge,      \* LOCATION_MAX_AGE_MINUTES
          MaxTime      \* bound: the last instant of the model

ASSUME LiveLocationAssumption ==
  /\ Athletes \subseteq Accounts /\ Places \subseteq Int /\ Zona \in [Accounts -> Places \cup {NULL}]
  /\ MinMove \in Nat \ {0} /\ TouchAfter \in Nat \ {0} /\ MaxAge \in Nat \ {0} /\ MaxTime \in Nat
  /\ NULL \notin Int /\ NULL \notin Accounts

VARIABLES
  clock,
  activo,      \* usuario.is_active
  ubicacion,   \* table ubicacion_actual, NULL where an account has no row
  auditoria,   \* the requests whose success is in audit_events
  request,     \* local state of each request
  after        \* history: the requests that were over, with an effect, when each one arrived

vars == <<clock, activo, ubicacion, auditoria, request, after>>

Ubicacion == [at : Places, actualizada_en : Nat]

\* at, what an update reports; current and now, what it reads; updated, whether it saved; answer, the updated_at
\* it ends with; since, origin and shown, what a search works with.
Idle == [kind |-> NULL, phase |-> "idle", user |-> NULL, at |-> NULL, current |-> NULL, now |-> 0, updated |-> FALSE,
         answer |-> NULL, since |-> 0, origin |-> NULL, shown |-> {}]

Init ==
  /\ clock = 0
  /\ activo = [u \in Accounts |-> TRUE]
  /\ ubicacion = [u \in Accounts |-> NULL]
  /\ auditoria = {}
  /\ request = [r \in Requests |-> Idle]
  /\ after = [r \in Requests |-> {}]

In(r, kind, phase) == request[r].kind = kind /\ request[r].phase = phase
Over(r) == request[r].phase \in {"done", "failed"}
Effect(r) == request[r].phase = "done" \/ request[r].updated

\* Abstract: the distance of two positions.
Distance(p, q) == IF p < q THEN q - p ELSE p - q

\* get_current_user: only an account that is active gets in.  A 403 that follows changes nothing: such a request
\* is not made.
Arrives(r, kind, by, u, at) ==
  /\ request[r].phase = "idle"
  /\ activo[by]
  /\ request' = [request EXCEPT ![r] = [@ EXCEPT !.kind = kind, !.phase = "arrived", !.user = u, !.at = at]]
  /\ after' = [after EXCEPT ![r] = {q \in Requests : Over(q) /\ Effect(q)}]
  /\ UNCHANGED <<clock, activo, ubicacion, auditoria>>

Go(r, phase) == request' = [request EXCEPT ![r].phase = phase]

\* The row of u is not locked by a deletion of the account: a statement that comes to a row that another transaction
\* deleted waits until it ends.
RowFree(u) == \A q \in Requests : ~(In(q, "removal", "deleted") /\ request[q].user = u)

\* The request ends without success.  What it saved before is kept for the properties.
Refuse(r) ==
  request' = [request EXCEPT ![r] =
    IF @.updated THEN [@ EXCEPT !.phase = "failed"] ELSE [Idle EXCEPT !.phase = "failed"]]

-----------------------------------------------------------------------------
(* PUT /location                                                            *)

\* _require_athlete
PutArrive(r) == \E u \in Athletes, at \in Places : Arrives(r, "put", u, u, at)

PutRead(r) ==
  /\ In(r, "put", "arrived")
  /\ request' = [request EXCEPT ![r] = [@ EXCEPT !.phase = "read", !.current = ubicacion[request[r].user]]]
  /\ UNCHANGED <<clock, activo, ubicacion, auditoria, after>>

\* Mistake: a move of exactly the minimum distance is a short one.
MovedMore(r) ==
  LET current == request[r].current IN current # NULL => Distance(current.at, request[r].at) > MinMove

\* Whether the position read is none, or far enough from the one reported.
Moved(r) ==
  LET current == request[r].current IN current # NULL => Distance(current.at, request[r].at) >= MinMove

\* save_location: an upsert, whatever the table and the account hold by now.
PutSave(r) ==
  /\ In(r, "put", "read")
  /\ Moved(r) /\ RowFree(request[r].user)
  /\ ubicacion' = [ubicacion EXCEPT ![request[r].user] = [at |-> request[r].at, actualizada_en |-> clock]]
  /\ request' = [request EXCEPT ![r] = [@ EXCEPT !.phase = "settled", !.updated = TRUE, !.current = NULL]]
  /\ UNCHANGED <<clock, activo, auditoria, after>>

\* Mistake: the date is renewed only once the fifteen minutes are over.
TouchOverdue(r) == clock - request[r].current.actualizada_en > TouchAfter

\* Whether the date read is old enough to be renewed.
TouchDue(r) == clock - request[r].current.actualizada_en >= TouchAfter

PutStill(r) ==
  /\ In(r, "put", "read")
  /\ ~Moved(r)
  /\ request' = [request EXCEPT ![r] = [@ EXCEPT !.phase = IF TouchDue(r) THEN "touching" ELSE "settled", !.now = clock]]
  /\ UNCHANGED <<clock, activo, ubicacion, auditoria, after>>

\* Mistake: the date is renewed by an upsert too, of the position read.
TouchedUpsert(r) == [at |-> request[r].current.at, actualizada_en |-> clock]

\* Mistake: the date is renewed by an upsert with no position.
TouchedBlank(r) ==
  LET row == ubicacion[request[r].user]
  IN [at |-> IF row = NULL THEN NULL ELSE row.at, actualizada_en |-> clock]

\* touch_location: an UPDATE, nothing where there is no row any more.
Touched(r) ==
  LET row == ubicacion[request[r].user]
  IN IF row = NULL THEN NULL ELSE [row EXCEPT !.actualizada_en = clock]

PutTouch(r) ==
  /\ In(r, "put", "touching")
  /\ RowFree(request[r].user)
  /\ ubicacion' = [ubicacion EXCEPT ![request[r].user] = Touched(r)]
  /\ Go(r, "settled")
  /\ UNCHANGED <<clock, activo, auditoria, after>>

\* The date of the response is read once more.
PutAnswer(r) ==
  LET row == ubicacion[request[r].user]
  IN /\ In(r, "put", "settled")
     /\ request' = [request EXCEPT ![r] = [@ EXCEPT !.phase = "done", !.current = NULL,
                      !.answer = IF row = NULL THEN NULL ELSE row.actualizada_en]]
     /\ UNCHANGED <<clock, activo, ubicacion, auditoria, after>>

-----------------------------------------------------------------------------
(* DELETE /location and DELETE /users/{id}                                  *)

DropArrive(r) == \E u \in Athletes : Arrives(r, "drop", u, u, NULL)

DropCommit(r) ==
  /\ In(r, "drop", "arrived")
  /\ RowFree(request[r].user)
  /\ ubicacion' = [ubicacion EXCEPT ![request[r].user] = NULL]
  /\ Go(r, "done")
  /\ UNCHANGED <<clock, activo, auditoria, after>>

\* _authorize: the person, or an administrator.
RemovalArrive(r) ==
  \E by, u \in Accounts : (by = u \/ by \notin Athletes) /\ Arrives(r, "removal", by, u, NULL)

\* _get_user_or_404
RemovalLookUp(r) ==
  /\ In(r, "removal", "arrived")
  /\ IF activo[request[r].user] THEN Go(r, "found") ELSE Refuse(r)
  /\ UNCHANGED <<clock, activo, ubicacion, auditoria, after>>

\* The deletion is recorded before it is done.
RemovalAudit(r) ==
  /\ In(r, "removal", "found")
  /\ auditoria' = auditoria \cup {r}
  /\ Go(r, "audited")
  /\ UNCHANGED <<clock, activo, ubicacion, after>>

\* delete_user is one transaction of two statements.  The DELETE: of the position that is there when it begins, if any.
\* Others see it gone when the transaction commits.
RemovalDelete(r) ==
  /\ In(r, "removal", "audited")
  /\ RowFree(request[r].user)
  /\ Go(r, IF ubicacion[request[r].user] = NULL THEN "missed" ELSE "deleted")
  /\ UNCHANGED <<clock, activo, ubicacion, auditoria, after>>

\* The UPDATE of the account, and the commit; what it answers is ignored.  A position saved since the DELETE found none
\* stays.
RemovalCommit(r) ==
  /\ In(r, "removal", "deleted") \/ In(r, "removal", "missed")
  /\ ubicacion' = IF In(r, "removal", "missed") THEN ubicacion ELSE [ubicacion EXCEPT ![request[r].user] = NULL]
  /\ activo' = [activo EXCEPT ![request[r].user] = FALSE]
  /\ Go(r, "done")
  /\ UNCHANGED <<clock, auditoria, after>>

-----------------------------------------------------------------------------
(* GET /suggestions                                                         *)

SearchArrive(r) == \E u \in Accounts : Arrives(r, "search", u, u, NULL)

\* fresh_since is read once, before every query.
SearchStart(r) ==
  /\ In(r, "search", "arrived")
  /\ request' = [request EXCEPT ![r] = [@ EXCEPT !.phase = "started", !.since = clock - MaxAge]]
  /\ UNCHANGED <<clock, activo, ubicacion, auditoria, after>>

\* Where a search places a person: at the live position while it is recent, else in the zone of the profile.
Placed(u, since) ==
  IF ubicacion[u] # NULL /\ ubicacion[u].actualizada_en >= since
  THEN [at |-> ubicacion[u].at, live |-> TRUE]
  ELSE [at |-> Zona[u], live |-> FALSE]

\* get_location of who searches.  A radius needs a place to measure from: 422.
SearchOrigin(r, radius) ==
  LET origin == Placed(request[r].user, request[r].since)
  IN /\ In(r, "search", "started")
     /\ IF radius /\ origin.at = NULL
        THEN Refuse(r)
        ELSE request' = [request EXCEPT ![r] = [@ EXCEPT !.phase = "placed", !.origin = origin]]
     /\ UNCHANGED <<clock, activo, ubicacion, auditoria, after>>

\* Mistake: the query does not look at is_active.
CandidateAny(u, c) == c \in Athletes /\ c # u

\* Who a search may show, but for the profile and the blocks.
Candidate(u, c) == c \in Athletes /\ c # u /\ activo[c]

\* list_suggestion_candidates: one query.  Which candidates it keeps depends on the filters, the distance, the limit.
SearchQuery(r, shown) ==
  /\ In(r, "search", "placed")
  /\ \A c \in shown : Candidate(request[r].user, c)
  /\ request' = [request EXCEPT ![r] = [@ EXCEPT !.phase = "found", !.since = 0,
                   !.shown = {[user |-> c, place |-> Placed(c, request[r].since)] : c \in shown}]]
  /\ UNCHANGED <<clock, activo, ubicacion, auditoria, after>>

\* The cards are answered only once the search is recorded.
SearchAudit(r) ==
  /\ In(r, "search", "found")
  /\ auditoria' = auditoria \cup {r}
  /\ Go(r, "done")
  /\ UNCHANGED <<clock, activo, ubicacion, after>>

-----------------------------------------------------------------------------
\* A call of the repository raises, or the process stops: the request ends where it was.
Fail(r) ==
  /\ request[r].phase # "idle" /\ ~Over(r)
  /\ Refuse(r)
  /\ UNCHANGED <<clock, activo, ubicacion, auditoria, after>>

Tick ==
  /\ clock < MaxTime
  /\ clock' = clock + 1
  /\ UNCHANGED <<activo, ubicacion, auditoria, request, after>>

Put(r) == PutArrive(r) \/ PutRead(r) \/ PutSave(r) \/ PutStill(r) \/ PutTouch(r) \/ PutAnswer(r)
Drop(r) == DropArrive(r) \/ DropCommit(r)
Removal(r) == RemovalArrive(r) \/ RemovalLookUp(r) \/ RemovalAudit(r) \/ RemovalDelete(r) \/ RemovalCommit(r)
Search(r) ==
  \/ SearchArrive(r) \/ SearchStart(r) \/ SearchAudit(r)
  \/ \E radius \in BOOLEAN : SearchOrigin(r, radius)
  \/ \E shown \in SUBSET Athletes : SearchQuery(r, shown)

Next == Tick \/ \E r \in Requests : Put(r) \/ Drop(r) \/ Removal(r) \/ Search(r) \/ Fail(r)

Spec == Init /\ [][Next]_vars

-----------------------------------------------------------------------------
(* Properties                                                               *)

\* Every column and every request holds what it may hold.
TypeOK ==
  /\ clock \in 0..MaxTime
  /\ activo \in [Accounts -> BOOLEAN]
  /\ ubicacion \in [Accounts -> Ubicacion \cup {NULL}]
  /\ auditoria \subseteq Requests
  /\ after \in [Requests -> SUBSET Requests]
  /\ \A r \in Requests :
       /\ request[r].kind \in {NULL, "put", "drop", "removal", "search"}
       /\ request[r].phase \in {"idle", "arrived", "read", "touching", "settled", "found", "audited",
                               "deleted", "missed", "started", "placed", "done", "failed"}
       /\ request[r].user \in Accounts \cup {NULL}
       /\ request[r].at \in Places \cup {NULL}
       /\ request[r].current \in Ubicacion \cup {NULL}
       /\ request[r].answer \in Nat \cup {NULL}
       /\ request[r].updated \in BOOLEAN

\* The requests of some kinds about u that were answered with success.
Answered(kinds, u) ==
  {r \in Requests : request[r].kind \in kinds /\ request[r].user = u /\ request[r].phase = "done"}

\* The updates of u that have saved their position.
Saved(u) == {r \in Requests : request[r].updated /\ request[r].user = u}

\* What update_location promises with its minimum move: however its requests interleave, and however slowly
\* a person walks, the position kept is less than the minimum from what the person reported in an update
\* that no later, answered one supersedes.
LocationFollowsOwner ==
  \A u \in Accounts : ubicacion[u] # NULL =>
    \E r \in Saved(u) \cup Answered({"put"}, u) :
      /\ Distance(request[r].at, ubicacion[u].at) < MinMove
      /\ \A q \in Answered({"put"}, u) : r \notin after[q]

\* Once DELETE /location or the deletion of the account is answered, only an update that was not over when it
\* arrived may leave a position: renewing the date of a removed one does not bring it back.  After a deletion of the
\* account it is one that had arrived before the answer too: whoever comes later is not let in.
RemovedStaysRemoved ==
  \A u \in Accounts : ubicacion[u] # NULL =>
    \E r \in Saved(u) :
      /\ request[r].at = ubicacion[u].at
      /\ \A d \in Answered({"drop", "removal"}, u) : r \notin after[d]
      /\ \A d \in Answered({"removal"}, u) : d \notin after[r]

\* "so a person who stays still does not expire": the position that the response of an update finds kept was
\* dated less than TOUCH_AFTER before the update looked, whatever other requests did to it meanwhile.
StillPersonRenewed ==
  \A r \in Requests : In(r, "put", "done") /\ ~request[r].updated /\ request[r].answer # NULL =>
    request[r].now - request[r].answer < TouchAfter

\* A search never shows an account whose deletion was answered before the search arrived, and places nobody,
\* not even who searches, at a position that DELETE /location had removed by then.
SearchSeesRemovals ==
  \A s \in Requests, c \in Accounts :
    LET cards == {card \in request[s].shown : card.user = c}
        live == {card \in cards : card.place.live} # {} \/
                (request[s].origin # NULL /\ request[s].user = c /\ request[s].origin.live)
    IN /\ cards # {} => Answered({"removal"}, c) \cap after[s] = {}
       /\ live => \E r \in Saved(c) : \A d \in Answered({"drop"}, c) \cap after[s] : r \notin after[d]

\* No account is deleted without its row in the audit, even when the request stops half way.
DeletionRecorded ==
  \A u \in Accounts : ~activo[u] => \E r \in auditoria : request[r].kind = "removal" /\ request[r].user = u
=============================================================================
