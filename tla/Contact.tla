------------------------------- MODULE Contact -------------------------------
(***************************************************************************)
(* HU-42 and HU-51: who may reach whom.  Blocks (table bloqueo_usuario)    *)
(* cut what serves one person to another: athlete cards, suggestions and   *)
(* the check that other services make.  Mutes (table silencio_usuario) are *)
(* private lists.  Every call of the repository is a transaction of its    *)
(* own, so a request acts on what it read before others changed it.        *)
(***************************************************************************)
EXTENDS Integers, FiniteSets, SqlNull

CONSTANTS Accounts,
          Athletes,   \* verified accounts with a role of ATHLETE_ROLES
          Requests,   \* each is of any kind, and of any person who can make it
          Past,       \* bound: the tables of blocks that the model starts with, one of them
          Muted,      \* bound: the table of mutes that it starts with
          MaxDeleted  \* bound: how many accounts are deleted

Pairs == {p \in Accounts \X Accounts : p[1] # p[2]}    \* CHECK ..._no_a_si_mismo, of both tables

ASSUME ContactAssumption ==
  /\ Athletes \subseteq Accounts /\ Past \subseteq SUBSET Pairs /\ Muted \subseteq Pairs
  /\ MaxDeleted \in Nat /\ NULL \notin Accounts

VARIABLES
  activo,     \* usuario.is_active
  bloqueo,    \* table bloqueo_usuario: <<bloqueador_id, bloqueado_id>>
  silencio,   \* table silencio_usuario: <<silenciador_id, silenciado_id>>
  seen,       \* the rows of silencio that the DELETE of each request found and has still to take
  held,       \* the rows of silencio that each request deleted or inserted, locked until its transaction ends
  request,    \* local state of each request
  after,      \* history: the requests that were over when each one arrived
  open        \* history: whom each request that shows people could show, at some moment since it arrived

locks == <<seen, held>>
vars == <<activo, bloqueo, silencio, seen, held, request, after, open>>

\* ids, the people the request is about; off, those a PATCH unmutes; todo, those left to look up or to insert;
\* shown, those it answers with; applied, whether its change is committed.
Idle == [kind |-> NULL, phase |-> "idle", user |-> NULL, ids |-> {}, off |-> {}, todo |-> {}, shown |-> {},
         applied |-> FALSE]

Init ==
  /\ activo = [u \in Accounts |-> TRUE]
  /\ bloqueo \in Past
  /\ silencio = Muted
  /\ seen = [r \in Requests |-> {}]
  /\ held = [r \in Requests |-> {}]
  /\ request = [r \in Requests |-> Idle]
  /\ after = [r \in Requests |-> {}]
  /\ open = [r \in Requests |-> {}]

In(r, kind, phase) == request[r].kind = kind /\ request[r].phase = phase
Over(r) == request[r].phase \in {"done", "failed", "KeyError"}

\* A block of either one.
Blocked(table, a, b) == <<a, b>> \in table \/ <<b, a>> \in table

\* Whom a reader of table may be shown now: those with no block either way and, but for the check, an account.
Open(kind, table, u) ==
  {b \in Accounts : /\ kind \in {"cards", "suggestions", "check"} /\ ~Blocked(table, u, b)
                    /\ kind # "check" => activo[b]}

\* get_current_user.  What a validator or a role refuses next (422, 403) changes nothing: such a request is not made.
Arrives(r, kind, u, ids, off, todo) ==
  /\ request[r].phase = "idle"
  /\ activo[u]
  /\ request' = [request EXCEPT ![r] =
       [@ EXCEPT !.kind = kind, !.phase = "arrived", !.user = u, !.ids = ids, !.off = off, !.todo = todo]]
  /\ after' = [after EXCEPT ![r] = {q \in Requests : Over(q)}]
  /\ open' = [open EXCEPT ![r] = Open(kind, bloqueo, u)]
  /\ UNCHANGED <<activo, bloqueo, silencio>>

Go(r, phase) == request' = [request EXCEPT ![r].phase = phase]

\* The request ends without success.  What it committed before is kept for the properties.
Refuse(r) ==
  request' = [request EXCEPT ![r] =
    IF @.applied THEN [@ EXCEPT !.phase = "failed", !.todo = {}, !.shown = {}] ELSE [Idle EXCEPT !.phase = "failed"]]

Apply(r) == request' = [request EXCEPT ![r] = [@ EXCEPT !.phase = "placed", !.applied = TRUE]]

\* Both tables and the history stay as they are.
Reads == UNCHANGED <<activo, bloqueo, silencio, after, open>>

\* The history, once bloqueo has its new value.
Opened == open' = [r \in Requests |->
                     IF Over(r) THEN open[r] ELSE open[r] \cup Open(request[r].kind, bloqueo', request[r].user)]

-----------------------------------------------------------------------------
(* POST /block, PUT /me/blocks/{id}, DELETE /block/{id}                     *)

\* Mistake: one may block oneself.
BlockArriveAny(r) ==
  \E p \in Accounts \X Accounts, kind \in {"POST", "PUT"} : Arrives(r, kind, p[1], {p[2]}, {}, {})

\* The first reads the block back to answer it, the second does not.
BlockArrive(r) ==
  \E p \in Pairs, kind \in {"POST", "PUT"} : Arrives(r, kind, p[1], {p[2]}, {}, {})

IsBlock(r) == request[r].kind \in {"POST", "PUT"}
PairOf(r) == <<request[r].user, CHOOSE b \in request[r].ids : TRUE>>

\* _get_user_or_404
BlockLookUp(r) ==
  /\ IsBlock(r) /\ request[r].phase = "arrived"
  /\ IF activo[PairOf(r)[2]] THEN Go(r, "found") ELSE Refuse(r)
  /\ Reads

\* block_user: ON CONFLICT DO NOTHING.
WithBlock(p) == bloqueo \cup {p}

BlockCommit(r) ==
  /\ IsBlock(r) /\ request[r].phase = "found"
  /\ bloqueo' = WithBlock(PairOf(r))
  /\ Opened
  /\ Apply(r)
  /\ UNCHANGED <<activo, silencio, after>>

\* record_audit
BlockAudit(r) ==
  /\ IsBlock(r) /\ request[r].phase = "placed"
  /\ Go(r, IF request[r].kind = "POST" THEN "recorded" ELSE "done")
  /\ Reads

\* blocked_user: dict(list_blocked(...))[user_id], a KeyError when the block is gone.
BlockReadBack(r) ==
  /\ In(r, "POST", "recorded")
  /\ Go(r, IF PairOf(r) \in bloqueo THEN "listed" ELSE "KeyError")
  /\ Reads

\* _get_user_or_404 once more, with the block in place.
BlockAnswer(r) ==
  /\ In(r, "POST", "listed")
  /\ IF activo[PairOf(r)[2]] THEN Go(r, "done") ELSE Refuse(r)
  /\ Reads

UnblockArrive(r) == \E p \in Pairs : Arrives(r, "unblock", p[1], {p[2]}, {}, {})

\* Mistake: the block of the other person goes too.
WithoutBlocks(p) == bloqueo \ {p, <<p[2], p[1]>>}

WithoutBlock(p) == bloqueo \ {p}

\* unblock_user: of anyone, blocked or not.
UnblockCommit(r) ==
  /\ In(r, "unblock", "arrived")
  /\ bloqueo' = WithoutBlock(PairOf(r))
  /\ Opened
  /\ Apply(r)
  /\ UNCHANGED <<activo, silencio, after>>

UnblockAudit(r) ==
  /\ In(r, "unblock", "placed")
  /\ Go(r, "done")
  /\ Reads

-----------------------------------------------------------------------------
(* POST /athletes/cards, GET /suggestions, GET /blocks/check                *)

\* Only verified athletes get cards.
CardsArrive(r) ==
  \E u \in Athletes : \E ids \in SUBSET Accounts : ids # {} /\ Arrives(r, "cards", u, ids, {}, {})

\* Mistake: only those whom the person blocked.
BlockedByMe(u, ids) == {b \in ids : <<u, b>> \in bloqueo}

\* blocked_with: the blocks of either one, read once for the whole list.
BlockedWith(u, ids) == {b \in ids : Blocked(bloqueo, u, b)}

CardsRead(r) ==
  LET x == request[r]
  IN /\ In(r, "cards", "arrived")
     /\ request' = [request EXCEPT ![r] = [@ EXCEPT !.phase = "listing", !.todo = x.ids \ BlockedWith(x.user, x.ids)]]
     /\ Reads

\* get_user of the next in the list, left out unless it is active and, for a card, an athlete.
ListNext(r, b) ==
  LET x == request[r]
      kept == IF activo[b] /\ (x.kind = "cards" => b \in Athletes) THEN {b} ELSE {}
  IN /\ x.phase = "listing"
     /\ b \in x.todo
     /\ request' = [request EXCEPT ![r] = [@ EXCEPT !.todo = x.todo \ {b}, !.shown = x.shown \cup kept]]
     /\ Reads

\* The response; a search is recorded first, and shows nothing otherwise.
ListAnswer(r) ==
  /\ request[r].phase = "listing" /\ request[r].todo = {}
  /\ Go(r, "done")
  /\ Reads

SuggestionsArrive(r) == \E u \in Accounts : Arrives(r, "suggestions", u, {}, {}, {})

\* What suggestions.sql says of an account and of blocks.
Candidate(u, c) == c \in Athletes /\ c # u /\ activo[c] /\ ~Blocked(bloqueo, u, c)

\* One query.  Which candidates it keeps depends on the profiles, the filters and the limit.
SuggestionsQuery(r, shown) ==
  /\ In(r, "suggestions", "arrived")
  /\ \A c \in shown : Candidate(request[r].user, c)
  /\ request' = [request EXCEPT ![r] = [@ EXCEPT !.phase = "listing", !.shown = shown]]
  /\ Reads

\* One of the two asks (or an administrator, for them); only "blocked: false" lets the other through.
CheckArrive(r) == \E p \in Pairs : Arrives(r, "check", p[1], {p[2]}, {}, {})

CheckAnswer(r) ==
  LET p == PairOf(r)
  IN /\ In(r, "check", "arrived")
     /\ request' = [request EXCEPT ![r] =
          [@ EXCEPT !.phase = "done", !.shown = IF Blocked(bloqueo, p[1], p[2]) THEN {} ELSE {p[2]}]]
     /\ Reads

-----------------------------------------------------------------------------
(* PATCH /chat-preferences                                                  *)

\* ChatPreferencesUpdate: at least one person, and nobody both ways; nobody mutes (or has muted) oneself.
MutesArrive(r) ==
  \E u \in Accounts : \E mute \in SUBSET (Accounts \ {u}) : \E unmute \in SUBSET (Accounts \ (mute \cup {u})) :
    mute \cup unmute # {} /\ Arrives(r, "mutes", u, mute, unmute, mute) /\ UNCHANGED locks

\* _get_user_or_404 of each one to mute.
MutesLookUp(r, b) ==
  /\ In(r, "mutes", "arrived")
  /\ b \in request[r].todo
  /\ IF activo[b] THEN request' = [request EXCEPT ![r].todo = @ \ {b}] ELSE Refuse(r)
  /\ Reads /\ UNCHANGED locks

\* change_mutes is one transaction of two statements.  What it changes is seen by others when it commits, but its
\* rows are locked from then on: a statement that comes to a row another request holds waits for its transaction.
Row(r, b) == <<request[r].user, b>>
Taken(r, p) == \E q \in Requests \ {r} : p \in held[q]

\* The DELETE: of the rows that are committed when it begins.
MutesDelete(r) ==
  /\ In(r, "mutes", "arrived") /\ request[r].todo = {}
  /\ Go(r, "deleting")
  /\ seen' = [seen EXCEPT ![r] = {Row(r, b) : b \in request[r].off} \cap silencio]
  /\ Reads /\ UNCHANGED held

\* Mistake: no transaction, so that each statement commits on its own.
MutesDeleteRowAtOnce(r, b) ==
  /\ In(r, "mutes", "deleting")
  /\ Row(r, b) \in seen[r] /\ ~Taken(r, Row(r, b))
  /\ seen' = [seen EXCEPT ![r] = @ \ {Row(r, b)}]
  /\ silencio' = silencio \ {Row(r, b)}
  /\ UNCHANGED <<activo, bloqueo, held, request, after, open>>

\* One row after the other: a deletion waits for who holds the row, and is over when that one deleted it.
MutesDeleteRow(r, b) ==
  /\ In(r, "mutes", "deleting")
  /\ Row(r, b) \in seen[r] /\ ~Taken(r, Row(r, b))
  /\ seen' = [seen EXCEPT ![r] = @ \ {Row(r, b)}]
  /\ held' = [held EXCEPT ![r] = @ \cup {Row(r, b)}]
  /\ Reads /\ UNCHANGED request

\* The INSERT.
MutesInsert(r) ==
  /\ In(r, "mutes", "deleting") /\ seen[r] = {}
  /\ request' = [request EXCEPT ![r] = [@ EXCEPT !.phase = "inserting", !.todo = request[r].ids]]
  /\ Reads /\ UNCHANGED locks

\* ON CONFLICT DO NOTHING, with what is committed once nobody holds the row.
MutesInsertRow(r, b) ==
  /\ In(r, "mutes", "inserting")
  /\ b \in request[r].todo /\ ~Taken(r, Row(r, b))
  /\ request' = [request EXCEPT ![r].todo = @ \ {b}]
  /\ held' = [held EXCEPT ![r] = @ \cup ({Row(r, b)} \ silencio)]
  /\ Reads /\ UNCHANGED seen

Deleted(r) == {Row(r, b) : b \in request[r].off} \cap held[r]
Inserted(r) == {Row(r, b) : b \in request[r].ids} \cap held[r]

\* A deleted row is not there any more for another DELETE that had found it.
MutesCommit(r) ==
  /\ In(r, "mutes", "inserting") /\ request[r].todo = {}
  /\ silencio' = (silencio \ Deleted(r)) \cup Inserted(r)
  /\ seen' = [q \in Requests |-> seen[q] \ Deleted(r)]
  /\ held' = [held EXCEPT ![r] = {}]
  /\ Apply(r)
  /\ UNCHANGED <<activo, bloqueo, after, open>>

MutesAudit(r) ==
  /\ In(r, "mutes", "placed")
  /\ Go(r, "recorded")
  /\ Reads /\ UNCHANGED locks

\* chat_preferences: the list as it is now, and then each person.
MutesRead(r) ==
  /\ In(r, "mutes", "recorded")
  /\ request' = [request EXCEPT ![r] =
       [@ EXCEPT !.phase = "listing", !.todo = {b \in Accounts : <<request[r].user, b>> \in silencio}]]
  /\ Reads /\ UNCHANGED locks

-----------------------------------------------------------------------------
\* A call of the repository raises (also when PostgreSQL breaks a deadlock), or the process stops: what was committed
\* stays, and the rest is rolled back.
Fail(r) ==
  /\ request[r].phase # "idle" /\ ~Over(r)
  /\ Refuse(r)
  /\ seen' = [seen EXCEPT ![r] = {}]
  /\ held' = [held EXCEPT ![r] = {}]
  /\ Reads

\* delete_user: the rows of both tables stay, for the row of usuario does.
Deactivate(u) ==
  /\ activo[u] /\ Cardinality({b \in Accounts : ~activo[b]}) < MaxDeleted
  /\ activo' = [activo EXCEPT ![u] = FALSE]
  /\ UNCHANGED <<bloqueo, silencio, request, after, open>>

Block(r) ==
  BlockArrive(r) \/ BlockLookUp(r) \/ BlockCommit(r) \/ BlockAudit(r) \/ BlockReadBack(r) \/ BlockAnswer(r)
Unblock(r) == UnblockArrive(r) \/ UnblockCommit(r) \/ UnblockAudit(r)
Show(r) ==
  \/ CardsArrive(r) \/ CardsRead(r) \/ ListAnswer(r)
  \/ \E b \in Accounts : ListNext(r, b)
  \/ SuggestionsArrive(r)
  \/ \E shown \in SUBSET Athletes : SuggestionsQuery(r, shown)
  \/ CheckArrive(r) \/ CheckAnswer(r)
Mutes(r) ==
  \/ MutesArrive(r) \/ MutesDelete(r) \/ MutesInsert(r) \/ MutesCommit(r) \/ MutesAudit(r) \/ MutesRead(r)
  \/ \E b \in Accounts : MutesLookUp(r, b) \/ MutesDeleteRow(r, b) \/ MutesInsertRow(r, b)

Next ==
  \/ \E r \in Requests : Mutes(r) \/ Fail(r)
  \/ UNCHANGED locks /\ \E r \in Requests : Block(r) \/ Unblock(r) \/ Show(r)
  \/ UNCHANGED locks /\ \E u \in Accounts : Deactivate(u)

Spec == Init /\ [][Next]_vars

-----------------------------------------------------------------------------
(* Properties                                                               *)

\* Every table and every request holds what it may hold; nobody blocks or mutes oneself.
TypeOK ==
  /\ activo \in [Accounts -> BOOLEAN]
  /\ bloqueo \subseteq Pairs /\ silencio \subseteq Pairs
  /\ seen \in [Requests -> SUBSET Pairs] /\ held \in [Requests -> SUBSET Pairs]
  /\ after \in [Requests -> SUBSET Requests] /\ open \in [Requests -> SUBSET Accounts]
  /\ \A r \in Requests :
       /\ request[r].kind \in {NULL, "POST", "PUT", "unblock", "cards", "suggestions", "check", "mutes"}
       /\ request[r].phase \in {"idle", "arrived", "found", "placed", "recorded", "listed", "listing",
                               "deleting", "inserting", "done", "failed", "KeyError"}
       /\ request[r].user \in Accounts \cup {NULL}
       /\ UNION {request[r].ids, request[r].off, request[r].todo, request[r].shown} \subseteq Accounts
       /\ request[r].applied \in BOOLEAN

\* What block promises ("neither one's athlete card is served to the other"): while a block of either one stands
\* from before a request until its answer, neither a card, nor a suggestion, nor a check lets the other through,
\* and a card or a suggestion is of an account that was there, unblocked, at one and the same moment.
BlockCutsContact ==
  \A r \in Requests : request[r].kind \in {"cards", "suggestions", "check"} => request[r].shown \subseteq open[r]

\* The unblocks, by the same person, of the block r places that were not over when r arrived.
Undone(r) ==
  {q \in Requests : request[q].kind = "unblock" /\ request[q].applied /\ PairOf(q) = PairOf(r) /\ q \notin after[r]}

\* A block stands until its own author lifts it: no other request removes it, the one that placed it finds it when
\* it reads it back, and the block of the other person comes and goes on its own.
BlockStands ==
  \A r \in Requests : IsBlock(r) /\ request[r].applied =>
    (PairOf(r) \in bloqueo /\ request[r].phase # "KeyError") \/ Undone(r) # {}

\* The PATCHes of u that were committed.
Mutings(u) == {q \in Requests : request[q].kind = "mutes" /\ request[q].applied /\ request[q].user = u}

\* "Changes to the list of muted people, applied together or not at all", up to what the two statements of another
\* PATCH undo meanwhile.  Together: after a PATCH, each person it mutes is in the list and each one it unmutes is not,
\* unless a PATCH that was not over when it arrived said the opposite of that person; so two at once may end with
\* half of each.  Not at all: nobody comes into the list or leaves it but by a PATCH that was committed.
MutesTogether ==
  /\ \A r \in Requests : request[r].kind = "mutes" /\ request[r].applied =>
       LET during == Mutings(request[r].user) \ after[r]
       IN /\ \A b \in request[r].ids : Row(r, b) \in silencio \/ \E q \in during : b \in request[q].off
          /\ \A b \in request[r].off : Row(r, b) \notin silencio \/ \E q \in during : b \in request[q].ids
  /\ \A p \in silencio \ Muted : \E q \in Mutings(p[1]) : p[2] \in request[q].ids
  /\ \A p \in Muted \ silencio : \E q \in Mutings(p[1]) : p[2] \in request[q].off
=============================================================================
