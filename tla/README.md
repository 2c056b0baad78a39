# Verification of Ms_Users

TLA+ specifications of Ms_Users, the accounts service of SportMatch (FastAPI over PostgreSQL), model-checked with TLC,
with theorems checked by TLAPS. Every definition is translated from the code under `app/` and `db/`; `PROJECT.json`
maps each one to its lines.

## 1. How the service runs, and what that means for the models

FastAPI runs each handler (they are plain `def`s) in a thread of its own, and every call of
`PostgresUserRepository` takes a connection of the pool and is **one transaction** under READ COMMITTED. So a request is
a sequence of atomic steps, other requests run between any two of them, and what a handler keeps in local variables
(`user`, `now`, `pending`, `reset`, `record`) may be stale when it is used. All the modules follow one scheme:

* the tables and the clock are variables; the local variables of each request are a record with a `phase`, the point
  of the handler it has reached; a finished request keeps at most its answer;
* one action per transaction, and one where the handler reads the clock if that is not done by the transaction;
  a transaction is split where another can act or be seen inside it: `create_password_reset`, `review_report` (its row
  lock), `PUT /preferences`, `change_mutes`, `delete_user`. The rows it has changed are locked until it ends, and a
  statement of another one that comes to them waits;
* requests are named by a constant set of identifiers, and a row that a request creates (a sanction, a report, a code)
  by the request that drew its `uuid4` or its code. Two codes are therefore different: that two people draw the same six
  digits is not modelled;
* a crash, or an error of PostgreSQL that ends the handler, may strike between any two steps (`Crash`, `Lost`,
  `ApplyUnavailable`, `ReviewUnavailable`...). A handler never retries: what is lost is lost.
* statements that wait for a row lock re-evaluate their WHERE on the committed row, which is what an atomic step does;
  the difference between `CURRENT_TIMESTAMP` (fixed when the transaction begins) and the moment such a wait ends is
  modelled for `create_password_reset` only, where it matters.

## 2. Inventory

| component | state | operations | what is hard | what makes it correct | modelled in |
|---|---|---|---|---|---|
| Sanctions, HU-45 (`sanction_service.py`, `apply_sanction`, `lift_sanction`) | `sancion`, its audit rows, `notificacion` | apply, lift, status, list, get | administrators racing with stale times; a temporal sanction ends with no job; crash after the commit | one sanction in force per account, history never rewritten, audit = table, nobody suspended is served | `Sanctions`, `AccountSuspension`, `Moderation` |
| Registration and e-mail verification (`register`, `request_/confirm_email_verification`) | `usuario`, `email_verificacion` (one row per account, overwritten) | register, resend, confirm | a confirmation holds a hash while the row changes; a resend resets the attempts | only the last code verifies, once, within its guesses | `EmailVerification`, `VerificationStore` |
| Password recovery (`request_/confirm_password_reset`) | `password_reset_token` (a row per code), `usuario.password` | request, confirm | parallel guesses; a code superseded between match and use; concurrent creations | guesses limited, a code works once and while it lives, one code at a time | `PasswordReset` |
| Login and tokens (`login`, `_issue_token`, `get_current_user`) | none (JWT) | login, every authenticated request | the check and what follows it are different transactions | no token and no service while suspended | partly: `Sanctions` |
| Reports and authors, HU-43/47 (`report`, `list_reports`, `_find_author`, `review_report`) | `reporte`, its audit rows | report, list (asks other services for authors), review | late answers; two decisions at once | first decision stands, audit tells the path, the author is the right one and is kept | `Reports`, `Moderation` |
| Administrative audit, HU-48 (`audit_service.py`, `insert_admin_audit`, `list_admin_audit`) | `audit_events` | rows written with the change they tell of; events posted by other services; panel | dates older than the commit; retries; the count and the page are two statements; rows from before the catalogue | nothing there at the beginning of a walk is missed, filters agree with what is shown, what was answered is there | `AuditPanel`; rows also in `Sanctions`, `Reports` |
| Account deletion (`delete_account`) | `usuario.is_active`, `ubicacion_actual` | logical deletion | a request of the account in progress, also between the two statements of the deletion; audit before it | the rest never serves a deleted account; a deletion is always recorded | `LiveLocation`; `is_active` elsewhere |
| Live location (`update_location`...) | `ubicacion_actual` | get, update, delete | read-then-write; deletion of the account in between | the position follows its owner; what was removed does not come back by itself | `LiveLocation` |
| Blocks, cards, mutes, HU-42 | `bloqueo_usuario`, `silencio_usuario` | block, unblock, check, cards, mutes | a read of blocks used later; a block read back after its commit; opposite changes of one list of mutes, each a DELETE and an INSERT | nobody shown across a block, which only its author lifts; mutes change together, and only as somebody asked | `Contact` |
| Suggestions (`suggestions.sql`, `recommendations.py`) | none | search: origin, candidates, cards, audit | rules written twice, with NULLs and rounding; preferences change between the two SELECTs | the SQL answers what the Python says | `Suggestions`; its steps in `LiveLocation` and `Contact` |
| Profile, preferences, consents, export | `usuario`, `preferencia_usuario`, `usuario_deporte`, `disponibilidad`, `preferencia_perfil`, `consent` | replace, read, export, grant, revoke | delete-and-insert of child rows; six SELECTs for one account; two revocations | tables of one writer, answers that were current, the first revocation stands | `Profile` |
| Internal API (`internal.py`) | none of its own | status, names, audit events, blocks | the caller retries | status agrees with the table | partly: status in `Sanctions`, events in `AuditPanel`, check in `Contact` |
| Mock repository | dictionaries behind a lock | the same interface | - | it is what PostgreSQL should answer | partly: verifications are `VerificationStore`, the search is `MockRows` in `Suggestions` |
| Routes and schemas, configuration, pool, e-mail sender, migrations | - | adapters, constants, I/O, DDL | - | - | not modelled (section 6) |

External: the gateway, Ms_Activities and Ms_Matching (`published` and `AuthorOf` in `Reports`, `Posts` in `AuditPanel`),
PostgreSQL's clock and failures.

## 3. Modules

**`Sanctions`** is the core. Variables `sancion`, `auditoria`, `notificacion`, `is_active`, `reporte` are the tables;
`apply`, `lift` and `call` the requests in progress. An apply request goes through `ApplyLookUp` (`get_user`),
`ApplyReadClock` (`now = utcnow()`), then `apply_sanction` as one step, `ApplyRefused` or `ApplyCommit` or
`ApplyUnavailable`, and `ApplyNotify`. `ClosedExpired`, `StillActive` and `ReportProblem` are its SQL, in its order. A
lift goes through `LiftReadClock`, `LiftNothing`/`LiftCommit`/`LiftUnavailable`, `LiftLookUp`, `LiftNotify`. A call is a
request that a sanction restricts: `delete` stands for every authenticated request (it is the one that changes this
module's state), `login` is checked twice, `status` is the gateway's question. The administrator's role and whether it
is an administrator who asks are settled before the first step and not modelled. Days are the unit of time.

**`AccountSuspension`** says the same from outside: an account is barred by a set of at most one sanction, that only
an administrator starts, and only an administrator or the passing of time ends. `Sanctions` implements it under
`barred <- Barring`, the rows in force by the real clock.

**`Reports`**: a request that may ask for an author is a report (`Posts`) or a list (`Lists`); `AskOrigin` is the answer
of the service that owns the content, `StoreAuthor` the later transaction that saves it. A review takes its row lock in
`ReviewBegin` and ends in `ReviewNothing`, `ReviewCommit` or `ReviewUnavailable`. `objetivo_id` is an account or a
content, so it stands for `tipo` too; one `motivo` is enough, as reports with other reasons are other reports. Which
rows without author a list asks for depends on the page, the filter and `AUTHOR_RETRY`: `ListRead` may choose any, up to
`MaxLookups`, so the dates of the lookups are not kept.

**`Moderation`** composes the two: it EXTENDS `Reports` and takes `Sanctions` by INSTANCE, with `reporte` seen through
`Cited`, the columns `apply_sanction` selects. So reports arrive, authors are found or lost and decisions are taken
while a sanction is on its way, and `apply_sanction`'s `FOR SHARE` waits for the review that holds the row (`Waits`).
The rows of `audit_events` of each module stay in a variable of its own.

**`PasswordReset`**: `ask` and `confirm` are the requests; `CreateBegin`/`CreateCommit` split `create_password_reset`
at the point where READ COMMITTED fixes the rows its UPDATE can see. `compared` and `changed` are history: who compared a
code on which row's attempts, who changed the password by which row.

**`EmailVerification`**: registrations and resends are one set of requests, `Sends`, for each draws a code;
`RegisterCommit` is `create_user`, `RestartCommit` the UPDATE that overwrites the row. `issued` and `compared` are
history. Accounts created before migration 004 have no row and behave as verified ones.

**`VerificationStore`** is the contract of those rows as the mock repository keeps it: a dictionary with one entry for
each account that is not verified, and methods that are one step each. `EmailVerification` implements it
(`StoreSpec`) under `pending <- Codes`, the rows of unverified accounts. The tests of the service run on the
dictionary, so this is what says that they speak of PostgreSQL too.

**`Profile`** is about one account. Rows are named by the request that wrote them, so `filas[t]` is the set of
writers whose rows are in table `t`. A PUT /preferences is four steps inside one transaction (`PutUpsert`, which takes
the row of `preferencia_usuario` and waits for whoever holds it, `PutReplace` twice, `PutCommit`): a DELETE
removes the rows committed when it begins, which is what the lock is needed for. `Select` is `get_user`, one
statement at a time. `history` keeps who wrote, in order.

**`LiveLocation`** and **`Contact`** (and `Profile`) have one set of `Requests`, each of which becomes of any kind as it
arrives. That keeps the instances small, since they are the sum of the mixes of kinds and not their product. In the
first two, `after` is history: the requests that were over when each one arrived, which is how the properties tell a
later request from a concurrent one.

**`LiveLocation`**: a PUT is `PutRead` (`get_location`), then `PutSave`, or `PutStill` (which reads the clock) and
perhaps `PutTouch`, then `PutAnswer`; a deletion of the account is `RemovalLookUp`, `RemovalAudit`, and the transaction
of `delete_user` in two steps, `RemovalDelete` and `RemovalCommit` (the UPDATE of the account, and the commit). A DELETE
that found the position holds its row (`RowFree`), so updates of that person wait; one that found none holds nothing,
and a position saved before the commit stays. A search reads the clock (`SearchStart`), its own position
(`SearchOrigin`) and the candidates (`SearchQuery`). Positions are on a line, and the unit of time is `TOUCH_AFTER`.

**`Contact`**: a POST is `BlockLookUp`, `BlockCommit`, `BlockAudit`, then `BlockReadBack` and `BlockAnswer`, where its
row may be gone (`KeyError`, a 500); a PUT ends with the audit. `open` is history: whom a request that shows people
could have shown at some moment since it arrived, i.e. those who had no block with its person, either way. The
transaction of a PATCH of mutes goes row by row: `MutesDelete` fixes the rows its DELETE sees (`seen`), `MutesDeleteRow`
takes each one, `MutesInsert` and `MutesInsertRow` do the INSERT, and `MutesCommit` shows it all. The rows it deleted or
inserted are `held` till then, and another PATCH that comes to one of them waits (`Taken`). Two that wait for each other
are a deadlock, which PostgreSQL breaks: one of them fails (`Fail`) and is rolled back. A search is one query here, for
its other steps are in `LiveLocation` and `Suggestions`.

**`Suggestions`** has the rules of the search twice, as the program does: `Candidates`, `RowOrder` and `First` are
`suggestions.sql`; `MatchesFilters`, `SimilarLevel` and `Compatibility` are `recommendations.py`, and `MockRows` the
search the mock repository makes of them. An order is the set of its pairs, and `OrderBy` puts at place i the row that
has i - 1 before it. `Rank` is the first SELECT and `Cards` the second one and what Python makes of
it; `PutPreferences` is another person's PUT between the two. Numbers are scaled by four so that the weights are
integers, and `Round` is Python's. `SqlNull` only declares `NULL`, which this module and `Contact` share.

**`AuditPanel`**: a row is dated when its transaction begins (`Begin`) and seen when it commits (`Commit`), in any
order. A `Post` is an action another service reports and sends again when it gets a 503 or no answer. `Where` is the
WHERE of the panel over the columns, `Shown` what the panel makes of a row. An administrator walks the history:
`Count`, then `Page`, each a statement of its own.

`SanctionsProofs`, `ModerationProofs` (of `Reports` and of the composition), `PasswordResetProofs`,
`EmailVerificationProofs`, `ProfileProofs`, `LiveLocationProofs`, `ContactProofs` (of `Contact` and `Suggestions`) and
`AuditPanelProofs` hold the proofs (section 5).

The operators whose comment begins with *Mistake* are no part of a specification: each is a plausible bug in the
definition that follows it, and replacing that definition by it makes TLC find the property violated.

## 4. Runs

`MC<module>.tla` gives the symmetry and the values that are not model values; each `.cfg` an instance. Requests are
finite and the clock stops at its bound, so an instance ends and deadlock is not checked in those runs; no handler waits
for another's answer, and the locks that are kept across steps (a review's row, the row of `preferencia_usuario`, those
of `change_mutes` and of `delete_user`) are released by the end of the transaction. Only two PATCHes of mutes can wait
for each other in a circle, and PostgreSQL then ends one of them.

| run | instance | checks |
|---|---|---|
| `sanction_races` | an account and an administrator, 2 applies, 1 lift, 1 call, days 0..2, sanctions of 1 or 2 days or permanent | all the safety of the tables, nothing served while suspended, the refinement of `AccountSuspension` |
| `moderation` | a report of a person or of a content, its lookups, a list, 2 reviews, 1 sanction of either of 2 accounts | a citing sanction is traceable; temporal ones end (liveness) |
| `reports` | 2 contents of 2 people, 2 reports, a list, 2 reviews | audit path, transitions, authors do not mix |
| `report_author_lost` | 1 report, 2 lists | **violated**: a saved author can be erased |
| `reset_guesses` | 1 account, 2 codes, 3 confirmations, limit 2 | guesses, single use, life of a code |
| `reset_two_codes` | 2 concurrent requests | **violated**: an account can have two codes |
| `verification_codes` | 1 address, 3 sends, 3 confirmations, limit 2 | guesses, last code only, one sign-in, spacing of the resends, the refinement of `VerificationStore` |
| `profile` | 3 requests of any kind, any of which may fail, a deletion of the account | preferences of one writer, answers that were current, revocations |
| `location_races` | an athlete and an administrator, 3 requests of any kind, 3 places, minimum move 2, time 0..2 | the position follows its owner, removals last but for updates in progress, searches see them, who stands still is renewed |
| `contact_races` | 3 people, 2 requests of any kind, a block from before, a mute of each person from before, one deletion | no contact across a block, blocks stand, a change of mutes holds whole but for what another in progress undoes |
| `suggestions` | 3 people, 7 filters, 3 sorts of distances, limit 2, one change of preferences | the SQL answers what the Python says |
| `audit_panel` | a writer, a post sent at most twice, two rows from before the catalogue, pages of 2, time 0..1 | walks, filters, retried posts |

Why the bounds are enough for what they show. Two applies and a lift are the smallest instance with every race of the
sanctions (two writers, a writer and a closing, a lift of what another closed); days 0..2 let a one-day sanction end and
another begin. Three confirmations are one more than the limit of two. Three sends let a row be overwritten twice under
a confirmation. Two reviews are the longest chain of transitions, and either may lose to the other; in `moderation` they
also fall before, during and after the sanction that cites the report. Three requests are two PUTs whose deletes and
inserts interleave under a reader (`profile`), what a slow walk needs (a position, a short step from it, another one),
and a removal under an update that a third request sees; in `Contact` the block and the mutes from before stand for a
third request (`OneBlock`, and `Circle`, in which each person has muted the next: two opposite PATCHes of one list find
a row to delete and one to insert, in either order). In `suggestions` three people and a limit of two make the order
decide who is cut, and the sports and levels chosen contain each NULL (a sport not shared, no position), the empty union
and the ties of rounding. In `audit_panel` four rows make two pages, with one row that may enter before, between and
after them. The largest is `contact_races`, of a million states. What the bounds leave open of these properties the
proofs close, except where section 5 says otherwise.

**Fairness.** `Sanctions` and `Moderation` assume only that time passes (`WF` of `Tick`). Nothing is assumed of
requests, which may stop at any point; `TemporalEnds` needs no more, since no job ends a sanction. The other modules state
safety only: no handler of the service retries or waits, so nothing in it must eventually happen.

**What the violated runs show.**

1. `OneActiveCode`: `create_password_reset` (`postgres_user_repository.py:902`) invalidates "any previous unused one"
   (`base.py:272`) that its UPDATE can see. Two requests at once pass the throttle, neither sees the other's row, and
   both codes work. Consequences are bounded: `PasswordOnlyByLiveCode`, `CodeUsedOnce` and the limit per code still hold.
2. `AuthorKept`: `set_report_author` (`postgres_user_repository.py:639`) writes what its lookup found over what the row
   holds by then. A lookup that finds the content deleted erases the author another one saved, which migration
   014 (lines 9-10) says is kept so that the account can still be sanctioned. `SanctionTraceable` shows that a sanction
   decided before or after it is right all the same.

**What the passing runs bound.** Some promises hold only up to a race that the code leaves open; the property says
exactly how far.

* The interval between codes is checked on a `sent_at` read in an earlier transaction (`user_service.py:221`), which
  `restart_email_verification` does not repeat. Two requests at once send two codes: `ResendSpaced` says that only a
  request that had looked before the last code was saved can do so, and only the last code works.
* A PUT /location let in before its account was deleted may save after it, or between its DELETE and its UPDATE
  (`postgres_user_repository.py:503` and 443), and then the row stays in `ubicacion_actual`, although the repository's
  README (line 250) and `tests/test_live_location.py:103` say that deleting the account deletes the position.
  `RemovedStaysRemoved` says that only an update let in before the deletion was answered does it, neither one made later
  nor a renewal of what was removed; no search uses that row (`SearchSeesRemovals`).
* The list of muted people is to change "together or not at all" (`schemas/user.py:352`; "Todo o nada", the repository's
  README, line 207). A PATCH alone does. Two at once, with opposite orders on the same two people, may end with half of
  each: with y muted, A unmutes y and mutes x while B unmutes x and mutes y; B's DELETE sees no x yet, A commits, B
  inserts y, and both stay muted. `change_mutes` (`postgres_user_repository.py:559`) locks nothing but rows, and a
  DELETE cannot lock one that is not committed. Both answers are 200. `MutesTogether` says how far it goes: each person
  is as the PATCH asked, unless another PATCH of the same person, not over when it arrived, asked the opposite; what
  fails leaves nothing; and nobody comes into a list or leaves it but by a committed PATCH that said so.
* `StillPersonRenewed` says that the position of a person who reports standing still is dated less than `TOUCH_AFTER`
  before; that it "does not expire" then asks that `LOCATION_MAX_AGE_MINUTES` be at least 15, which `_positive_int` does
  not check (its default is 1440).
* A POST /block answers 500 (`blocked_user`, `user_service.py:493`) when the same person unblocks in between, and then
  only: `BlockStands`.
* An account read by `get_user` may mix the parts of several PUTs that were committed while it was being read:
  `AnswersCurrent` says that each part was current, in order, and that a PUT never answers less than it wrote. A
  revocation that waited answers the date of the first one (`RevocationStands`).
* The card of a person who changed the preferences between the two SELECTs of a search may not satisfy the filter it was
  found by: `AnswerFollowsRules` says that nothing else differs.
* A page of the panel may miss the rows that were committed between its count and its SELECT, no others: `WalkComplete`.
  An action posted again after a lost answer may be in the history twice: `PostsRecorded`.
* The comment at `postgres_user_repository.py:637` expects the author of a deleted account to stay unknown. Deletion is
  logical, so the id is saved; it is never a dangling one, and `apply_sanction` refuses the account.

## 5. Proofs

Each theorem holds for every value of the constants, from the module's one named assumption: bounds are naturals and
`NULL` is no element of the others. `AuditPanel` adds that the rows from before have different identifiers and are
finitely many, and that a row has both parts of its resource or none (`WellWritten`: `insert_admin_audit` and
`record_audit`, the only two INSERTs, write no other); `Moderation`, that a refusal is no sanction; `Suggestions`,
that people are finitely many and levels, filters and distances have the types of the schemas. All proofs have one
shape: an invariant `IInv` that holds initially and is kept by every step, from which the properties follow. None of
the properties is inductive as it stands; what is added is always the same kind of thing, what a request in progress
may still rely on.

* **`SanctionsProofs`.** `IInv` is `TypeOK`, `RequestsConsistent`, `OneActiveSanction`, `AuditMatchesSanctions`,
  `PeriodWellFormed`, `NoticesTruthful`. `RequestsConsistent` is the strengthening: a request's `now` is past, its row
  does not exist before its commit and is its own after it, the sanction it lifts began before its `now`. From it: the
  invariants; `ClosedForever`, `NeverServed`, `ConflictOnlyIfInForce` as action properties; `OriginSound`; and
  `Refinement`: an `ApplyCommit` is `Suspend` if the new sanction is in force by the real clock and a stutter otherwise
  (it may be born expired), a `LiftCommit` is `Lift` or a stutter in the same way, `Tick` is `Pass`, the rest leaves
  `Barring` alone. The heart of `NeverServed` is that a sanction in force now was in force at any earlier `now` since
  its row is in the table, so a check with an older time refuses at least as much.
* **`ModerationProofs`.** Of `Reports`, `IInv` is `TypeOK`, `RequestsRemember` (what a list holds of a report is still
  its content, and the author it holds is that content's), `LockHolds` (the state a review read under its lock is the
  state of the row), `AuditTrail`, `AuthorOfContent`; `DecisionsStand` follows as an action property. Of the
  composition, `ReportsUntouched` says that it is, to the reports, one of their own behaviours, so that all of this
  holds in it. On top of that `Traceable` needs `Asks` (a request that found its account has one). `ApplyCommit`
  establishes the property of its own sanction: the row it reads is escalated, so by `AuditTrail` the audit says who
  decided it, and by `AuthorOfContent` the author it compares the account with is the right one. Every later step keeps
  it, because `escalado` is final and the audit only grows (`EscalatedForGood`), and because closing a sanction changes
  neither its account nor its report.
* **`PasswordResetProofs`.** `IInv` is `TypeOK`, `AskRemembers`, `ConfirmRemembers`, `Counted` (the comparisons made
  with a row are at most its attempts), `Spent` (what changed a password is used), `CodeUsedOnce`. `OnlyByLiveCode` and
  `UsedIsUseless` are action properties.
* **`EmailVerificationProofs`.** `IInv` is `TypeOK`, `IssuedOnce`, `LastIssued` (the code of a row is the last one
  sent), `SendRemembers`, `ConfirmRemembers`, `Counted` (comparisons against the attempts of the code that counted
  them), `OneWinner`. `ByLastCode` and `Spaced` are action properties. `ImplementsStore` is the refinement:
  registrations and restarts are `Put`, a counted guess is `Attempt`, a verification is `Complete`, everything else a
  stutter.
* **`ProfileProofs`.** `IInv` has the types, `Exclusive` (one PUT at a time holds the row of `preferencia_usuario`, and
  what it deleted is all there was), `PreferencesWhole`, `ProfileWhole`, and of each request what it has committed,
  audited and read: each part it read stands in `history` at some place after the one where it began. `Whole`,
  `Current`, `RevokedOnce`, and `AuditTells`, which no run checks.
* **`LiveLocationProofs`.** Every step is one of a few (a request arrives, stops, reads, saves, renews, removes...).
  `IInv` says what the requests know, that what each one found over when it arrived grows with time (`History`), that
  deletions are recorded, that an account deleted before a request arrived lets no update in (`NoneLate`), and where a
  position comes from. `RemovedStaysRemoved` is not inductive: `Removals` says the same also of a deletion that has
  found no position and is not over (`Removed`). `FollowsOwner`, `StaysRemoved`, `StillRenewed`, `SearchesSee`, and
  `EveryDeletionRecorded`, which no run checks.
* **`ContactProofs`.** `IInv` has the types, `Known` (what a request is about never changes), `Order` (what was over
  stays over), `ShowsOpen` (whoever a request may still show is in `open`), `Stands`, `Changed` (what `MutesTogether`
  says of one PATCH), `Cause` (every change of the first list has a PATCH behind it) and `Progress`, of a PATCH inside
  its transaction: of each person it unmutes, the row is one it has deleted or has still to delete, or is not in the
  table, or another PATCH that was not over when it arrived has muted that person; of each person whose row it has
  inserted already, the row is its own or in the table, or another such PATCH has unmuted that person. So what it asked
  holds when it commits, by its own rows or by the excuse. The unblock being committed was not over, so it is in no
  `after` of a request before it: this is what makes `Undone` the only excuse of a block that is gone. Of `Suggestions`,
  the invariant only says what the answer was made of; the work is in the operators, and `Answers` is an equivalence of
  the two programs. That both find the same people is the logic of NULLs (`SportRules`). That they rank alike goes in
  three steps: the compatibility is the score of the query, rounded, also for the empty union (`CompatibilityOfScore`);
  comparing fractions by cross products is transitive and `Round` keeps their order (`Cross`, `RoundKeepsOrder`), so
  both orders are total and refine one weak order, that of the cards; and of two such orders the rows at each place are
  alike in the weak one, by counting those before them (`AlikeBefore`), which survives the cut. Sums over sets are
  folds: `SumsExist` and `SumBounds` are proved by a counterexample of least size (`LeastNumber`, from the
  well-foundedness of the naturals), since the induction theorems of the library cannot be used.
* **`AuditPanelProofs`.** `Types` states the panel's `TypeOK`, which no run lists. `IInv` has the types and, for each
  posted action, `Told`: its rows and the attempt in progress are at most the attempts made, and what is committed or
  answered has a row. For the walk, `Walked`: of the rows there were at the beginning, those not shown yet have a rank
  at or beyond the pages seen (`Reached`), until it ends. The rank of a row (how many come before it) only grows as rows
  are committed, no two rows have the same, and all are below the number of rows: so what a page leaves out has its
  place in the next ones, and `WalksComplete` follows when the pages asked for have room for all that was counted.
  `Filtered` is by cases on the filter and on the age of the row.

Only model-checked: `TemporalEnds`, as liveness is out of the prover's reach. Every other property of the passing runs
is stated by a theorem; the two violated ones are refuted by TLC.

## 6. Not modelled, and why

* The lists and reads of the administrator, of the role and of the names of accounts: they change nothing.
* Texts, formats, hashes, JWT and e-mail delivery: the properties do not tell them apart. A message may be lost; nothing
  in the service depends on its arrival.
* Schemas and routes: they decide which inputs reach the actions (`Duration`, `Decision`, no report of oneself).
* Configuration and pool: values read once, which are CONSTANTS. A pool that is exhausted answers 503 before any
  transaction, as a request that never arrives.
* Migrations: each file is a transaction under an advisory lock; the constraints are in the types of the rows.
* The rest of the mock repository: a double for the tests, behind one lock.
* The gateway's cache of an account's status: not in this repository.
* In `Contact` a mute of oneself is never asked to be lifted, which would do nothing. In `AuditPanel` a request whose
  caller gave up before its commit either has committed by then or never does, and `Where` leaves out the filters by
  administrator and by result (`postgres_user_repository.py:842` and 848), plain equalities on columns that the panel
  shows as they are.

## 7. Plan

Done: the modules of section 3, the runs of section 4 and the proofs of section 5. What is left, by worth:

1. Theorems on the operators themselves where a run only checks them through a property (the panel's pages as a partition
   of the history, `Score` as the sum of the shared sports).
2. Liveness of the handlers under fairness of the threads, if the service comes to retry or to wait for anything.
