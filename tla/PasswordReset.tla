--------------------------- MODULE PasswordReset ---------------------------
(***************************************************************************)
(* Password recovery by e-mailed codes: request_password_reset and         *)
(* confirm_password_reset of UserService over table password_reset_token.  *)
(* Each is a sequence of transactions; create_password_reset is itself     *)
(* split where READ COMMITTED lets another transaction in: its UPDATE sees *)
(* the rows committed when it starts, and the insert comes later.          *)
(***************************************************************************)
EXTENDS Integers, FiniteSets

CONSTANTS Accounts,
          Asks,         \* POST /auth/password-reset requests; each draws one code, which it names
          Confirms,     \* POST /auth/password-reset/confirm requests
          NULL,
          MaxAttempts,  \* settings.password_reset_max_attempts
          CodeLife,     \* settings.password_reset_code_minutes
          Resend,       \* settings.password_reset_resend_seconds
          MaxTime       \* bound: the last instant of the model

ASSUME ResetAssumption ==
  /\ MaxAttempts \in Nat \ {0} /\ CodeLife \in Nat \ {0} /\ Resend \in Nat \ {0} /\ MaxTime \in Nat
  /\ NULL \notin Accounts /\ NULL \notin Asks /\ NULL \notin Confirms

VARIABLES
  clock,
  is_active,   \* usuario.is_active
  password,    \* usuario.password: the confirm request that set it, NULL for the first one
  token,       \* table password_reset_token, by code
  ask,         \* local state of each request for a code
  confirm,     \* local state of each confirmation
  compared,    \* history: which confirmations compared their code with which row
  changed      \* history: which confirmations changed the password with which row

vars == <<clock, is_active, password, token, ask, confirm, compared, changed>>
history == <<compared, changed>>

Token == [usuario_id : Accounts, created_at : Nat, expires_at : Nat, attempts : 0..MaxAttempts, used : BOOLEAN]

IdleAsk == [phase |-> "idle", user |-> NULL, now |-> 0, begun |-> 0, previous |-> {}]
IdleConfirm == [phase |-> "idle", user |-> NULL, code |-> NULL, reset |-> NULL]

\* The unused rows of an account: those a new code invalidates.
Unused(u) == {t \in DOMAIN token : token[t].usuario_id = u /\ ~token[t].used}
\* The rows whose code still works at the present time.
Live(u) == {t \in Unused(u) : token[t].expires_at > clock}

Init ==
  /\ clock = 0
  /\ is_active = [u \in Accounts |-> TRUE]
  /\ password = [u \in Accounts |-> NULL]
  /\ token = [t \in {} |-> NULL]
  /\ ask = [r \in Asks |-> IdleAsk]
  /\ confirm = [c \in Confirms |-> IdleConfirm]
  /\ compared = {} /\ changed = {}

\* A finished request keeps nothing.
FinishAsk(r) == ask' = [ask EXCEPT ![r] = [IdleAsk EXCEPT !.phase = "done"]]
FinishConfirm(c) == confirm' = [confirm EXCEPT ![c] = [IdleConfirm EXCEPT !.phase = "done"]]

-----------------------------------------------------------------------------
(* POST /auth/password-reset                                                *)

\* get_user_by_email: an address without an active account gets the same answer and no code.
AskArrive(r, u) ==
  /\ ask[r].phase = "idle"
  /\ IF is_active[u] THEN ask' = [ask EXCEPT ![r] = [@ EXCEPT !.phase = "found", !.user = u]] ELSE FinishAsk(r)
  /\ UNCHANGED <<clock, is_active, password, token, confirm, history>>

AskReadClock(r) ==
  /\ ask[r].phase = "found"
  /\ ask' = [ask EXCEPT ![r] = [@ EXCEPT !.phase = "timed", !.now = clock]]
  /\ UNCHANGED <<clock, is_active, password, token, confirm, history>>

\* get_active_password_reset, ORDER BY created_at DESC LIMIT 1.
LatestLive(u) == {t \in Live(u) : \A x \in Live(u) : token[x].created_at <= token[t].created_at}

\* The throttle: a code younger than the resend time is not followed by another.
AskThrottle(r) ==
  /\ ask[r].phase = "timed"
  /\ IF \E t \in LatestLive(ask[r].user) : ask[r].now - token[t].created_at < Resend
     THEN FinishAsk(r)
     ELSE ask' = [ask EXCEPT ![r].phase = "allowed"]
  /\ UNCHANGED <<clock, is_active, password, token, confirm, history>>

\* create_password_reset begins: CURRENT_TIMESTAMP is fixed, and the rows its UPDATE can see are those
\* unused and committed now.  (What happens to such a row before the commit came before the UPDATE locked it.)
CreateBegin(r) ==
  /\ ask[r].phase = "allowed"
  /\ ask' = [ask EXCEPT ![r] = [@ EXCEPT !.phase = "creating", !.begun = clock, !.previous = Unused(ask[r].user)]]
  /\ UNCHANGED <<clock, is_active, password, token, confirm, history>>

\* The transaction commits: those rows used, the new one inserted.  A background task then e-mails the code.
CreateCommit(r) ==
  /\ ask[r].phase = "creating"
  /\ token' = [t \in DOMAIN token \cup {r} |->
       IF t = r THEN [usuario_id |-> ask[r].user, created_at |-> ask[r].begun, expires_at |-> ask[r].now + CodeLife,
                      attempts |-> 0, used |-> FALSE]
       ELSE [token[t] EXCEPT !.used = @ \/ t \in ask[r].previous]]
  /\ FinishAsk(r)
  /\ UNCHANGED <<clock, is_active, password, confirm, history>>

-----------------------------------------------------------------------------
(* POST /auth/password-reset/confirm                                        *)

\* get_user_by_email.  The person types a code that was sent, or a wrong one (NULL).
ConfirmArrive(c, u, code) ==
  /\ confirm[c].phase = "idle"
  /\ IF is_active[u]
     THEN confirm' = [confirm EXCEPT ![c] = [@ EXCEPT !.phase = "found", !.user = u, !.code = code]]
     ELSE FinishConfirm(c)
  /\ UNCHANGED <<clock, is_active, password, token, ask, history>>

\* get_active_password_reset: the row this confirmation is about from now on.
ConfirmRead(c) ==
  /\ confirm[c].phase = "found"
  /\ \/ LatestLive(confirm[c].user) = {} /\ FinishConfirm(c)
     \/ \E t \in LatestLive(confirm[c].user) :
          confirm' = [confirm EXCEPT ![c] = [@ EXCEPT !.phase = "read", !.reset = t]]
  /\ UNCHANGED <<clock, is_active, password, token, ask, history>>

\* Mistake: the limit lets one attempt too many through.
AttemptLeftOrLast(t) == ~token[t].used /\ token[t].attempts <= MaxAttempts /\ token[t].expires_at > clock

\* register_password_reset_attempt: its WHERE.
AttemptLeft(t) == ~token[t].used /\ token[t].attempts < MaxAttempts /\ token[t].expires_at > clock

\* The attempt is counted first and the code compared after it.
ConfirmAttempt(c) ==
  LET t == confirm[c].reset
  IN /\ confirm[c].phase = "read"
     /\ \/ /\ ~AttemptLeft(t)
           /\ FinishConfirm(c)
           /\ UNCHANGED <<token, compared>>
        \/ /\ AttemptLeft(t)
           /\ token' = [token EXCEPT ![t].attempts = @ + 1]
           /\ compared' = compared \cup {[by |-> c, reset |-> t]}
           /\ IF confirm[c].code = t THEN confirm' = [confirm EXCEPT ![c].phase = "matched"] ELSE FinishConfirm(c)
     /\ UNCHANGED <<clock, is_active, password, ask, changed>>

\* Mistake: the row was checked when the attempt was counted, so it is not checked again.
CompletableAsCounted(t, u) == token[t].usuario_id = u
\* Mistake: the expiry was checked when the attempt was counted, so it is not checked again.
CompletableUnused(t, u) == token[t].usuario_id = u /\ ~token[t].used

\* complete_password_reset: its first WHERE.
Completable(t, u) == token[t].usuario_id = u /\ ~token[t].used /\ token[t].expires_at > clock

\* The code is consumed and, if the account is still active, the password changed, in one transaction.
ConfirmComplete(c) ==
  LET t == confirm[c].reset
      u == confirm[c].user
  IN /\ confirm[c].phase = "matched"
     /\ IF Completable(t, u)
        THEN /\ token' = [token EXCEPT ![t].used = TRUE]
             /\ password' = [password EXCEPT ![u] = IF is_active[u] THEN c ELSE @]
             /\ changed' = IF is_active[u] THEN changed \cup {[by |-> c, reset |-> t]} ELSE changed
        ELSE UNCHANGED <<token, password, changed>>
     /\ FinishConfirm(c)
     /\ UNCHANGED <<clock, is_active, ask, compared>>

-----------------------------------------------------------------------------
\* DELETE /users/me: the logical deletion, at any moment.
Delete(u) ==
  /\ is_active[u]
  /\ is_active' = [is_active EXCEPT ![u] = FALSE]
  /\ UNCHANGED <<clock, password, token, ask, confirm, history>>

Tick == /\ clock < MaxTime
        /\ clock' = clock + 1
        /\ UNCHANGED <<is_active, password, token, ask, confirm, history>>

\* A request stops between two transactions: a crash, or a database error.
Lost ==
  /\ \/ \E r \in Asks : ask[r].phase \notin {"idle", "done"} /\ FinishAsk(r) /\ UNCHANGED confirm
     \/ \E c \in Confirms : confirm[c].phase \notin {"idle", "done"} /\ FinishConfirm(c) /\ UNCHANGED ask
  /\ UNCHANGED <<clock, is_active, password, token, history>>

AskStep(r) == \/ \E u \in Accounts : AskArrive(r, u)
              \/ AskReadClock(r) \/ AskThrottle(r) \/ CreateBegin(r) \/ CreateCommit(r)
ConfirmStep(c) == \/ \E u \in Accounts, code \in DOMAIN token \cup {NULL} : ConfirmArrive(c, u, code)
                  \/ ConfirmRead(c) \/ ConfirmAttempt(c) \/ ConfirmComplete(c)

Next == \/ Tick \/ Lost
        \/ \E u \in Accounts : Delete(u)
        \/ \E r \in Asks : AskStep(r)
        \/ \E c \in Confirms : ConfirmStep(c)

Spec == Init /\ [][Next]_vars

-----------------------------------------------------------------------------
(* Properties                                                               *)

TypeOK ==
  /\ clock \in Nat
  /\ is_active \in [Accounts -> BOOLEAN]
  /\ password \in [Accounts -> Confirms \cup {NULL}]
  /\ DOMAIN token \subseteq Asks /\ token \in [DOMAIN token -> Token]
  /\ ask \in [Asks -> [phase : {"idle", "found", "timed", "allowed", "creating", "done"},
                       user : Accounts \cup {NULL}, now : Nat, begun : Nat, previous : SUBSET Asks]]
  /\ confirm \in [Confirms -> [phase : {"idle", "found", "read", "matched", "done"}, user : Accounts \cup {NULL},
                               code : Asks \cup {NULL}, reset : Asks \cup {NULL}]]
  /\ compared \subseteq [by : Confirms, reset : Asks] /\ changed \subseteq [by : Confirms, reset : Asks]

\* However many confirmations run in parallel, no more codes are compared with a row than the limit
\* ("Count the attempt before checking the code so parallel guesses cannot exceed the limit").
GuessesLimited ==
  \A t \in DOMAIN token : Cardinality({x \in compared : x.reset = t}) <= MaxAttempts

\* A code changes the password once, even if several confirmations have matched it before one completes.
CodeUsedOnce ==
  \A x, y \in changed : x.reset = y.reset => x = y

\* The password changes only for an active account, by a code that was sent to it, that still lives at that
\* moment, three transactions after it was read, and that is consumed by the very step.
PasswordStep ==
  \A u \in Accounts : password'[u] # password[u] =>
    /\ is_active[u]
    /\ \E c \in Confirms : /\ password'[u] = c /\ confirm[c].user = u
                           /\ confirm[c].code \in Live(u) /\ token'[confirm[c].code].used
PasswordOnlyByLiveCode == [][PasswordStep]_vars

\* A code that another request found and invalidated is useless from then on: a confirmation that had
\* already read it, or even matched it, changes nothing.
SupersededStep ==
  \A t \in DOMAIN token : token[t].used =>
    /\ token'[t] = token[t]
    /\ {x \in changed' : x.reset = t} = {x \in changed : x.reset = t}
SupersededUseless == [][SupersededStep]_vars

\* "Store a new code and invalidate any previous unused one of the user": an account never has two codes.
OneActiveCode ==
  \A u \in Accounts : Cardinality(Live(u)) <= 1
=============================================================================
