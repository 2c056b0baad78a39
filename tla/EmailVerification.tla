------------------------- MODULE EmailVerification -------------------------
(***************************************************************************)
(* Registration and e-mail verification: register,                         *)
(* request_email_verification and confirm_email_verification of            *)
(* UserService over table email_verificacion.  Unlike the recovery of      *)
(* passwords, an account has ONE row, which a new code overwrites: a       *)
(* confirmation holds the hash it read while the row under it changes.     *)
(* An account is named by its e-mail address, a code by the request that   *)
(* drew it.                                                                *)
(***************************************************************************)
EXTENDS Integers, FiniteSets

CONSTANTS Accounts,
          Sends,        \* POST /auth/register and /auth/email-verification/request requests
          Confirms,     \* POST /auth/email-verification/confirm requests
          NULL,
          MaxAttempts,  \* settings.email_verification_max_attempts
          CodeLife,     \* settings.email_verification_code_minutes
          Resend,       \* settings.email_verification_resend_seconds
          AcceptAny,    \* settings.accept_any_verification_code, for development
          MaxTime       \* bound: the last instant of the model

ASSUME VerificationAssumption ==
  /\ MaxAttempts \in Nat \ {0} /\ CodeLife \in Nat \ {0} /\ Resend \in Nat \ {0} /\ MaxTime \in Nat
  /\ AcceptAny \in BOOLEAN
  /\ NULL \notin Accounts /\ NULL \notin Sends /\ NULL \notin Confirms

VARIABLES
  clock,
  is_active,   \* table usuario: is_active of each account registered so far
  pending,     \* table email_verificacion, by account
  send,        \* local state of each registration or request for a code
  confirm,     \* local state of each confirmation
  signed_in,   \* the account each confirmation got a token for
  issued,      \* history: the codes committed, whose each is, and when
  compared     \* history: the comparisons made: by whom, with which code, counted on which code's attempts

vars == <<clock, is_active, pending, send, confirm, signed_in, issued, compared>>
history == <<issued, compared>>

Verification == [code : Sends, expires_at : Nat, sent_at : Nat, attempts : 0..MaxAttempts, verified : BOOLEAN]

IdleSend == [phase |-> "idle", user |-> NULL, sent_at |-> 0, expires_at |-> 0]
IdleConfirm == [phase |-> "idle", user |-> NULL, typed |-> NULL, code |-> NULL]

\* get_user_by_email finds an account.
Found(u) == u \in DOMAIN is_active /\ is_active[u]
\* get_pending_email_verification finds its row; every UPDATE of the table repeats the condition.
Unverified(u) == ~pending[u].verified

Init ==
  /\ clock = 0
  /\ is_active = [u \in {} |-> TRUE]
  /\ pending = [u \in {} |-> NULL]
  /\ send = [r \in Sends |-> IdleSend]
  /\ confirm = [c \in Confirms |-> IdleConfirm]
  /\ signed_in = [c \in Confirms |-> NULL]
  /\ issued = {} /\ compared = {}

\* A finished request keeps nothing.
FinishSend(r) == send' = [send EXCEPT ![r] = [IdleSend EXCEPT !.phase = "done"]]
FinishConfirm(c) == confirm' = [confirm EXCEPT ![c] = [IdleConfirm EXCEPT !.phase = "done"]]

\* The commit of a code: the row of the account holds it, with all its attempts.
Issue(r, u) ==
  /\ issued' = issued \cup {[code |-> r, user |-> u, at |-> clock]}
  /\ FinishSend(r)

\* Mistake: a new code leaves the attempts as they were.
NewRowCounting(r) ==
  [code |-> r, expires_at |-> send[r].expires_at, sent_at |-> clock, verified |-> FALSE,
   attempts |-> IF send[r].user \in DOMAIN pending THEN pending[send[r].user].attempts ELSE 0]

NewRow(r) == [code |-> r, expires_at |-> send[r].expires_at, sent_at |-> clock, attempts |-> 0, verified |-> FALSE]

-----------------------------------------------------------------------------
(* POST /auth/register                                                      *)

\* The expiry is computed before the transaction.
RegisterArrive(r, u) ==
  /\ send[r].phase = "idle"
  /\ send' = [send EXCEPT ![r] = [@ EXCEPT !.phase = "registering", !.user = u, !.expires_at = clock + CodeLife]]
  /\ UNCHANGED <<clock, is_active, pending, confirm, signed_in, history>>

\* create_user: the account, its preferences and its code, in one transaction.
RegisterCommit(r) ==
  LET u == send[r].user
  IN /\ send[r].phase = "registering"
     /\ u \notin DOMAIN is_active
     /\ is_active' = [x \in DOMAIN is_active \cup {u} |-> IF x = u THEN TRUE ELSE is_active[x]]
     /\ pending' = [x \in DOMAIN pending \cup {u} |-> IF x = u THEN NewRow(r) ELSE pending[x]]
     /\ Issue(r, u)
     /\ UNCHANGED <<clock, confirm, signed_in, compared>>

\* UniqueViolation, 409: the address is an account's, deleted or not.
RegisterConflict(r) ==
  /\ send[r].phase = "registering"
  /\ send[r].user \in DOMAIN is_active
  /\ FinishSend(r)
  /\ UNCHANGED <<clock, is_active, pending, confirm, signed_in, history>>

-----------------------------------------------------------------------------
(* POST /auth/email-verification/request                                    *)

ResendArrive(r, u) ==
  /\ send[r].phase = "idle"
  /\ IF Found(u) THEN send' = [send EXCEPT ![r] = [@ EXCEPT !.phase = "found", !.user = u]] ELSE FinishSend(r)
  /\ UNCHANGED <<clock, is_active, pending, confirm, signed_in, history>>

ResendRead(r) ==
  /\ send[r].phase = "found"
  /\ IF Unverified(send[r].user)
     THEN send' = [send EXCEPT ![r] = [@ EXCEPT !.phase = "read", !.sent_at = pending[send[r].user].sent_at]]
     ELSE FinishSend(r)
  /\ UNCHANGED <<clock, is_active, pending, confirm, signed_in, history>>

\* The throttle, on the time read before.
ResendThrottle(r) ==
  /\ send[r].phase = "read"
  /\ IF clock - send[r].sent_at < Resend THEN FinishSend(r) ELSE send' = [send EXCEPT ![r].phase = "allowed"]
  /\ UNCHANGED <<clock, is_active, pending, confirm, signed_in, history>>

ResendReadClock(r) ==
  /\ send[r].phase = "allowed"
  /\ send' = [send EXCEPT ![r] = [@ EXCEPT !.phase = "restarting", !.expires_at = clock + CodeLife]]
  /\ UNCHANGED <<clock, is_active, pending, confirm, signed_in, history>>

\* Mistake: the row was seen unverified, so the UPDATE does not ask again.
RestartableAsRead(u) == u \in DOMAIN pending

\* restart_email_verification: its WHERE.
Restartable(u) == Unverified(u)

RestartCommit(r) ==
  LET u == send[r].user
  IN /\ send[r].phase = "restarting"
     /\ \/ /\ Restartable(u)
           /\ pending' = [pending EXCEPT ![u] = [NewRow(r) EXCEPT !.verified = pending[u].verified]]
           /\ Issue(r, u)
        \/ /\ ~Restartable(u)
           /\ FinishSend(r)
           /\ UNCHANGED <<pending, issued>>
     /\ UNCHANGED <<clock, is_active, confirm, signed_in, compared>>

-----------------------------------------------------------------------------
(* POST /auth/email-verification/confirm                                    *)

\* get_user_by_email.  The person types a code that was e-mailed to anyone, or a wrong one (NULL).
ConfirmArrive(c, u, typed) ==
  /\ confirm[c].phase = "idle"
  /\ IF Found(u)
     THEN confirm' = [confirm EXCEPT ![c] = [@ EXCEPT !.phase = "found", !.user = u, !.typed = typed]]
     ELSE FinishConfirm(c)
  /\ UNCHANGED <<clock, is_active, pending, send, signed_in, history>>

\* get_pending_email_verification: the hash that the typed code will be compared with.
ConfirmRead(c) ==
  /\ confirm[c].phase = "found"
  /\ IF Unverified(confirm[c].user)
     THEN confirm' = [confirm EXCEPT ![c] = [@ EXCEPT !.phase = "read", !.code = pending[confirm[c].user].code]]
     ELSE FinishConfirm(c)
  /\ UNCHANGED <<clock, is_active, pending, send, signed_in, history>>

\* Mistake: the limit lets one attempt too many through.
AttemptLeftOrLast(u) == Unverified(u) /\ pending[u].attempts <= MaxAttempts /\ pending[u].expires_at > clock

\* register_email_verification_attempt: its WHERE, on whatever code the row now holds.
AttemptLeft(u) == Unverified(u) /\ pending[u].attempts < MaxAttempts /\ pending[u].expires_at > clock

\* The attempt is counted first, and the typed code compared after it with the hash read before.
ConfirmAttempt(c) ==
  LET u == confirm[c].user
  IN /\ confirm[c].phase = "read"
     /\ \/ /\ ~AttemptLeft(u)
           /\ FinishConfirm(c)
           /\ UNCHANGED <<pending, compared>>
        \/ /\ AttemptLeft(u)
           /\ pending' = [pending EXCEPT ![u].attempts = @ + 1]
           /\ compared' = compared \cup {[by |-> c, code |-> confirm[c].code, counted |-> pending[u].code]}
           /\ IF AcceptAny \/ confirm[c].typed = confirm[c].code
              THEN confirm' = [confirm EXCEPT ![c].phase = "matched"]
              ELSE FinishConfirm(c)
     /\ UNCHANGED <<clock, is_active, send, signed_in, issued>>

\* Mistake: the code matched, so the WHERE does not name it again.
CompletableWhateverCode(c, u) == Unverified(u) /\ pending[u].expires_at > clock
\* Mistake: the row was seen unverified, so the WHERE does not ask again.
CompletableAgain(c, u) == pending[u].code = confirm[c].code /\ pending[u].expires_at > clock

\* complete_email_verification: its WHERE.
Completable(c, u) == pending[u].code = confirm[c].code /\ Unverified(u) /\ pending[u].expires_at > clock

ConfirmComplete(c) ==
  LET u == confirm[c].user
  IN /\ confirm[c].phase = "matched"
     /\ \/ /\ Completable(c, u)
           /\ pending' = [pending EXCEPT ![u].verified = TRUE]
           /\ confirm' = [confirm EXCEPT ![c].phase = "verified"]
        \/ /\ ~Completable(c, u)
           /\ FinishConfirm(c)
           /\ UNCHANGED pending
     /\ UNCHANGED <<clock, is_active, send, signed_in, history>>

\* _issue_token: refused if the account is suspended (any time an administrator likes: module Sanctions).
ConfirmToken(c) ==
  /\ confirm[c].phase = "verified"
  /\ \E suspended \in BOOLEAN :
       signed_in' = [signed_in EXCEPT ![c] = IF suspended THEN NULL ELSE confirm[c].user]
  /\ FinishConfirm(c)
  /\ UNCHANGED <<clock, is_active, pending, send, history>>

-----------------------------------------------------------------------------
\* DELETE /users/me: the logical deletion, at any moment; the row and the address stay.
Delete(u) ==
  /\ Found(u)
  /\ is_active' = [is_active EXCEPT ![u] = FALSE]
  /\ UNCHANGED <<clock, pending, send, confirm, signed_in, history>>

Tick == /\ clock < MaxTime
        /\ clock' = clock + 1
        /\ UNCHANGED <<is_active, pending, send, confirm, signed_in, history>>

\* A request stops between two transactions: a crash, or a database error.
Lost ==
  /\ \/ \E r \in Sends : send[r].phase \notin {"idle", "done"} /\ FinishSend(r) /\ UNCHANGED confirm
     \/ \E c \in Confirms : confirm[c].phase \notin {"idle", "done"} /\ FinishConfirm(c) /\ UNCHANGED send
  /\ UNCHANGED <<clock, is_active, pending, signed_in, history>>

SendStep(r) == \/ \E u \in Accounts : RegisterArrive(r, u) \/ ResendArrive(r, u)
               \/ RegisterCommit(r) \/ RegisterConflict(r)
               \/ ResendRead(r) \/ ResendThrottle(r) \/ ResendReadClock(r) \/ RestartCommit(r)
ConfirmStep(c) == \/ \E u \in Accounts, typed \in {i.code : i \in issued} \cup {NULL} : ConfirmArrive(c, u, typed)
                  \/ ConfirmRead(c) \/ ConfirmAttempt(c) \/ ConfirmComplete(c) \/ ConfirmToken(c)

Next == \/ Tick \/ Lost
        \/ \E u \in Accounts : Delete(u)
        \/ \E r \in Sends : SendStep(r)
        \/ \E c \in Confirms : ConfirmStep(c)

Spec == Init /\ [][Next]_vars

-----------------------------------------------------------------------------
(* Properties                                                               *)

TypeOK ==
  /\ clock \in Nat
  /\ DOMAIN is_active \subseteq Accounts /\ is_active \in [DOMAIN is_active -> BOOLEAN]
  /\ pending \in [DOMAIN is_active -> Verification]
  /\ send \in [Sends -> [phase : {"idle", "registering", "found", "read", "allowed", "restarting", "done"},
                         user : Accounts \cup {NULL}, sent_at : Nat, expires_at : Nat]]
  /\ confirm \in [Confirms -> [phase : {"idle", "found", "read", "matched", "verified", "done"},
                               user : Accounts \cup {NULL}, typed : Sends \cup {NULL}, code : Sends \cup {NULL}]]
  /\ signed_in \in [Confirms -> Accounts \cup {NULL}]
  /\ issued \subseteq [code : Sends, user : Accounts, at : Nat]
  /\ compared \subseteq [by : Confirms, code : Sends, counted : Sends]

\* "Count the attempt before checking the code so parallel guesses cannot exceed the limit": on the attempts
\* of one code no more comparisons are made than the limit, stale ones with the code before it included.
GuessesLimited ==
  \A k \in Sends : Cardinality({x \in compared : x.counted = k}) <= MaxAttempts

\* A code signs one person in once: of all the confirmations of an account that matched, one gets the token
\* that registration did not give.
OneSignIn ==
  \A c, d \in Confirms : signed_in[c] # NULL /\ signed_in[c] = signed_in[d] => c = d

\* An account is verified by the last code that was sent to it, alive at that moment, typed in a confirmation
\* whose guess was counted on the attempts of that very code: not by one the row held when it was read.
VerifiedStep ==
  \A u \in DOMAIN pending : ~pending[u].verified /\ pending'[u].verified =>
    LET k == pending[u].code
    IN /\ pending[u].expires_at > clock
       /\ \E i \in issued : i.code = k /\ i.user = u /\ \A j \in issued : j.user = u => j.at <= i.at
       /\ \E c \in Confirms : /\ confirm[c].phase = "matched" /\ confirm[c].user = u
                              /\ (AcceptAny \/ confirm[c].typed = k)
                              /\ [by |-> c, code |-> k, counted |-> k] \in compared
VerifiedByLastCode == [][VerifiedStep]_vars

\* No code is sent to an account that is verified by then, also by a request that had found it pending; and within the
\* interval of a code only a request that had looked before that code was saved sends another one: the throttle
\* compares with a sent_at read two transactions before the row is overwritten, and nothing worse follows.
ResendStep ==
  \A r \in Sends, u \in DOMAIN pending :
    [code |-> r, user |-> u, at |-> clock] \in issued' \ issued =>
      /\ ~pending[u].verified
      /\ clock - pending[u].sent_at >= Resend \/ pending[u].sent_at > send[r].sent_at
ResendSpaced == [][ResendStep]_vars

\* The row of each account that is not verified.
Codes == [u \in {x \in DOMAIN pending : Unverified(x)} |->
            [code |-> pending[u].code, expires_at |-> pending[u].expires_at, sent_at |-> pending[u].sent_at,
             attempts |-> pending[u].attempts]]

\* Seen from the service, the table behaves as the dictionary of the mock repository: a verified account never has a
\* code again, attempts are counted up to the limit and from zero only for a new code, and an account is verified only
\* while its code lives.
Store == INSTANCE VerificationStore WITH
           Codes <- Sends, pending <- Codes, verified <- {u \in DOMAIN pending : pending[u].verified}
StoreSpec == Store!StoreSpec
=============================================================================
