---------------------- MODULE EmailVerificationProofs ----------------------
(***************************************************************************)
(* What TLAPS proves of EmailVerification for every value of the           *)
(* constants: any number of accounts, codes and confirmations, any limit   *)
(* of guesses, and that it implements VerificationStore.                   *)
(***************************************************************************)
EXTENDS EmailVerification, FiniteSetTheorems, TLAPS

\* A code is issued once, and the row of an account holds the last one issued to it.
IssuedOnce ==
  /\ \A i, j \in issued : i.code = j.code => i = j
  /\ \A i \in issued : i.at <= clock
LastIssued ==
  \A u \in DOMAIN pending :
    /\ pending[u].sent_at <= clock
    /\ \E i \in issued : /\ i.code = pending[u].code /\ i.user = u
                         /\ \A j \in issued : j.user = u => j.at <= i.at

\* A request for a code that is not over has not issued it, and what it read before still bounds what the row holds.
SendGood(q) ==
  /\ q.phase \in {"registering", "found", "read", "allowed", "restarting"} => q.user \in Accounts
  /\ q.phase \in {"found", "read", "allowed", "restarting"} => q.user \in DOMAIN pending
  /\ q.phase \in {"read", "allowed", "restarting"} => q.sent_at <= pending[q.user].sent_at
  /\ q.phase \in {"allowed", "restarting"} => clock - q.sent_at >= Resend
  /\ q.phase \in {"registering", "restarting"} => q.expires_at <= clock + CodeLife
SendRemembers ==
  \A r \in Sends :
    /\ send[r].phase # "done" => \A i \in issued : i.code # r
    /\ SendGood(send[r])

\* A confirmation holds a code that was issued; if the row holds it still, the guess that matched was counted on it.
ConfirmGood(c, q) ==
  /\ q.phase \in {"found", "read", "matched", "verified"} => q.user \in DOMAIN pending
  /\ q.phase \in {"read", "matched"} => \E i \in issued : i.code = q.code
  /\ q.phase = "matched" =>
       /\ AcceptAny \/ q.typed = q.code
       /\ pending[q.user].code = q.code => [by |-> c, code |-> q.code, counted |-> q.code] \in compared
ConfirmRemembers == \A c \in Confirms : ConfirmGood(c, confirm[c])

\* Every comparison was counted on the row of its code, as long as it held that code.
Counted ==
  /\ IsFiniteSet(compared)
  /\ \A x \in compared : \E i \in issued : i.code = x.counted
  /\ \A k \in Sends : Cardinality({x \in compared : x.counted = k}) <= MaxAttempts
  /\ \A u \in DOMAIN pending : Cardinality({x \in compared : x.counted = pending[u].code}) <= pending[u].attempts

\* The confirmation that verified an account, whether or not it has got its token yet.
Winner(c, u) == signed_in[c] = u \/ (confirm[c].phase = "verified" /\ confirm[c].user = u)
OneWinner ==
  \A u \in Accounts, c \in Confirms :
    Winner(c, u) => /\ u \in DOMAIN pending /\ pending[u].verified
                    /\ \A d \in Confirms : Winner(d, u) => d = c

\* The inductive invariant.
IInv == TypeOK /\ IssuedOnce /\ LastIssued /\ SendRemembers /\ ConfirmRemembers /\ Counted /\ OneWinner

LEMMA InitIInv == Init => IInv
<1> SUFFICES ASSUME Init PROVE IInv
  OBVIOUS
<1>1. TypeOK
  BY DEF Init, TypeOK, IdleSend, IdleConfirm
<1>2. IssuedOnce /\ LastIssued
  BY DEF Init, IssuedOnce, LastIssued
<1>3. SendRemembers /\ ConfirmRemembers
  BY DEF Init, SendRemembers, SendGood, ConfirmRemembers, ConfirmGood, IdleSend, IdleConfirm
<1>4. Counted
  <2>1. {x \in compared : x.counted = NULL} = {} /\ compared = {} /\ DOMAIN pending = {}
    BY DEF Init
  <2>2. \A k : {x \in compared : x.counted = k} = {}
    BY <2>1
  <2>3. \A k : Cardinality({x \in compared : x.counted = k}) = 0
    BY <2>2, FS_EmptySet
  <2> QED
    BY <2>1, <2>3, FS_EmptySet, VerificationAssumption DEF Counted
<1>5. OneWinner
  BY VerificationAssumption DEF Init, OneWinner, Winner, IdleConfirm
<1> QED
  BY <1>1, <1>2, <1>3, <1>4, <1>5 DEF IInv

-----------------------------------------------------------------------------
(* Types                                                                    *)

SendState == [phase : {"idle", "registering", "found", "read", "allowed", "restarting", "done"},
              user : Accounts \cup {NULL}, sent_at : Nat, expires_at : Nat]
ConfirmState == [phase : {"idle", "found", "read", "matched", "verified", "done"},
                 user : Accounts \cup {NULL}, typed : Sends \cup {NULL}, code : Sends \cup {NULL}]

\* A request that is over is well typed, and remembers nothing.
LEMMA SendDone ==
  ASSUME NEW r \in Sends, FinishSend(r)
  PROVE  \E q \in SendState : send' = [send EXCEPT ![r] = q] /\ q.phase = "done"
<1>1. [IdleSend EXCEPT !.phase = "done"] \in SendState /\ [IdleSend EXCEPT !.phase = "done"].phase = "done"
  BY DEF IdleSend, SendState
<1> QED
  BY <1>1 DEF FinishSend
LEMMA ConfirmDone ==
  ASSUME NEW c \in Confirms, FinishConfirm(c)
  PROVE  \E q \in ConfirmState : confirm' = [confirm EXCEPT ![c] = q] /\ q.phase = "done"
<1>1. [IdleConfirm EXCEPT !.phase = "done"] \in ConfirmState /\ [IdleConfirm EXCEPT !.phase = "done"].phase = "done"
  BY DEF IdleConfirm, ConfirmState
<1> QED
  BY <1>1 DEF FinishConfirm

\* What becomes of a row that is counted on, verified or overwritten.
LEMMA RowFields ==
  ASSUME NEW row \in Verification
  PROVE  /\ \A new : new = [row EXCEPT !.attempts = row.attempts + 1] /\ row.attempts < MaxAttempts =>
              /\ new \in Verification /\ new.attempts = row.attempts + 1
              /\ new.code = row.code /\ new.expires_at = row.expires_at /\ new.sent_at = row.sent_at
              /\ new.verified = row.verified
         /\ \A b \in BOOLEAN : \A new : new = [row EXCEPT !.verified = b] =>
              /\ new \in Verification /\ new.verified = b /\ new.attempts = row.attempts
              /\ new.code = row.code /\ new.expires_at = row.expires_at /\ new.sent_at = row.sent_at
         /\ row.attempts \in Nat /\ row.attempts <= MaxAttempts /\ row.verified \in BOOLEAN
         /\ row.code \in Sends /\ row.sent_at \in Nat /\ row.expires_at \in Nat
<1>1. ASSUME NEW new, new = [row EXCEPT !.attempts = row.attempts + 1], row.attempts < MaxAttempts
      PROVE  /\ new \in Verification /\ new.attempts = row.attempts + 1
             /\ new.code = row.code /\ new.expires_at = row.expires_at /\ new.sent_at = row.sent_at
             /\ new.verified = row.verified
  <2>1. row.attempts + 1 \in 0..MaxAttempts
    BY <1>1, VerificationAssumption DEF Verification
  <2> QED
    BY <1>1, <2>1 DEF Verification
<1>2. ASSUME NEW b \in BOOLEAN, NEW new, new = [row EXCEPT !.verified = b]
      PROVE  /\ new \in Verification /\ new.verified = b /\ new.attempts = row.attempts
             /\ new.code = row.code /\ new.expires_at = row.expires_at /\ new.sent_at = row.sent_at
  BY <1>2 DEF Verification
<1>3. /\ row.attempts \in Nat /\ row.attempts <= MaxAttempts /\ row.verified \in BOOLEAN
      /\ row.code \in Sends /\ row.sent_at \in Nat /\ row.expires_at \in Nat
  BY VerificationAssumption DEF Verification
<1> QED
  BY <1>1, <1>2, <1>3

-----------------------------------------------------------------------------
(* What the steps that change the rows do                                   *)

LEMMA Rows ==
  ASSUME TypeOK
  PROVE  /\ DOMAIN pending = DOMAIN is_active /\ DOMAIN pending \subseteq Accounts
         /\ \A u \in DOMAIN pending : pending[u] \in Verification
         /\ send \in [Sends -> SendState] /\ confirm \in [Confirms -> ConfirmState] /\ clock \in Nat
BY DEF TypeOK, SendState, ConfirmState

\* A code is committed, by a registration or by a request for a new one.
IssueStep(r) == RegisterCommit(r) \/ (RestartCommit(r) /\ Restartable(send[r].user))

Issues(r, u) ==
  /\ u = send[r].user /\ (u \in DOMAIN pending => ~pending[u].verified)
  /\ DOMAIN pending' = DOMAIN pending \cup {u} /\ DOMAIN is_active' = DOMAIN is_active \cup {u}
  /\ \A x \in DOMAIN pending : x # u => pending'[x] = pending[x]
  /\ pending'[u] \in Verification
  /\ pending'[u].code = r /\ pending'[u].sent_at = clock /\ pending'[u].attempts = 0 /\ ~pending'[u].verified
  /\ pending'[u].expires_at <= clock + CodeLife
  /\ pending' = [x \in DOMAIN pending' |-> pending'[x]]
  /\ issued' = issued \cup {[code |-> r, user |-> u, at |-> clock]} /\ \A i \in issued : i.code # r
  /\ FinishSend(r) /\ UNCHANGED <<clock, confirm, signed_in, compared>>
  /\ send[r].phase \in {"registering", "restarting"}

LEMMA IssueEffect ==
  ASSUME IInv, NEW r \in Sends, IssueStep(r)
  PROVE  \E u \in Accounts : Issues(r, u)
<1>0. TypeOK
  BY DEF IInv
<1>1. /\ send[r].phase \in {"registering", "restarting"}
      /\ send[r].phase = "restarting" => send[r].user \in DOMAIN pending
  BY DEF IssueStep, RegisterCommit, RestartCommit, IInv, SendRemembers, SendGood
<1>2. PICK u \in Accounts : u = send[r].user
  BY <1>1 DEF IInv, SendRemembers, SendGood
<1>3. \A i \in issued : i.code # r
  BY <1>1 DEF IInv, SendRemembers
<1>4. send[r].expires_at \in Nat /\ send[r].expires_at <= clock + CodeLife
  BY <1>0, <1>1, Rows DEF IInv, SendRemembers, SendGood, SendState
<1>5. PICK row \in Verification : row = NewRow(r)
  <2>1. 0 \in 0..MaxAttempts /\ clock \in Nat
    BY <1>0, Rows, VerificationAssumption
  <2>2. NewRow(r) \in Verification
    BY <1>4, <2>1 DEF NewRow, Verification
  <2> QED
    BY <2>2
<1>6. /\ row.code = r /\ row.sent_at = clock /\ row.attempts = 0 /\ row.verified = FALSE
      /\ row.expires_at = send[r].expires_at
  BY <1>5 DEF NewRow
<1>7. /\ issued' = issued \cup {[code |-> r, user |-> u, at |-> clock]} /\ FinishSend(r)
      /\ UNCHANGED <<clock, confirm, signed_in, compared>>
  BY <1>2 DEF IssueStep, RegisterCommit, RestartCommit, Issue
<1>8. CASE RegisterCommit(r)
  <2>1. pending' = [x \in DOMAIN pending \cup {u} |-> IF x = u THEN row ELSE pending[x]] /\ u \notin DOMAIN is_active
    BY <1>2, <1>5, <1>8 DEF RegisterCommit
  <2>2. DOMAIN is_active' = DOMAIN is_active \cup {u}
    BY <1>2, <1>8 DEF RegisterCommit
  <2>3. /\ DOMAIN pending' = DOMAIN pending \cup {u} /\ pending'[u] = row
        /\ \A x \in DOMAIN pending : x # u => pending'[x] = pending[x]
        /\ pending' = [x \in DOMAIN pending' |-> pending'[x]]
    BY <2>1
  <2> QED
    BY <1>0, <1>1, <1>2, <1>3, <1>4, <1>6, <1>7, <2>1, <2>2, <2>3, Rows DEF Issues
<1>9. CASE RestartCommit(r) /\ Restartable(u)
  <2>1. u \in DOMAIN pending /\ ~pending[u].verified
    BY <1>1, <1>2, <1>9 DEF Restartable, Unverified, RestartCommit
  <2>2. pending' = [pending EXCEPT ![u] = [row EXCEPT !.verified = pending[u].verified]]
    BY <1>2, <1>5, <1>9 DEF RestartCommit
  <2>3. PICK new : new = [row EXCEPT !.verified = pending[u].verified]
    OBVIOUS
  <2>4. PICK b \in BOOLEAN : b = pending[u].verified /\ b = FALSE
    BY <1>0, <2>1, Rows, RowFields
  <2>5. /\ new \in Verification /\ new.code = r /\ new.sent_at = clock /\ new.attempts = 0 /\ new.verified = FALSE
        /\ new.expires_at = send[r].expires_at
    BY <1>6, <2>3, <2>4, RowFields
  <2>6. /\ DOMAIN pending' = DOMAIN pending /\ pending'[u] = new
        /\ \A x \in DOMAIN pending : x # u => pending'[x] = pending[x]
        /\ pending' = [x \in DOMAIN pending' |-> pending'[x]]
    BY <2>1, <2>2, <2>3
  <2>7. UNCHANGED is_active
    BY <1>9 DEF RestartCommit
  <2>8. DOMAIN pending' = DOMAIN pending \cup {u} /\ DOMAIN is_active' = DOMAIN is_active \cup {u}
    <3>1. DOMAIN is_active = DOMAIN pending
      BY <1>0, Rows
    <3> QED
      BY <2>1, <2>6, <2>7, <3>1
  <2>9. /\ pending'[u] \in Verification
        /\ pending'[u].code = r /\ pending'[u].sent_at = clock /\ pending'[u].attempts = 0 /\ ~pending'[u].verified
        /\ pending'[u].expires_at <= clock + CodeLife
    BY <1>4, <2>5, <2>6
  <2> QED
    BY <1>1, <1>2, <1>3, <1>7, <2>1, <2>6, <2>8, <2>9 DEF Issues
<1> QED
  BY <1>2, <1>8, <1>9 DEF IssueStep

\* A counted attempt.
LEMMA AttemptEffect ==
  ASSUME IInv, NEW c \in Confirms, ConfirmAttempt(c), AttemptLeft(confirm[c].user)
  PROVE  \E u \in DOMAIN pending :
           /\ u = confirm[c].user /\ confirm[c].phase = "read"
           /\ ~pending[u].verified /\ pending[u].attempts < MaxAttempts /\ pending[u].expires_at > clock
           /\ pending' = [pending EXCEPT ![u] = [pending[u] EXCEPT !.attempts = pending[u].attempts + 1]]
           /\ DOMAIN pending' = DOMAIN pending /\ \A x \in DOMAIN pending : x # u => pending'[x] = pending[x]
           /\ pending'[u] \in Verification /\ pending'[u].attempts = pending[u].attempts + 1
           /\ pending'[u].code = pending[u].code /\ pending'[u].expires_at = pending[u].expires_at
           /\ pending'[u].sent_at = pending[u].sent_at /\ pending'[u].verified = pending[u].verified
           /\ compared' = compared \cup {[by |-> c, code |-> confirm[c].code, counted |-> pending[u].code]}
           /\ UNCHANGED <<clock, is_active, send, signed_in, issued>>
<1>0. TypeOK
  BY DEF IInv
<1>1. confirm[c].phase = "read"
  BY DEF ConfirmAttempt
<1>2. PICK u \in DOMAIN pending : u = confirm[c].user
  BY <1>1 DEF IInv, ConfirmRemembers, ConfirmGood
<1>3. ~pending[u].verified /\ pending[u].attempts < MaxAttempts /\ pending[u].expires_at > clock
  BY <1>2 DEF AttemptLeft, Unverified
<1>4. pending' = [pending EXCEPT ![u] = [pending[u] EXCEPT !.attempts = pending[u].attempts + 1]]
  BY <1>2 DEF ConfirmAttempt
<1>5. PICK new : new = [pending[u] EXCEPT !.attempts = pending[u].attempts + 1]
  OBVIOUS
<1>6. /\ new \in Verification /\ new.attempts = pending[u].attempts + 1
      /\ new.code = pending[u].code /\ new.expires_at = pending[u].expires_at
      /\ new.sent_at = pending[u].sent_at /\ new.verified = pending[u].verified
  BY <1>0, <1>3, <1>5, Rows, RowFields
<1>7. /\ DOMAIN pending' = DOMAIN pending /\ pending'[u] = new
      /\ \A x \in DOMAIN pending : x # u => pending'[x] = pending[x]
  BY <1>4, <1>5
<1>8. /\ compared' = compared \cup {[by |-> c, code |-> confirm[c].code, counted |-> pending[u].code]}
      /\ UNCHANGED <<clock, is_active, send, signed_in, issued>>
  BY <1>2 DEF ConfirmAttempt
<1> QED
  BY <1>1, <1>2, <1>3, <1>4, <1>6, <1>7, <1>8

\* An account that is verified.
LEMMA CompleteEffect ==
  ASSUME IInv, NEW c \in Confirms, ConfirmComplete(c), Completable(c, confirm[c].user)
  PROVE  \E u \in DOMAIN pending :
           /\ u = confirm[c].user /\ confirm[c].phase = "matched"
           /\ pending[u].code = confirm[c].code /\ ~pending[u].verified /\ pending[u].expires_at > clock
           /\ pending' = [pending EXCEPT ![u] = [pending[u] EXCEPT !.verified = TRUE]]
           /\ DOMAIN pending' = DOMAIN pending /\ \A x \in DOMAIN pending : x # u => pending'[x] = pending[x]
           /\ pending'[u] \in Verification /\ pending'[u].attempts = pending[u].attempts
           /\ pending'[u].code = pending[u].code /\ pending'[u].expires_at = pending[u].expires_at
           /\ pending'[u].sent_at = pending[u].sent_at /\ pending'[u].verified
           /\ confirm' = [confirm EXCEPT ![c] = [confirm[c] EXCEPT !.phase = "verified"]]
           /\ UNCHANGED <<clock, is_active, send, signed_in, issued, compared>>
<1>0. TypeOK
  BY DEF IInv
<1>1. confirm[c].phase = "matched"
  BY DEF ConfirmComplete
<1>2. PICK u \in DOMAIN pending : u = confirm[c].user
  BY <1>1 DEF IInv, ConfirmRemembers, ConfirmGood
<1>3. pending[u].code = confirm[c].code /\ ~pending[u].verified /\ pending[u].expires_at > clock
  BY <1>2 DEF Completable, Unverified
<1>4. pending' = [pending EXCEPT ![u] = [pending[u] EXCEPT !.verified = TRUE]]
  BY <1>2 DEF ConfirmComplete
<1>b. PICK b \in BOOLEAN : b = TRUE
  OBVIOUS
<1>5. PICK new : new = [pending[u] EXCEPT !.verified = b]
  OBVIOUS
<1>6. /\ new \in Verification /\ new.attempts = pending[u].attempts
      /\ new.code = pending[u].code /\ new.expires_at = pending[u].expires_at
      /\ new.sent_at = pending[u].sent_at /\ new.verified
  <2>1. pending[u] \in Verification /\ new = [pending[u] EXCEPT !.verified = b]
    BY <1>0, <1>5, Rows
  <2>2. /\ new \in Verification /\ new.verified = b /\ new.attempts = pending[u].attempts
        /\ new.code = pending[u].code /\ new.expires_at = pending[u].expires_at
        /\ new.sent_at = pending[u].sent_at
    BY <2>1, RowFields
  <2>3. new.verified
    BY <1>b, <2>2
  <2> QED
    BY <2>2, <2>3
<1>7. /\ DOMAIN pending' = DOMAIN pending /\ pending'[u] = new
      /\ \A x \in DOMAIN pending : x # u => pending'[x] = pending[x]
  BY <1>b, <1>4, <1>5
<1>8. /\ confirm' = [confirm EXCEPT ![c] = [confirm[c] EXCEPT !.phase = "verified"]]
      /\ UNCHANGED <<clock, is_active, send, signed_in, issued, compared>>
  BY <1>2 DEF ConfirmComplete, history
<1> QED
  BY <1>1, <1>2, <1>3, <1>4, <1>6, <1>7, <1>8

\* Everything else leaves the rows and the history alone.
LEMMA TablesChange ==
  ASSUME IInv, [Next]_vars
  PROVE  \/ /\ UNCHANGED <<pending, issued, compared>> /\ DOMAIN is_active' = DOMAIN is_active
            /\ clock' \in Nat /\ clock' >= clock
         \/ \E r \in Sends : IssueStep(r)
         \/ \E c \in Confirms : ConfirmAttempt(c) /\ AttemptLeft(confirm[c].user)
         \/ \E c \in Confirms : ConfirmComplete(c) /\ Completable(c, confirm[c].user)
<1>0. clock \in Nat /\ is_active \in [DOMAIN is_active -> BOOLEAN]
  BY DEF IInv, TypeOK
<1>1. CASE UNCHANGED vars
  BY <1>0, <1>1 DEF vars, history
<1>2. CASE Tick \/ Lost
  BY <1>0, <1>2 DEF Tick, Lost, history
<1>3. ASSUME NEW u \in Accounts, Delete(u)
      PROVE  UNCHANGED <<pending, issued, compared, clock>> /\ DOMAIN is_active' = DOMAIN is_active
  BY <1>0, <1>3 DEF Delete, history
<1>4. ASSUME NEW r \in Sends, SendStep(r), ~IssueStep(r)
      PROVE  UNCHANGED <<pending, issued, compared, clock, is_active>>
  BY <1>4 DEF SendStep, IssueStep, RegisterArrive, ResendArrive, RegisterCommit, RegisterConflict, ResendRead,
              ResendThrottle, ResendReadClock, RestartCommit, history
<1>5. ASSUME NEW c \in Confirms, ConfirmStep(c)
      PROVE  \/ UNCHANGED <<pending, issued, compared, clock, is_active>>
             \/ ConfirmAttempt(c) /\ AttemptLeft(confirm[c].user)
             \/ ConfirmComplete(c) /\ Completable(c, confirm[c].user)
  <2>1. CASE ConfirmAttempt(c)
    BY <2>1 DEF ConfirmAttempt
  <2>2. CASE ConfirmComplete(c)
    BY <2>2 DEF ConfirmComplete, history
  <2>3. CASE ~ConfirmAttempt(c) /\ ~ConfirmComplete(c)
    BY <1>5, <2>3 DEF ConfirmStep, ConfirmArrive, ConfirmRead, ConfirmToken, history
  <2> QED
    BY <2>1, <2>2, <2>3
<1> QED
  BY <1>0, <1>1, <1>2, <1>3, <1>4, <1>5 DEF Next

\* The rows only grow: one that is verified never changes again, and a code that replaces another was never issued.
LEMMA RowsGrow ==
  ASSUME IInv, [Next]_vars
  PROVE  /\ DOMAIN pending \subseteq DOMAIN pending' /\ DOMAIN pending' \subseteq Accounts
         /\ pending' \in [DOMAIN pending' -> Verification] /\ DOMAIN is_active' = DOMAIN pending'
         /\ clock' \in Nat /\ clock' >= clock /\ issued \subseteq issued' /\ compared \subseteq compared'
         /\ \A u \in DOMAIN pending :
              /\ pending'[u].sent_at >= pending[u].sent_at
              /\ pending[u].verified => pending'[u] = pending[u]
              /\ pending'[u].code = pending[u].code \/ \A i \in issued : i.code # pending'[u].code
<1>0. /\ TypeOK /\ DOMAIN pending = DOMAIN is_active /\ DOMAIN pending \subseteq Accounts /\ clock \in Nat
      /\ pending \in [DOMAIN pending -> Verification]
      /\ \A u \in DOMAIN pending : pending[u].sent_at \in Nat /\ pending[u].sent_at <= clock
  BY Rows, RowFields DEF IInv, TypeOK, LastIssued
<1>1. CASE /\ UNCHANGED <<pending, issued, compared>> /\ DOMAIN is_active' = DOMAIN is_active
           /\ clock' \in Nat /\ clock' >= clock
  BY <1>0, <1>1
<1>2. ASSUME NEW r \in Sends, IssueStep(r)
      PROVE  /\ DOMAIN pending \subseteq DOMAIN pending' /\ DOMAIN pending' \subseteq Accounts
             /\ pending' \in [DOMAIN pending' -> Verification] /\ DOMAIN is_active' = DOMAIN pending'
             /\ clock' \in Nat /\ clock' >= clock /\ issued \subseteq issued' /\ compared \subseteq compared'
             /\ \A u \in DOMAIN pending :
                  /\ pending'[u].sent_at >= pending[u].sent_at
                  /\ pending[u].verified => pending'[u] = pending[u]
                  /\ pending'[u].code = pending[u].code \/ \A i \in issued : i.code # pending'[u].code
  <2>0. PICK u \in Accounts : Issues(r, u)
    BY <1>2, IssueEffect
  <2>1. /\ (u \in DOMAIN pending => ~pending[u].verified)
        /\ DOMAIN pending' = DOMAIN pending \cup {u} /\ DOMAIN is_active' = DOMAIN is_active \cup {u}
        /\ \A x \in DOMAIN pending : x # u => pending'[x] = pending[x]
        /\ pending'[u] \in Verification
        /\ pending'[u].code = r /\ pending'[u].sent_at = clock
        /\ pending' = [x \in DOMAIN pending' |-> pending'[x]]
        /\ issued \subseteq issued' /\ \A i \in issued : i.code # r
        /\ UNCHANGED <<clock, confirm, signed_in, compared>>
    BY <2>0 DEF Issues
  <2>2. pending' \in [DOMAIN pending' -> Verification]
    BY <1>0, <2>1
  <2>3. \A x \in DOMAIN pending :
          /\ pending'[x].sent_at >= pending[x].sent_at
          /\ pending[x].verified => pending'[x] = pending[x]
          /\ pending'[x].code = pending[x].code \/ \A i \in issued : i.code # pending'[x].code
    <3> TAKE x \in DOMAIN pending
    <3>1. CASE x = u
      BY <1>0, <2>1, <3>1
    <3>2. CASE x # u
      BY <1>0, <2>1, <3>2
    <3> QED
      BY <3>1, <3>2
  <2> QED
    BY <1>0, <2>1, <2>2, <2>3
<1>3. ASSUME NEW u \in DOMAIN pending, NEW row \in Verification, pending' = [pending EXCEPT ![u] = row],
             row.code = pending[u].code, row.sent_at = pending[u].sent_at, ~pending[u].verified,
             UNCHANGED <<clock, is_active, issued>>, compared \subseteq compared'
      PROVE  /\ DOMAIN pending \subseteq DOMAIN pending' /\ DOMAIN pending' \subseteq Accounts
             /\ pending' \in [DOMAIN pending' -> Verification] /\ DOMAIN is_active' = DOMAIN pending'
             /\ clock' \in Nat /\ clock' >= clock /\ issued \subseteq issued' /\ compared \subseteq compared'
             /\ \A x \in DOMAIN pending :
                  /\ pending'[x].sent_at >= pending[x].sent_at
                  /\ pending[x].verified => pending'[x] = pending[x]
                  /\ pending'[x].code = pending[x].code \/ \A i \in issued : i.code # pending'[x].code
  <2>1. DOMAIN pending' = DOMAIN pending /\ pending'[u] = row /\ \A x \in DOMAIN pending : x # u => pending'[x] = pending[x]
    BY <1>3
  <2>2. pending' \in [DOMAIN pending' -> Verification]
    BY <1>0, <1>3, <2>1
  <2> QED
    BY <1>0, <1>3, <2>1, <2>2
<1>4. ASSUME NEW c \in Confirms, ConfirmAttempt(c), AttemptLeft(confirm[c].user)
      PROVE  \E u \in DOMAIN pending, row \in Verification :
               /\ pending' = [pending EXCEPT ![u] = row]
               /\ row.code = pending[u].code /\ row.sent_at = pending[u].sent_at /\ ~pending[u].verified
               /\ UNCHANGED <<clock, is_active, issued>> /\ compared \subseteq compared'
  <2>1. PICK u \in DOMAIN pending :
           /\ pending' = [pending EXCEPT ![u] = [pending[u] EXCEPT !.attempts = pending[u].attempts + 1]]
           /\ pending'[u] \in Verification /\ ~pending[u].verified
           /\ pending'[u].code = pending[u].code
           /\ pending'[u].sent_at = pending[u].sent_at
           /\ compared \subseteq compared'
           /\ UNCHANGED <<clock, is_active, send, signed_in, issued>>
    BY <1>4, AttemptEffect
  <2>2. pending' = [pending EXCEPT ![u] = pending'[u]]
    BY <2>1
  <2> QED
    BY <2>1, <2>2
<1>5. ASSUME NEW c \in Confirms, ConfirmComplete(c), Completable(c, confirm[c].user)
      PROVE  \E u \in DOMAIN pending, row \in Verification :
               /\ pending' = [pending EXCEPT ![u] = row]
               /\ row.code = pending[u].code /\ row.sent_at = pending[u].sent_at /\ ~pending[u].verified
               /\ UNCHANGED <<clock, is_active, issued>> /\ compared \subseteq compared'
  <2>1. PICK u \in DOMAIN pending :
           /\ pending' = [pending EXCEPT ![u] = [pending[u] EXCEPT !.verified = TRUE]]
           /\ pending'[u] \in Verification /\ ~pending[u].verified
           /\ pending'[u].code = pending[u].code
           /\ pending'[u].sent_at = pending[u].sent_at
           /\ UNCHANGED <<clock, is_active, send, signed_in, issued, compared>>
    BY <1>5, CompleteEffect
  <2>2. pending' = [pending EXCEPT ![u] = pending'[u]]
    BY <2>1
  <2> QED
    BY <2>1, <2>2
<1> QED
  BY <1>1, <1>2, <1>3, <1>4, <1>5, TablesChange

-----------------------------------------------------------------------------
(* The invariant is inductive                                               *)

LEMMA NextIssued ==
  ASSUME IInv, [Next]_vars
  PROVE  IssuedOnce' /\ LastIssued'
<1>0. /\ \A i, j \in issued : i.code = j.code => i = j
      /\ \A i \in issued : i.at <= clock /\ i.at \in Nat
      /\ clock \in Nat /\ clock' \in Nat /\ clock' >= clock
      /\ \A u \in DOMAIN pending :
           /\ pending[u].sent_at <= clock /\ pending[u].sent_at \in Nat
           /\ \E i \in issued : /\ i.code = pending[u].code /\ i.user = u
                                /\ \A j \in issued : j.user = u => j.at <= i.at
  BY RowsGrow, Rows, RowFields DEF IInv, IssuedOnce, LastIssued, TypeOK
<1>1. CASE UNCHANGED issued /\ DOMAIN pending' = DOMAIN pending /\ \A u \in DOMAIN pending : /\ pending'[u].code = pending[u].code
                                                                                           /\ pending'[u].sent_at = pending[u].sent_at
  <2>1. IssuedOnce'
    BY <1>0, <1>1 DEF IssuedOnce
  <2>2. LastIssued'
    BY <1>0, <1>1 DEF LastIssued
  <2> QED
    BY <2>1, <2>2
<1>2. ASSUME NEW r \in Sends, IssueStep(r)
      PROVE  IssuedOnce' /\ LastIssued'
  <2>0. PICK u \in Accounts : Issues(r, u)
    BY <1>2, IssueEffect
  <2>1. /\ DOMAIN pending' = DOMAIN pending \cup {u}
        /\ \A x \in DOMAIN pending : x # u => pending'[x] = pending[x]
        /\ pending'[u].code = r /\ pending'[u].sent_at = clock
        /\ issued' = issued \cup {[code |-> r, user |-> u, at |-> clock]} /\ \A i \in issued : i.code # r
        /\ UNCHANGED <<clock, confirm, signed_in, compared>>
    BY <2>0 DEF Issues
  <2>2. PICK e : e = [code |-> r, user |-> u, at |-> clock]
    OBVIOUS
  <2>3. e.code = r /\ e.user = u /\ e.at = clock /\ issued' = issued \cup {e}
    BY <2>1, <2>2
  <2>4. IssuedOnce'
    BY <1>0, <2>1, <2>3 DEF IssuedOnce
  <2>5. ASSUME NEW x \in DOMAIN pending'
        PROVE  /\ pending'[x].sent_at <= clock'
               /\ \E i \in issued' : /\ i.code = pending'[x].code /\ i.user = x
                                     /\ \A j \in issued' : j.user = x => j.at <= i.at
    <3>1. CASE x = u
      BY <1>0, <2>1, <2>3, <3>1
    <3>2. CASE x # u
      BY <1>0, <2>1, <2>3, <3>2
    <3> QED
      BY <3>1, <3>2
  <2> QED
    BY <2>4, <2>5 DEF LastIssued
<1>3. ASSUME NEW c \in Confirms, ConfirmAttempt(c), AttemptLeft(confirm[c].user)
      PROVE  UNCHANGED issued /\ DOMAIN pending' = DOMAIN pending /\ \A u \in DOMAIN pending :
               pending'[u].code = pending[u].code /\ pending'[u].sent_at = pending[u].sent_at
  BY <1>3, AttemptEffect
<1>4. ASSUME NEW c \in Confirms, ConfirmComplete(c), Completable(c, confirm[c].user)
      PROVE  UNCHANGED issued /\ DOMAIN pending' = DOMAIN pending /\ \A u \in DOMAIN pending :
               pending'[u].code = pending[u].code /\ pending'[u].sent_at = pending[u].sent_at
  BY <1>4, CompleteEffect
<1> QED
  BY <1>1, <1>2, <1>3, <1>4, TablesChange

\* What a request remembers stays true whatever the others do.
LEMMA Stable ==
  ASSUME IInv, [Next]_vars
  PROVE  /\ \A q \in SendState : SendGood(q) => SendGood(q)'
         /\ \A c \in Confirms, q \in ConfirmState : ConfirmGood(c, q) => ConfirmGood(c, q)'
<1>0. /\ DOMAIN pending \subseteq DOMAIN pending' /\ clock \in Nat /\ clock' \in Nat /\ clock' >= clock
      /\ issued \subseteq issued' /\ compared \subseteq compared' /\ CodeLife \in Nat /\ Resend \in Nat
      /\ \A u \in DOMAIN pending :
           /\ pending'[u].sent_at >= pending[u].sent_at /\ pending'[u].sent_at \in Nat /\ pending[u].sent_at \in Nat
           /\ pending'[u].code = pending[u].code \/ \A i \in issued : i.code # pending'[u].code
  BY RowsGrow, Rows, RowFields, VerificationAssumption DEF IInv, TypeOK
<1>1. ASSUME NEW q \in SendState, SendGood(q)
      PROVE  SendGood(q)'
  <2>1. q.sent_at \in Nat /\ q.expires_at \in Nat
    BY DEF SendState
  <2>2. q.phase \in {"read", "allowed", "restarting"} => q.sent_at <= pending'[q.user].sent_at
    BY <1>0, <1>1, <2>1 DEF SendGood
  <2>3. q.phase \in {"allowed", "restarting"} => clock' - q.sent_at >= Resend
    BY <1>0, <1>1, <2>1 DEF SendGood
  <2>4. q.phase \in {"registering", "restarting"} => q.expires_at <= clock' + CodeLife
    BY <1>0, <1>1, <2>1 DEF SendGood
  <2> QED
    BY <1>0, <1>1, <2>2, <2>3, <2>4 DEF SendGood
<1>2. ASSUME NEW c \in Confirms, NEW q \in ConfirmState, ConfirmGood(c, q)
      PROVE  ConfirmGood(c, q)'
  BY <1>0, <1>2 DEF ConfirmGood
<1> QED
  BY <1>1, <1>2

\* What a step does to the requests for a code: at most one of them moves.
LEMMA SendChange ==
  ASSUME IInv, [Next]_vars
  PROVE  \/ UNCHANGED send
         \/ \E r \in Sends, q \in SendState :
              /\ send' = [send EXCEPT ![r] = q] /\ SendGood(q)
              /\ q.phase # "done" => send[r].phase # "done" /\ UNCHANGED issued
<1>0. TypeOK /\ SendRemembers /\ clock \in Nat /\ DOMAIN pending = DOMAIN is_active /\ DOMAIN pending \subseteq Accounts
  BY Rows DEF IInv
<1>1. CASE UNCHANGED vars
  BY <1>1 DEF vars
<1>2. CASE Tick \/ \E u \in Accounts : Delete(u)
  BY <1>2 DEF Tick, Delete
<1>3. ASSUME NEW r \in Sends, FinishSend(r)
      PROVE  \E q \in SendState : /\ send' = [send EXCEPT ![r] = q] /\ SendGood(q)
                                  /\ q.phase # "done" => send[r].phase # "done" /\ UNCHANGED issued
  BY <1>3, SendDone DEF SendGood
<1>4. CASE Lost
  <2>1. UNCHANGED send \/ \E r \in Sends : FinishSend(r)
    BY <1>4 DEF Lost
  <2> QED
    BY <1>3, <2>1
<1>5. ASSUME NEW c \in Confirms, ConfirmStep(c)
      PROVE  UNCHANGED send
  BY <1>5 DEF ConfirmStep, ConfirmArrive, ConfirmRead, ConfirmAttempt, ConfirmComplete, ConfirmToken
<1>6. ASSUME NEW r \in Sends, SendStep(r), ~FinishSend(r)
      PROVE  \E q \in SendState : /\ send' = [send EXCEPT ![r] = q] /\ SendGood(q)
                                  /\ q.phase # "done" => send[r].phase # "done" /\ UNCHANGED issued
  <2>0. SendGood(send[r])
    BY <1>0 DEF SendRemembers
  <2>type. send[r] \in SendState
    BY <1>0, Rows
  <2>1. ASSUME NEW u \in Accounts, RegisterArrive(r, u)
        PROVE  \E q \in SendState : /\ send' = [send EXCEPT ![r] = q] /\ SendGood(q)
                                    /\ q.phase # "done" => send[r].phase # "done" /\ UNCHANGED issued
    <3>0. PICK t \in Nat : t = clock + CodeLife
      BY <1>0, VerificationAssumption
    <3>1. PICK q : q = [send[r] EXCEPT !.phase = "registering", !.user = u, !.expires_at = t]
      OBVIOUS
    <3>2. q \in SendState /\ q.phase = "registering" /\ q.user = u /\ q.expires_at = t
      BY <2>type, <3>1 DEF SendState
    <3>3. send' = [send EXCEPT ![r] = q] /\ send[r].phase = "idle" /\ UNCHANGED issued
      BY <2>1, <3>0, <3>1 DEF RegisterArrive, history
    <3>4. SendGood(q)
      BY <2>0, <3>0, <3>2 DEF SendGood
    <3> QED
      BY <3>2, <3>3, <3>4
  <2>2. ASSUME NEW u \in Accounts, ResendArrive(r, u)
        PROVE  \E q \in SendState : /\ send' = [send EXCEPT ![r] = q] /\ SendGood(q)
                                    /\ q.phase # "done" => send[r].phase # "done" /\ UNCHANGED issued
    <3>1. PICK q : q = [send[r] EXCEPT !.phase = "found", !.user = u]
      OBVIOUS
    <3>2. q \in SendState /\ q.phase = "found" /\ q.user = u
      BY <2>type, <3>1 DEF SendState
    <3>3. send' = [send EXCEPT ![r] = q] /\ send[r].phase = "idle" /\ UNCHANGED issued /\ u \in DOMAIN pending
      BY <1>0, <1>6, <2>2, <3>1 DEF ResendArrive, Found, history
    <3>4. SendGood(q)
      BY <3>2, <3>3 DEF SendGood
    <3> QED
      BY <3>2, <3>3, <3>4
  <2>3. CASE ResendRead(r)
    <3>0. PICK t \in Nat : t = pending[send[r].user].sent_at
      BY <1>0, <2>0, <2>3, Rows, RowFields DEF ResendRead, SendGood
    <3>1. PICK q : q = [send[r] EXCEPT !.phase = "read", !.sent_at = t]
      OBVIOUS
    <3>2. q \in SendState /\ q.phase = "read" /\ q.user = send[r].user /\ q.sent_at = t
      BY <2>type, <3>1 DEF SendState
    <3>3. send' = [send EXCEPT ![r] = q] /\ send[r].phase = "found" /\ UNCHANGED issued
      BY <1>6, <2>3, <3>0, <3>1 DEF ResendRead, history
    <3>4. SendGood(q)
      BY <2>0, <3>0, <3>2, <3>3 DEF SendGood
    <3> QED
      BY <3>2, <3>3, <3>4
  <2>4. CASE ResendThrottle(r)
    <3>1. PICK q : q = [send[r] EXCEPT !.phase = "allowed"]
      OBVIOUS
    <3>2. q \in SendState /\ q.phase = "allowed" /\ q.user = send[r].user /\ q.sent_at = send[r].sent_at
      BY <2>type, <3>1 DEF SendState
    <3>3. send' = [send EXCEPT ![r] = q] /\ send[r].phase = "read" /\ UNCHANGED issued
      BY <1>6, <2>4, <3>1 DEF ResendThrottle, history
    <3>4. ~(clock - send[r].sent_at < Resend)
      BY <1>6, <2>4 DEF ResendThrottle
    <3>5. clock - send[r].sent_at >= Resend
      BY <1>0, <2>type, <3>4, VerificationAssumption DEF SendState
    <3>6. SendGood(q)
      BY <2>0, <3>2, <3>3, <3>5 DEF SendGood
    <3> QED
      BY <3>2, <3>3, <3>6
  <2>5. CASE ResendReadClock(r)
    <3>0. PICK t \in Nat : t = clock + CodeLife
      BY <1>0, VerificationAssumption
    <3>1. PICK q : q = [send[r] EXCEPT !.phase = "restarting", !.expires_at = t]
      OBVIOUS
    <3>2. /\ q \in SendState /\ q.phase = "restarting" /\ q.user = send[r].user /\ q.sent_at = send[r].sent_at
          /\ q.expires_at = t
      BY <2>type, <3>1 DEF SendState
    <3>3. send' = [send EXCEPT ![r] = q] /\ send[r].phase = "allowed" /\ UNCHANGED issued
      BY <2>5, <3>0, <3>1 DEF ResendReadClock, history
    <3>4. SendGood(q)
      BY <2>0, <3>0, <3>2, <3>3 DEF SendGood
    <3> QED
      BY <3>2, <3>3, <3>4
  <2> QED
    BY <1>6, <2>1, <2>2, <2>3, <2>4, <2>5 DEF SendStep, RegisterCommit, RegisterConflict, RestartCommit, Issue
<1> QED
  BY <1>1, <1>2, <1>3, <1>4, <1>5, <1>6 DEF Next

LEMMA NextSends ==
  ASSUME IInv, [Next]_vars
  PROVE  SendRemembers' /\ (send \in [Sends -> SendState])'
<1>0. SendRemembers /\ send \in [Sends -> SendState]
  BY Rows DEF IInv
<1>1. \A q \in SendState : SendGood(q) => SendGood(q)'
  BY Stable
<1>2. issued' = issued \/ \E r \in Sends : /\ \A i \in issued' : i \in issued \/ i.code = r
                                           /\ FinishSend(r)
  <2>1. ASSUME NEW r \in Sends, IssueStep(r)
        PROVE  (\A i \in issued' : i \in issued \/ i.code = r) /\ FinishSend(r)
    <3>1. PICK u \in Accounts : Issues(r, u)
      BY <2>1, IssueEffect
    <3> QED
      BY <3>1 DEF Issues
  <2>2. ASSUME NEW c \in Confirms, ConfirmAttempt(c), AttemptLeft(confirm[c].user)
        PROVE  issued' = issued
    BY <2>2, AttemptEffect
  <2>3. ASSUME NEW c \in Confirms, ConfirmComplete(c), Completable(c, confirm[c].user)
        PROVE  issued' = issued
    BY <2>3, CompleteEffect
  <2> QED
    BY <2>1, <2>2, <2>3, TablesChange
<1>3. ASSUME NEW r \in Sends, FinishSend(r)
      PROVE  send'[r].phase = "done"
  BY <1>0, <1>3, SendDone
<1>4. ASSUME NEW r \in Sends
      PROVE  (SendGood(send[r]))' /\ send'[r] \in SendState /\ (send'[r].phase # "done" => send[r].phase # "done")
  <2>1. CASE UNCHANGED send
    <3>1. PICK q \in SendState : q = send[r] /\ q = send'[r]
      BY <1>0, <2>1
    <3>2. SendGood(q)'
      BY <1>0, <1>1, <3>1 DEF SendRemembers
    <3> QED
      BY <2>1, <3>1, <3>2
  <2>2. ASSUME NEW x \in Sends, NEW q \in SendState, send' = [send EXCEPT ![x] = q], SendGood(q),
               q.phase # "done" => send[x].phase # "done" /\ UNCHANGED issued
        PROVE  (SendGood(send[r]))' /\ send'[r] \in SendState /\ (send'[r].phase # "done" => send[r].phase # "done")
    <3>1. CASE r = x
      <4>1. send'[r] = q
        BY <1>0, <2>2, <3>1
      <4>2. SendGood(q)'
        BY <1>1, <2>2
      <4> QED
        BY <2>2, <3>1, <4>1, <4>2
    <3>2. CASE r # x
      <4>1. PICK p \in SendState : p = send[r] /\ p = send'[r]
        BY <1>0, <2>2, <3>2
      <4>2. SendGood(p)'
        BY <1>0, <1>1, <4>1 DEF SendRemembers
      <4> QED
        BY <4>1, <4>2
    <3> QED
      BY <3>1, <3>2
  <2> QED
    BY <2>1, <2>2, SendChange
<1>5. ASSUME NEW r \in Sends, send'[r].phase # "done", NEW i \in issued'
      PROVE  i.code # r
  <2>1. send[r].phase # "done"
    BY <1>4, <1>5
  <2>2. i \in issued \/ i.code # r
    BY <1>2, <1>3, <1>5
  <2> QED
    BY <1>0, <2>1, <2>2 DEF SendRemembers
<1>6. SendRemembers'
  BY <1>4, <1>5 DEF SendRemembers
<1>7. (send \in [Sends -> SendState])'
  <2>1. UNCHANGED send \/ \E r \in Sends, q \in SendState : send' = [send EXCEPT ![r] = q]
    BY SendChange
  <2> QED
    BY <1>0, <2>1
<1> QED
  BY <1>6, <1>7

\* What a step does to the confirmations: at most one of them moves; one that verifies its account is the only one to.
LEMMA ConfirmChange ==
  ASSUME IInv, [Next]_vars
  PROVE  \/ UNCHANGED <<confirm, signed_in>>
         \/ \E c \in Confirms, q \in ConfirmState :
              /\ confirm' = [confirm EXCEPT ![c] = q] /\ (ConfirmGood(c, q) \/ ConfirmGood(c, q)')
              /\ \/ signed_in' = signed_in /\ q.phase # "verified"
                 \/ /\ \E v \in {NULL, confirm[c].user} : signed_in' = [signed_in EXCEPT ![c] = v]
                    /\ confirm[c].phase = "verified" /\ q.phase = "done"
                 \/ /\ signed_in' = signed_in /\ q.user = confirm[c].user
                    /\ ConfirmComplete(c) /\ Completable(c, confirm[c].user)
<1>0. TypeOK /\ ConfirmRemembers /\ DOMAIN pending = DOMAIN is_active /\ DOMAIN pending \subseteq Accounts
  BY Rows DEF IInv
<1>1. CASE UNCHANGED vars
  BY <1>1 DEF vars
<1>2. CASE Tick \/ \E u \in Accounts : Delete(u)
  BY <1>2 DEF Tick, Delete
<1>3. ASSUME NEW c \in Confirms, FinishConfirm(c)
      PROVE  \E q \in ConfirmState : /\ confirm' = [confirm EXCEPT ![c] = q] /\ ConfirmGood(c, q)
                                     /\ q.phase = "done"
  BY <1>3, ConfirmDone DEF ConfirmGood
<1>4. CASE Lost
  <2>1. UNCHANGED signed_in /\ (UNCHANGED confirm \/ \E c \in Confirms : FinishConfirm(c))
    BY <1>4 DEF Lost
  <2> QED
    BY <1>3, <2>1
<1>5. ASSUME NEW r \in Sends, SendStep(r)
      PROVE  UNCHANGED <<confirm, signed_in>>
  BY <1>5 DEF SendStep, RegisterArrive, ResendArrive, RegisterCommit, RegisterConflict, ResendRead, ResendThrottle,
              ResendReadClock, RestartCommit
<1>6. ASSUME NEW c \in Confirms, ConfirmToken(c)
      PROVE  \E q \in ConfirmState :
               /\ confirm' = [confirm EXCEPT ![c] = q] /\ ConfirmGood(c, q)
               /\ \E v \in {NULL, confirm[c].user} : signed_in' = [signed_in EXCEPT ![c] = v]
               /\ confirm[c].phase = "verified" /\ q.phase = "done"
  <2>1. FinishConfirm(c) /\ confirm[c].phase = "verified"
    BY <1>6 DEF ConfirmToken
  <2>2. \E v \in {NULL, confirm[c].user} : signed_in' = [signed_in EXCEPT ![c] = v]
    BY <1>6 DEF ConfirmToken
  <2> QED
    BY <1>3, <2>1, <2>2
<1>7. ASSUME NEW c \in Confirms, ConfirmStep(c), ~FinishConfirm(c)
      PROVE  \E q \in ConfirmState :
               /\ confirm' = [confirm EXCEPT ![c] = q] /\ (ConfirmGood(c, q) \/ ConfirmGood(c, q)')
               /\ \/ signed_in' = signed_in /\ q.phase # "verified"
                  \/ /\ signed_in' = signed_in /\ q.user = confirm[c].user
                     /\ ConfirmComplete(c) /\ Completable(c, confirm[c].user)
  <2>0. ConfirmGood(c, confirm[c])
    BY <1>0 DEF ConfirmRemembers
  <2>type. confirm[c] \in ConfirmState
    BY <1>0, Rows
  <2>1. ASSUME NEW u \in Accounts, NEW typed \in {i.code : i \in issued} \cup {NULL}, ConfirmArrive(c, u, typed)
        PROVE  \E q \in ConfirmState : /\ confirm' = [confirm EXCEPT ![c] = q] /\ ConfirmGood(c, q)
                                       /\ signed_in' = signed_in /\ q.phase # "verified"
    <3>1. PICK q : q = [confirm[c] EXCEPT !.phase = "found", !.user = u, !.typed = typed]
      OBVIOUS
    <3>2. typed \in Sends \cup {NULL}
      BY <1>0 DEF TypeOK
    <3>3. q \in ConfirmState /\ q.phase = "found" /\ q.user = u
      BY <2>type, <3>1, <3>2 DEF ConfirmState
    <3>4. confirm' = [confirm EXCEPT ![c] = q] /\ u \in DOMAIN pending /\ signed_in' = signed_in
      BY <1>0, <1>7, <2>1, <3>1 DEF ConfirmArrive, Found
    <3>5. ConfirmGood(c, q)
      BY <3>3, <3>4 DEF ConfirmGood
    <3> QED
      BY <3>3, <3>4, <3>5
  <2>2. CASE ConfirmRead(c)
    <3>0. PICK u \in DOMAIN pending : u = confirm[c].user
      BY <2>0, <2>2 DEF ConfirmRead, ConfirmGood
    <3>1. PICK k \in Sends : k = pending[u].code /\ \E i \in issued : i.code = k
      BY <1>0, <3>0, Rows, RowFields DEF IInv, LastIssued
    <3>2. PICK q : q = [confirm[c] EXCEPT !.phase = "read", !.code = k]
      OBVIOUS
    <3>3. q \in ConfirmState /\ q.phase = "read" /\ q.user = confirm[c].user /\ q.code = k
      BY <2>type, <3>2 DEF ConfirmState
    <3>4. confirm' = [confirm EXCEPT ![c] = q] /\ signed_in' = signed_in
      BY <1>7, <2>2, <3>0, <3>1, <3>2 DEF ConfirmRead
    <3>5. ConfirmGood(c, q)
      BY <3>0, <3>1, <3>3 DEF ConfirmGood
    <3> QED
      BY <3>3, <3>4, <3>5
  <2>3. CASE ConfirmAttempt(c)
    <3>0. /\ AttemptLeft(confirm[c].user) /\ (AcceptAny \/ confirm[c].typed = confirm[c].code)
          /\ confirm' = [confirm EXCEPT ![c] = [confirm[c] EXCEPT !.phase = "matched"]]
      BY <1>7, <2>3 DEF ConfirmAttempt
    <3>1. PICK u \in DOMAIN pending :
            /\ u = confirm[c].user /\ confirm[c].phase = "read"
            /\ DOMAIN pending' = DOMAIN pending /\ pending'[u].code = pending[u].code
            /\ compared' = compared \cup {[by |-> c, code |-> confirm[c].code, counted |-> pending[u].code]}
            /\ UNCHANGED <<clock, is_active, send, signed_in, issued>>
      BY <2>3, <3>0, AttemptEffect
    <3>2. PICK q : q = [confirm[c] EXCEPT !.phase = "matched"]
      OBVIOUS
    <3>3. /\ q \in ConfirmState /\ q.phase = "matched" /\ q.user = confirm[c].user
          /\ q.typed = confirm[c].typed /\ q.code = confirm[c].code
      BY <2>type, <3>2 DEF ConfirmState
    <3>4. confirm' = [confirm EXCEPT ![c] = q] /\ signed_in' = signed_in
      BY <3>0, <3>1, <3>2
    <3>5. \E i \in issued' : i.code = q.code
      BY <2>0, <3>1, <3>3 DEF ConfirmGood
    <3>6. pending'[q.user].code = q.code => [by |-> c, code |-> q.code, counted |-> q.code] \in compared'
      BY <3>1, <3>3
    <3>7. ConfirmGood(c, q)'
      BY <3>0, <3>1, <3>3, <3>5, <3>6 DEF ConfirmGood
    <3> QED
      BY <3>3, <3>4, <3>7
  <2>4. CASE ConfirmComplete(c)
    <3>0. Completable(c, confirm[c].user)
      BY <1>7, <2>4 DEF ConfirmComplete
    <3>1. PICK u \in DOMAIN pending :
            /\ u = confirm[c].user
            /\ confirm' = [confirm EXCEPT ![c] = [confirm[c] EXCEPT !.phase = "verified"]]
            /\ UNCHANGED <<clock, is_active, send, signed_in, issued, compared>>
      BY <2>4, <3>0, CompleteEffect
    <3>2. PICK q : q = [confirm[c] EXCEPT !.phase = "verified"]
      OBVIOUS
    <3>3. q \in ConfirmState /\ q.phase = "verified" /\ q.user = confirm[c].user
      BY <2>type, <3>2 DEF ConfirmState
    <3>4. ConfirmGood(c, q)
      BY <3>1, <3>3 DEF ConfirmGood
    <3> QED
      BY <2>4, <3>0, <3>1, <3>2, <3>3, <3>4
  <2> QED
    BY <1>7, <2>1, <2>2, <2>3, <2>4 DEF ConfirmStep, ConfirmToken
<1>8. ASSUME NEW c \in Confirms, ConfirmStep(c), FinishConfirm(c), ~ConfirmToken(c)
      PROVE  signed_in' = signed_in
  BY <1>8 DEF ConfirmStep, ConfirmArrive, ConfirmRead, ConfirmAttempt, ConfirmComplete
<1>9. ASSUME NEW c \in Confirms, ConfirmStep(c)
      PROVE  \E q \in ConfirmState :
               /\ confirm' = [confirm EXCEPT ![c] = q] /\ (ConfirmGood(c, q) \/ ConfirmGood(c, q)')
               /\ \/ signed_in' = signed_in /\ q.phase # "verified"
                  \/ /\ \E v \in {NULL, confirm[c].user} : signed_in' = [signed_in EXCEPT ![c] = v]
                     /\ confirm[c].phase = "verified" /\ q.phase = "done"
                  \/ /\ signed_in' = signed_in /\ q.user = confirm[c].user
                     /\ ConfirmComplete(c) /\ Completable(c, confirm[c].user)
  <2>1. CASE ConfirmToken(c)
    BY <1>6, <2>1
  <2>2. CASE ~FinishConfirm(c)
    BY <1>7, <1>9, <2>2
  <2>3. CASE FinishConfirm(c) /\ ~ConfirmToken(c)
    BY <1>3, <1>8, <1>9, <2>3
  <2> QED
    BY <2>1, <2>2, <2>3
<1> QED
  BY <1>1, <1>2, <1>4, <1>5, <1>9 DEF Next

LEMMA NextConfirms ==
  ASSUME IInv, [Next]_vars
  PROVE  ConfirmRemembers' /\ (confirm \in [Confirms -> ConfirmState])'
<1>0. ConfirmRemembers /\ confirm \in [Confirms -> ConfirmState]
  BY Rows DEF IInv
<1>1. \A c \in Confirms, q \in ConfirmState : ConfirmGood(c, q) => ConfirmGood(c, q)'
  BY Stable
<1>2. UNCHANGED confirm
      \/ \E c \in Confirms, q \in ConfirmState :
           confirm' = [confirm EXCEPT ![c] = q] /\ (ConfirmGood(c, q) \/ ConfirmGood(c, q)')
  BY ConfirmChange
<1>3. ASSUME NEW d \in Confirms
      PROVE  (ConfirmGood(d, confirm[d]))'
  <2>1. CASE UNCHANGED confirm
    <3>1. PICK q \in ConfirmState : q = confirm[d] /\ q = confirm'[d]
      BY <1>0, <2>1
    <3>2. ConfirmGood(d, q)'
      BY <1>0, <1>1, <3>1 DEF ConfirmRemembers
    <3> QED
      BY <3>1, <3>2
  <2>2. ASSUME NEW c \in Confirms, NEW q \in ConfirmState, confirm' = [confirm EXCEPT ![c] = q],
               ConfirmGood(c, q) \/ ConfirmGood(c, q)'
        PROVE  (ConfirmGood(d, confirm[d]))'
    <3>1. CASE d = c
      <4>1. confirm'[d] = q
        BY <1>0, <2>2, <3>1
      <4>2. ConfirmGood(c, q)'
        BY <1>1, <2>2
      <4> QED
        BY <3>1, <4>1, <4>2
    <3>2. CASE d # c
      <4>1. PICK p \in ConfirmState : p = confirm[d] /\ p = confirm'[d]
        BY <1>0, <2>2, <3>2
      <4>2. ConfirmGood(d, p)'
        BY <1>0, <1>1, <4>1 DEF ConfirmRemembers
      <4> QED
        BY <4>1, <4>2
    <3> QED
      BY <3>1, <3>2
  <2> QED
    BY <1>2, <2>1, <2>2
<1>4. ConfirmRemembers'
  BY <1>3 DEF ConfirmRemembers
<1>5. (confirm \in [Confirms -> ConfirmState])'
  BY <1>0, <1>2
<1> QED
  BY <1>4, <1>5

LEMMA NextWinner ==
  ASSUME IInv, [Next]_vars
  PROVE  OneWinner' /\ signed_in' \in [Confirms -> Accounts \cup {NULL}]
<1>0. /\ confirm \in [Confirms -> ConfirmState] /\ signed_in \in [Confirms -> Accounts \cup {NULL}]
      /\ NULL \notin Accounts
  BY Rows, VerificationAssumption DEF IInv, TypeOK
<1>1. \A u \in DOMAIN pending : pending[u].verified => u \in DOMAIN pending' /\ pending'[u].verified
  BY RowsGrow
<1>2. \A u \in Accounts, c \in Confirms :
        Winner(c, u) => u \in DOMAIN pending /\ pending[u].verified /\ \A d \in Confirms : Winner(d, u) => d = c
  BY DEF IInv, OneWinner
<1>3. ASSUME \A u \in Accounts, c \in Confirms : Winner(c, u)' => Winner(c, u)
      PROVE  OneWinner'
  BY <1>1, <1>2, <1>3 DEF OneWinner
<1>4. ASSUME NEW c \in Confirms, NEW q \in ConfirmState, confirm' = [confirm EXCEPT ![c] = q],
             signed_in' = signed_in, q.phase # "verified"
      PROVE  \A u \in Accounts, d \in Confirms : Winner(d, u)' => Winner(d, u)
  BY <1>0, <1>4 DEF Winner
<1>5. ASSUME NEW c \in Confirms, NEW q \in ConfirmState, confirm' = [confirm EXCEPT ![c] = q],
             NEW v \in {NULL, confirm[c].user}, signed_in' = [signed_in EXCEPT ![c] = v],
             confirm[c].phase = "verified", q.phase = "done"
      PROVE  \A u \in Accounts, d \in Confirms : Winner(d, u)' => Winner(d, u)
  <2> SUFFICES ASSUME NEW u \in Accounts, NEW d \in Confirms, Winner(d, u)' PROVE Winner(d, u)
    OBVIOUS
  <2>1. CASE d = c
    BY <1>0, <1>5, <2>1 DEF Winner
  <2>2. CASE d # c
    BY <1>0, <1>5, <2>2 DEF Winner
  <2> QED
    BY <2>1, <2>2
<1>6. ASSUME NEW c \in Confirms, NEW q \in ConfirmState, confirm' = [confirm EXCEPT ![c] = q],
             signed_in' = signed_in, q.user = confirm[c].user,
             ConfirmComplete(c), Completable(c, confirm[c].user)
      PROVE  OneWinner'
  <2>1. PICK u \in DOMAIN pending : /\ u = confirm[c].user /\ ~pending[u].verified
                                    /\ DOMAIN pending' = DOMAIN pending /\ pending'[u].verified
    BY <1>6, CompleteEffect
  <2>2. \A d \in Confirms : u \in Accounts => ~Winner(d, u)
    BY <1>2, <2>1
  <2>3. \A x \in Accounts, d \in Confirms : Winner(d, x)' => Winner(d, x) \/ (d = c /\ x = u)
    BY <1>0, <1>6, <2>1 DEF Winner
  <2> QED
    BY <1>1, <1>2, <2>1, <2>2, <2>3 DEF OneWinner
<1>7. ASSUME UNCHANGED <<confirm, signed_in>>
      PROVE  OneWinner'
  BY <1>3, <1>7 DEF Winner
<1>8. OneWinner'
  BY <1>3, <1>4, <1>5, <1>6, <1>7, ConfirmChange
<1>9. signed_in' \in [Confirms -> Accounts \cup {NULL}]
  <2>1. UNCHANGED signed_in \/ \E c \in Confirms : /\ \E v \in {NULL, confirm[c].user} : signed_in' = [signed_in EXCEPT ![c] = v]
                                                   /\ confirm[c].user \in Accounts \cup {NULL}
    BY <1>0, ConfirmChange DEF ConfirmState
  <2> QED
    BY <1>0, <2>1
<1> QED
  BY <1>8, <1>9

LEMMA NextCounted ==
  ASSUME IInv, [Next]_vars
  PROVE  Counted'
<1>0. /\ DOMAIN pending \subseteq Accounts
      /\ \A u \in DOMAIN pending : /\ pending[u].attempts \in Nat /\ pending[u].attempts <= MaxAttempts
                                   /\ pending[u].code \in Sends
      /\ \A u, x \in DOMAIN pending : pending[u].code = pending[x].code => u = x
      /\ \A u \in DOMAIN pending : \E i \in issued : i.code = pending[u].code
      /\ MaxAttempts \in Nat /\ issued \subseteq issued'
  BY Rows, RowFields, RowsGrow, VerificationAssumption DEF IInv, IssuedOnce, LastIssued
<1>1. /\ IsFiniteSet(compared) /\ \A x \in compared : \E i \in issued : i.code = x.counted
      /\ \A k \in Sends : Cardinality({x \in compared : x.counted = k}) <= MaxAttempts
      /\ \A u \in DOMAIN pending : Cardinality({x \in compared : x.counted = pending[u].code}) <= pending[u].attempts
  BY DEF IInv, Counted
<1>2. \A k : IsFiniteSet({x \in compared : x.counted = k}) /\ Cardinality({x \in compared : x.counted = k}) \in Nat
  <2> TAKE k
  <2>1. {x \in compared : x.counted = k} \subseteq compared
    OBVIOUS
  <2> QED
    BY <1>1, <2>1, FS_Subset, FS_CardinalityType
<1>3. CASE UNCHANGED <<pending, issued, compared>>
  BY <1>1, <1>3 DEF Counted
<1>4. ASSUME NEW r \in Sends, IssueStep(r)
      PROVE  Counted'
  <2>1. PICK u \in Accounts : Issues(r, u)
    BY <1>4, IssueEffect
  <2>2. /\ DOMAIN pending' = DOMAIN pending \cup {u} /\ \A x \in DOMAIN pending : x # u => pending'[x] = pending[x]
        /\ pending'[u].code = r /\ pending'[u].attempts = 0 /\ compared' = compared /\ \A i \in issued : i.code # r
    BY <2>1 DEF Issues
  <2>3. {x \in compared' : x.counted = r} = {}
    BY <1>1, <2>2
  <2>4. Cardinality({x \in compared' : x.counted = pending'[u].code}) <= pending'[u].attempts
    <3>1. Cardinality({x \in compared' : x.counted = r}) = 0
      BY <2>3, FS_EmptySet
    <3> QED
      BY <2>2, <3>1
  <2>5. ASSUME NEW y \in DOMAIN pending', y # u
        PROVE  Cardinality({x \in compared' : x.counted = pending'[y].code}) <= pending'[y].attempts
    BY <1>1, <2>2, <2>5
  <2>6. \A k \in Sends : Cardinality({x \in compared' : x.counted = k}) <= MaxAttempts
    BY <1>1, <2>2
  <2>7. IsFiniteSet(compared') /\ \A x \in compared' : \E i \in issued' : i.code = x.counted
    BY <1>0, <1>1, <2>2
  <2> QED
    BY <2>4, <2>5, <2>6, <2>7 DEF Counted
<1>5. ASSUME NEW c \in Confirms, ConfirmAttempt(c), AttemptLeft(confirm[c].user)
      PROVE  Counted'
  <2>1. PICK u \in DOMAIN pending :
          /\ pending[u].attempts < MaxAttempts
          /\ DOMAIN pending' = DOMAIN pending /\ \A x \in DOMAIN pending : x # u => pending'[x] = pending[x]
          /\ pending'[u].attempts = pending[u].attempts + 1 /\ pending'[u].code = pending[u].code
          /\ compared' = compared \cup {[by |-> c, code |-> confirm[c].code, counted |-> pending[u].code]}
    BY <1>5, AttemptEffect
  <2>2. PICK e : e = [by |-> c, code |-> confirm[c].code, counted |-> pending[u].code]
    OBVIOUS
  <2>3. compared' = compared \cup {e} /\ e.counted = pending[u].code
    BY <2>1, <2>2
  <2>4. PICK S : S = {x \in compared : x.counted = pending[u].code}
    OBVIOUS
  <2>5. {x \in compared' : x.counted = pending[u].code} = S \cup {e}
    BY <2>3, <2>4
  <2>6. /\ IsFiniteSet(compared') /\ IsFiniteSet(S)
        /\ Cardinality(S) \in Nat /\ Cardinality(S) <= pending[u].attempts
    <3>1. IsFiniteSet(compared')
      BY <1>1, <2>3, FS_AddElement
    <3>2. IsFiniteSet(S) /\ Cardinality(S) \in Nat
      BY <1>2, <2>4
    <3>3. Cardinality({x \in compared : x.counted = pending[u].code}) <= pending[u].attempts
      BY <1>1
    <3> QED
      BY <2>4, <3>1, <3>2, <3>3
  <2>7. Cardinality(S \cup {e}) = IF e \in S THEN Cardinality(S) ELSE Cardinality(S) + 1
    BY <2>6, FS_AddElement
  <2>8. PICK n \in Nat : n = Cardinality({x \in compared' : x.counted = pending[u].code}) /\ n <= pending[u].attempts + 1
    <3>1. PICK n \in Nat : n = Cardinality(S \cup {e}) /\ n <= pending[u].attempts + 1
      BY <1>0, <2>6, <2>7
    <3>2. n = Cardinality({x \in compared' : x.counted = pending[u].code})
      BY <2>5, <3>1
    <3> QED
      BY <3>1, <3>2
  <2>9. ASSUME NEW y \in DOMAIN pending'
        PROVE  Cardinality({x \in compared' : x.counted = pending'[y].code}) <= pending'[y].attempts
    <3>1. CASE y = u
      <4>1. n <= pending'[u].attempts
        BY <1>0, <2>1, <2>8
      <4> QED
        BY <2>1, <2>8, <3>1, <4>1
    <3>2. CASE y # u
      <4>1. pending'[y] = pending[y] /\ y \in DOMAIN pending /\ pending[y].code # pending[u].code
        BY <1>0, <2>1, <3>2
      <4>2. {x \in compared' : x.counted = pending[y].code} = {x \in compared : x.counted = pending[y].code}
        BY <2>3, <4>1
      <4> QED
        BY <1>1, <4>1, <4>2
    <3> QED
      BY <3>1, <3>2
  <2>10. ASSUME NEW k \in Sends
         PROVE  Cardinality({x \in compared' : x.counted = k}) <= MaxAttempts
    <3>1. CASE k = pending[u].code
      <4>1. n <= MaxAttempts
        BY <1>0, <2>1, <2>8
      <4> QED
        BY <2>8, <3>1, <4>1
    <3>2. CASE k # pending[u].code
      <4>1. {x \in compared' : x.counted = k} = {x \in compared : x.counted = k}
        BY <2>3, <3>2
      <4> QED
        BY <1>1, <4>1
    <3> QED
      BY <3>1, <3>2
  <2>11. \A x \in compared' : \E i \in issued' : i.code = x.counted
    BY <1>0, <1>1, <2>3
  <2> QED
    BY <2>6, <2>9, <2>10, <2>11 DEF Counted
<1>6. ASSUME NEW c \in Confirms, ConfirmComplete(c), Completable(c, confirm[c].user)
      PROVE  Counted'
  <2>1. /\ UNCHANGED <<compared, issued>> /\ DOMAIN pending' = DOMAIN pending
        /\ \A u \in DOMAIN pending : pending'[u].code = pending[u].code /\ pending'[u].attempts = pending[u].attempts
    BY <1>6, CompleteEffect
  <2>2. \A k \in Sends : Cardinality({x \in compared' : x.counted = k}) <= MaxAttempts
    BY <1>1, <2>1
  <2>3. ASSUME NEW u \in DOMAIN pending'
        PROVE  Cardinality({x \in compared' : x.counted = pending'[u].code}) <= pending'[u].attempts
    BY <1>1, <2>1
  <2> QED
    BY <1>1, <2>1, <2>2, <2>3 DEF Counted
<1> QED
  BY <1>3, <1>4, <1>5, <1>6, TablesChange

LEMMA NextTypes ==
  ASSUME IInv, [Next]_vars
  PROVE  TypeOK'
<1>0. TypeOK
  BY DEF IInv
<1>1. clock' \in Nat /\ DOMAIN is_active' \subseteq Accounts /\ pending' \in [DOMAIN is_active' -> Verification]
  BY RowsGrow
<1>2. is_active' \in [DOMAIN is_active' -> BOOLEAN]
  <2>1. CASE UNCHANGED is_active
    BY <1>0, <2>1 DEF TypeOK
  <2>2. ASSUME NEW r \in Sends, RegisterCommit(r)
        PROVE  is_active' \in [DOMAIN is_active' -> BOOLEAN]
    BY <1>0, <2>2 DEF TypeOK, RegisterCommit
  <2>3. ASSUME NEW u \in Accounts, Delete(u)
        PROVE  is_active' \in [DOMAIN is_active' -> BOOLEAN]
    BY <1>0, <2>3 DEF TypeOK, Delete, Found
  <2>4. ASSUME NEW r \in Sends, SendStep(r), ~RegisterCommit(r)
        PROVE  UNCHANGED is_active
    BY <2>4 DEF SendStep, RegisterArrive, ResendArrive, RegisterConflict, ResendRead, ResendThrottle,
                ResendReadClock, RestartCommit
  <2>5. ASSUME NEW c \in Confirms, ConfirmStep(c)
        PROVE  UNCHANGED is_active
    BY <2>5 DEF ConfirmStep, ConfirmArrive, ConfirmRead, ConfirmAttempt, ConfirmComplete, ConfirmToken
  <2>6. CASE Tick \/ Lost \/ UNCHANGED vars
    BY <2>1, <2>6 DEF Tick, Lost, vars
  <2> QED
    BY <2>1, <2>2, <2>3, <2>4, <2>5, <2>6 DEF Next
<1>3. send' \in [Sends -> SendState]
  BY NextSends
<1>4. confirm' \in [Confirms -> ConfirmState]
  BY NextConfirms
<1>5. signed_in' \in [Confirms -> Accounts \cup {NULL}]
  BY NextWinner
<1>6. issued' \subseteq [code : Sends, user : Accounts, at : Nat]
  <2>1. ASSUME NEW r \in Sends, IssueStep(r)
        PROVE  issued' \subseteq [code : Sends, user : Accounts, at : Nat]
    <3>1. PICK u \in Accounts : Issues(r, u)
      BY <2>1, IssueEffect
    <3> QED
      BY <1>0, <3>1 DEF Issues, TypeOK
  <2>2. UNCHANGED issued \/ \E r \in Sends : IssueStep(r)
    BY TablesChange, AttemptEffect, CompleteEffect
  <2> QED
    BY <1>0, <2>1, <2>2 DEF TypeOK
<1>7. compared' \subseteq [by : Confirms, code : Sends, counted : Sends]
  <2>1. ASSUME NEW c \in Confirms, ConfirmAttempt(c), AttemptLeft(confirm[c].user)
        PROVE  compared' \subseteq [by : Confirms, code : Sends, counted : Sends]
    <3>1. PICK u \in DOMAIN pending :
            /\ confirm[c].phase = "read"
            /\ compared' = compared \cup {[by |-> c, code |-> confirm[c].code, counted |-> pending[u].code]}
      BY <2>1, AttemptEffect
    <3>2. pending[u].code \in Sends
      BY <1>0, Rows, RowFields
    <3>3. \E i \in issued : i.code = confirm[c].code
      BY <3>1 DEF IInv, ConfirmRemembers, ConfirmGood
    <3>4. confirm[c].code \in Sends
      BY <1>0, <3>3 DEF TypeOK
    <3> QED
      BY <1>0, <3>1, <3>2, <3>4 DEF TypeOK
  <2>2. ASSUME NEW r \in Sends, IssueStep(r)
        PROVE  UNCHANGED compared
    BY <2>2, IssueEffect DEF Issues
  <2>3. UNCHANGED compared \/ \E c \in Confirms : ConfirmAttempt(c) /\ AttemptLeft(confirm[c].user)
    BY <2>2, TablesChange, CompleteEffect
  <2> QED
    BY <1>0, <2>1, <2>3 DEF TypeOK
<1> QED
  BY <1>1, <1>2, <1>3, <1>4, <1>5, <1>6, <1>7 DEF TypeOK, SendState, ConfirmState

-----------------------------------------------------------------------------
(* Theorems                                                                 *)

\* The invariant holds in every state: what each request remembers between two transactions stays true.
THEOREM Inductive == Spec => []IInv
<1>1. ASSUME IInv, [Next]_vars
      PROVE  IInv'
  <2>0. IInv /\ [Next]_vars
    BY <1>1
  <2>1. TypeOK'
    BY <2>0, NextTypes
  <2>2. IssuedOnce' /\ LastIssued'
    BY <2>0, NextIssued
  <2>3. SendRemembers'
    BY <2>0, NextSends
  <2>4. ConfirmRemembers'
    BY <2>0, NextConfirms
  <2>5. Counted'
    BY <2>0, NextCounted
  <2>6. OneWinner'
    BY <2>0, NextWinner
  <2> QED
    BY <2>1, <2>2, <2>3, <2>4, <2>5, <2>6 DEF IInv
<1> QED
  BY <1>1, InitIInv, PTL DEF Spec

\* Every account, row and request has its type; every account has one row, and no row counts more than the limit.
THEOREM Types == Spec => []TypeOK
<1>1. IInv => TypeOK
  BY DEF IInv
<1> QED
  BY <1>1, Inductive, PTL

\* However many confirmations race with each other and with new codes, no more guesses are made on the attempts of
\* a code than the limit.
THEOREM GuessesCounted == Spec => []GuessesLimited
<1>1. IInv => GuessesLimited
  BY DEF IInv, Counted, GuessesLimited
<1> QED
  BY <1>1, Inductive, PTL

\* Of the confirmations of an account, however many matched the code, one gets a token.
THEOREM OneToken == Spec => []OneSignIn
<1>1. ASSUME IInv
      PROVE  OneSignIn
  <2>1. OneWinner /\ signed_in \in [Confirms -> Accounts \cup {NULL}]
    BY <1>1 DEF IInv, TypeOK
  <2> QED
    BY <2>1 DEF OneWinner, Winner, OneSignIn
<1> QED
  BY <1>1, Inductive, PTL

\* An account is verified by the last code that was sent to it, alive by then, and by a guess counted on that code.
THEOREM ByLastCode == Spec => VerifiedByLastCode
<1>1. ASSUME IInv, [Next]_vars
      PROVE  [VerifiedStep]_vars
  <2>0. IInv /\ [Next]_vars
    BY <1>1
  <2> SUFFICES ASSUME NEW u \in DOMAIN pending, ~pending[u].verified, pending'[u].verified
               PROVE  LET k == pending[u].code
                      IN /\ pending[u].expires_at > clock
                         /\ \E i \in issued : i.code = k /\ i.user = u /\ \A j \in issued : j.user = u => j.at <= i.at
                         /\ \E c \in Confirms : /\ confirm[c].phase = "matched" /\ confirm[c].user = u
                                                /\ (AcceptAny \/ confirm[c].typed = k)
                                                /\ [by |-> c, code |-> k, counted |-> k] \in compared
    BY DEF VerifiedStep
  <2>1. ASSUME NEW r \in Sends, IssueStep(r)
        PROVE  FALSE
    <3>1. PICK v \in Accounts : Issues(r, v)
      BY <2>0, <2>1, IssueEffect
    <3>2. CASE u = v
      BY <3>1, <3>2 DEF Issues
    <3>3. CASE u # v
      BY <3>1, <3>3 DEF Issues
    <3> QED
      BY <3>2, <3>3
  <2>2. ASSUME NEW c \in Confirms, ConfirmAttempt(c), AttemptLeft(confirm[c].user)
        PROVE  FALSE
    BY <2>0, <2>2, AttemptEffect
  <2>3. PICK c \in Confirms : ConfirmComplete(c) /\ Completable(c, confirm[c].user)
    BY <2>0, <2>1, <2>2, TablesChange
  <2>4. /\ u = confirm[c].user /\ confirm[c].phase = "matched"
        /\ pending[u].code = confirm[c].code /\ pending[u].expires_at > clock
    BY <2>0, <2>3, CompleteEffect
  <2>5. ConfirmGood(c, confirm[c])
    BY <2>0 DEF IInv, ConfirmRemembers
  <2>6. /\ AcceptAny \/ confirm[c].typed = pending[u].code
        /\ [by |-> c, code |-> pending[u].code, counted |-> pending[u].code] \in compared
    BY <2>4, <2>5 DEF ConfirmGood
  <2>7. \E i \in issued : i.code = pending[u].code /\ i.user = u /\ \A j \in issued : j.user = u => j.at <= i.at
    BY <2>0 DEF IInv, LastIssued
  <2> QED
    BY <2>4, <2>6, <2>7
<1> QED
  BY <1>1, Inductive, PTL DEF Spec, VerifiedByLastCode

\* No code goes to a verified account, and none within the interval of the one before except by a request that had
\* looked before that one was saved.
THEOREM Spaced == Spec => ResendSpaced
<1>1. ASSUME IInv, [Next]_vars
      PROVE  [ResendStep]_vars
  <2>0. IInv /\ [Next]_vars
    BY <1>1
  <2> SUFFICES ASSUME NEW r \in Sends, NEW u \in DOMAIN pending,
                      [code |-> r, user |-> u, at |-> clock] \in issued' \ issued
               PROVE  /\ ~pending[u].verified
                      /\ clock - pending[u].sent_at >= Resend \/ pending[u].sent_at > send[r].sent_at
    BY DEF ResendStep
  <2>1. PICK x \in Sends : IssueStep(x)
    BY <2>0, TablesChange, AttemptEffect, CompleteEffect
  <2>2. PICK v \in Accounts : Issues(x, v)
    BY <2>0, <2>1, IssueEffect
  <2>3. x = r /\ v = u
    BY <2>2 DEF Issues
  <2>4. ~pending[u].verified /\ u = send[r].user /\ send[r].phase \in {"registering", "restarting"}
    BY <2>2, <2>3 DEF Issues
  <2>5. send[r].phase = "restarting"
    <3>1. DOMAIN pending = DOMAIN is_active
      BY <2>0, Rows DEF IInv
    <3>2. ~RegisterCommit(r)
      BY <2>4, <3>1 DEF RegisterCommit
    <3> QED
      BY <2>1, <2>3, <3>2 DEF IssueStep, RestartCommit
  <2>6. SendGood(send[r])
    BY <2>0 DEF IInv, SendRemembers
  <2>7. send[r].sent_at <= pending[u].sent_at /\ clock - send[r].sent_at >= Resend
    BY <2>4, <2>5, <2>6 DEF SendGood
  <2>8. pending[u] \in Verification /\ send[r] \in SendState
    BY <2>0, Rows DEF IInv
  <2>9. pending[u].sent_at \in Nat /\ send[r].sent_at \in Nat /\ clock \in Nat
    BY <2>0, <2>8, Rows DEF IInv, Verification, SendState
  <2> QED
    BY <2>4, <2>7, <2>9
<1> QED
  BY <1>1, Inductive, PTL DEF Spec, ResendSpaced

-----------------------------------------------------------------------------
(* EmailVerification implements VerificationStore                           *)

\* The entry of the store that a row stands for.
Entry(row) == [code |-> row.code, expires_at |-> row.expires_at, sent_at |-> row.sent_at, attempts |-> row.attempts]

Verified == {u \in DOMAIN pending : pending[u].verified}

\* A step of the rows is a step of the store.
LEMMA StepRefines ==
  ASSUME IInv, [Next]_vars
  PROVE  [Store!StoreNext]_<<Codes, Verified>>
<1>0. TypeOK /\ DOMAIN pending \subseteq Accounts /\ clock \in Nat /\ \A u \in DOMAIN pending : pending[u] \in Verification
  BY Rows DEF IInv
<1>1. /\ Codes = [u \in DOMAIN pending \ Verified |-> Entry(pending[u])]
      /\ Codes' = [u \in DOMAIN pending' \ Verified' |-> Entry(pending'[u])]
  BY DEF Codes, Unverified, Entry, Verified
<1>2. CASE UNCHANGED pending
  BY <1>1, <1>2 DEF Verified
<1>3. ASSUME NEW r \in Sends, IssueStep(r)
      PROVE  \E u \in Accounts : Store!Create(u) \/ Store!Restart(u)
  <2>1. PICK u \in Accounts : Issues(r, u)
    BY <1>3, IssueEffect
  <2>2. /\ u \in DOMAIN pending => ~pending[u].verified
        /\ DOMAIN pending' = DOMAIN pending \cup {u}
        /\ \A x \in DOMAIN pending : x # u => pending'[x] = pending[x]
        /\ pending'[u] \in Verification /\ ~pending'[u].verified
        /\ pending'[u].code = r /\ pending'[u].sent_at = clock /\ pending'[u].attempts = 0
        /\ pending'[u].expires_at <= clock + CodeLife
    BY <2>1 DEF Issues
  <2>3. Verified' = Verified /\ u \notin Verified
    BY <2>2 DEF Verified
  <2>4. DOMAIN pending' \ Verified' = DOMAIN Codes \cup {u}
    BY <1>1, <2>2, <2>3
  <2>5. PICK e \in 0 .. clock + CodeLife : e = pending'[u].expires_at
    BY <1>0, <2>2, VerificationAssumption DEF Verification
  <2>6. Entry(pending'[u]) = [code |-> r, expires_at |-> e, sent_at |-> clock, attempts |-> 0]
    BY <2>2, <2>5 DEF Entry
  <2>7. \A x \in DOMAIN pending' \ Verified' : x # u => Entry(pending'[x]) = Codes[x]
    BY <1>1, <2>2, <2>3
  <2>8. Codes' = [x \in DOMAIN Codes \cup {u} |->
                    IF x = u THEN [code |-> r, expires_at |-> e, sent_at |-> clock, attempts |-> 0] ELSE Codes[x]]
    BY <1>1, <2>4, <2>6, <2>7
  <2>9. Store!Put(u)
    BY <2>3, <2>5, <2>8 DEF Store!Put, Verified
  <2>10. u \in DOMAIN Codes \/ u \notin DOMAIN Codes \cup Verified
    BY <1>1, <2>3
  <2> QED
    BY <2>9, <2>10 DEF Store!Create, Store!Restart, Verified
<1>4. ASSUME NEW c \in Confirms, ConfirmAttempt(c), AttemptLeft(confirm[c].user)
      PROVE  \E u \in Accounts : Store!Attempt(u)
  <2>1. PICK u \in DOMAIN pending :
          /\ ~pending[u].verified /\ pending[u].attempts < MaxAttempts /\ pending[u].expires_at > clock
          /\ DOMAIN pending' = DOMAIN pending /\ \A x \in DOMAIN pending : x # u => pending'[x] = pending[x]
          /\ pending'[u].attempts = pending[u].attempts + 1
          /\ pending'[u].code = pending[u].code /\ pending'[u].expires_at = pending[u].expires_at
          /\ pending'[u].sent_at = pending[u].sent_at /\ pending'[u].verified = pending[u].verified
    BY <1>4, AttemptEffect
  <2>2. Verified' = Verified /\ u \in DOMAIN pending \ Verified
    BY <2>1 DEF Verified
  <2>3. Codes[u] = Entry(pending[u]) /\ u \in DOMAIN Codes
    BY <1>1, <2>2
  <2>4. Codes[u].attempts = pending[u].attempts /\ Codes[u].expires_at = pending[u].expires_at
    BY <2>3 DEF Entry
  <2>5. Entry(pending'[u]) = [Codes[u] EXCEPT !.attempts = Codes[u].attempts + 1]
    BY <2>1, <2>3 DEF Entry
  <2>6. Codes' = [Codes EXCEPT ![u] = [Codes[u] EXCEPT !.attempts = Codes[u].attempts + 1]]
    BY <1>1, <2>1, <2>2, <2>5
  <2>7. Store!Attempt(u)
    BY <2>1, <2>2, <2>3, <2>4, <2>6 DEF Store!Attempt, Verified
  <2> QED
    BY <1>0, <2>7
<1>5. ASSUME NEW c \in Confirms, ConfirmComplete(c), Completable(c, confirm[c].user)
      PROVE  \E u \in Accounts : Store!Complete(u)
  <2>1. PICK u \in DOMAIN pending :
          /\ ~pending[u].verified /\ pending[u].expires_at > clock
          /\ DOMAIN pending' = DOMAIN pending /\ \A x \in DOMAIN pending : x # u => pending'[x] = pending[x]
          /\ pending'[u].verified
    BY <1>5, CompleteEffect
  <2>2. Verified' = Verified \cup {u} /\ u \in DOMAIN pending \ Verified
    BY <2>1 DEF Verified
  <2>3. Codes[u].expires_at = pending[u].expires_at /\ u \in DOMAIN Codes
    BY <1>1, <2>2 DEF Entry
  <2>4. Codes' = [x \in DOMAIN Codes \ {u} |-> Codes[x]]
    BY <1>1, <2>1, <2>2
  <2>5. Store!Complete(u)
    BY <2>1, <2>2, <2>3, <2>4 DEF Store!Complete, Verified
  <2> QED
    BY <1>0, <2>5
<1> QED
  BY <1>2, <1>3, <1>4, <1>5, TablesChange DEF Store!StoreNext

\* The rows, with the requests that hold what they read before, behave as the one dictionary of the mock repository,
\* whose every method is one step.
THEOREM ImplementsStore == Spec => StoreSpec
<1>1. Init => Store!StoreInit
  BY DEF Init, Store!StoreInit, Codes, Unverified
<1>2. ASSUME IInv, [Next]_vars
      PROVE  [Store!StoreNext]_Store!storeVars
  BY <1>2, StepRefines DEF Store!storeVars, Verified
<1> QED
  BY <1>1, <1>2, Inductive, PTL DEF Spec, StoreSpec, Store!StoreSpec
=============================================================================
