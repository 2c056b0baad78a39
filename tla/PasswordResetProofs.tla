------------------------ MODULE PasswordResetProofs ------------------------
(***************************************************************************)
(* What TLAPS proves of PasswordReset for every value of the constants:    *)
(* any number of accounts, codes and confirmations, any limit of guesses.  *)
(***************************************************************************)
EXTENDS PasswordReset, FiniteSetTheorems, TLAPS

\* A request for a code that is not over has not saved it, and knows whose it will be.
AskRemembers ==
  \A r \in Asks :
    /\ ask[r].phase # "done" => r \notin DOMAIN token
    /\ ask[r].phase \in {"found", "timed", "allowed", "creating"} => ask[r].user \in Accounts

\* A confirmation holds a row of its account, and has matched only the code of that row.
ConfirmRemembers ==
  \A c \in Confirms :
    /\ confirm[c].phase \in {"found", "read", "matched"} => confirm[c].user \in Accounts
    /\ confirm[c].phase \in {"read", "matched"} =>
         confirm[c].reset \in DOMAIN token /\ token[confirm[c].reset].usuario_id = confirm[c].user
    /\ confirm[c].phase = "matched" => confirm[c].code = confirm[c].reset

\* Every comparison was counted on its row.
Counted ==
  /\ IsFiniteSet(compared)
  /\ \A x \in compared : x.reset \in DOMAIN token
  /\ \A t \in DOMAIN token : Cardinality({x \in compared : x.reset = t}) <= token[t].attempts

\* A row that changed a password is used.
Spent == \A x \in changed : x.reset \in DOMAIN token /\ token[x.reset].used

\* The inductive invariant.
IInv == TypeOK /\ AskRemembers /\ ConfirmRemembers /\ Counted /\ Spent /\ CodeUsedOnce

LEMMA InitIInv == Init => IInv
<1> SUFFICES ASSUME Init PROVE IInv
  OBVIOUS
<1>1. TypeOK
  BY DEF Init, TypeOK, IdleAsk, IdleConfirm
<1>2. AskRemembers /\ ConfirmRemembers
  BY DEF Init, AskRemembers, ConfirmRemembers, IdleAsk, IdleConfirm
<1>3. Counted
  BY FS_EmptySet DEF Init, Counted
<1>4. Spent /\ CodeUsedOnce
  BY DEF Init, Spent, CodeUsedOnce
<1> QED
  BY <1>1, <1>2, <1>3, <1>4 DEF IInv

-----------------------------------------------------------------------------
(* Types                                                                    *)

AskState == [phase : {"idle", "found", "timed", "allowed", "creating", "done"},
             user : Accounts \cup {NULL}, now : Nat, begun : Nat, previous : SUBSET Asks]
ConfirmState == [phase : {"idle", "found", "read", "matched", "done"}, user : Accounts \cup {NULL},
                 code : Asks \cup {NULL}, reset : Asks \cup {NULL}]

\* A request that is over is well typed.
LEMMA DoneTypes == [IdleAsk EXCEPT !.phase = "done"] \in AskState /\ [IdleConfirm EXCEPT !.phase = "done"] \in ConfirmState
BY DEF IdleAsk, IdleConfirm, AskState, ConfirmState

\* So is one that goes on.
LEMMA AskTypes ==
  ASSUME NEW q \in AskState
  PROVE  /\ \A u \in Accounts : [q EXCEPT !.phase = "found", !.user = u] \in AskState
         /\ \A t \in Nat : [q EXCEPT !.phase = "timed", !.now = t] \in AskState
         /\ [q EXCEPT !.phase = "allowed"] \in AskState
         /\ \A t \in Nat, S \in SUBSET Asks : [q EXCEPT !.phase = "creating", !.begun = t, !.previous = S] \in AskState
<1>1. \A u \in Accounts : [q EXCEPT !.phase = "found", !.user = u] \in AskState
  BY DEF AskState
<1>2. \A t \in Nat : [q EXCEPT !.phase = "timed", !.now = t] \in AskState
  BY DEF AskState
<1>3. [q EXCEPT !.phase = "allowed"] \in AskState
  BY DEF AskState
<1>4. \A t \in Nat, S \in SUBSET Asks : [q EXCEPT !.phase = "creating", !.begun = t, !.previous = S] \in AskState
  BY DEF AskState
<1> QED
  BY <1>1, <1>2, <1>3, <1>4

LEMMA ConfirmTypes ==
  ASSUME NEW q \in ConfirmState
  PROVE  /\ \A u \in Accounts, k \in Asks \cup {NULL} : [q EXCEPT !.phase = "found", !.user = u, !.code = k] \in ConfirmState
         /\ \A t \in Asks : [q EXCEPT !.phase = "read", !.reset = t] \in ConfirmState
         /\ [q EXCEPT !.phase = "matched"] \in ConfirmState
<1>1. \A u \in Accounts, k \in Asks \cup {NULL} : [q EXCEPT !.phase = "found", !.user = u, !.code = k] \in ConfirmState
  BY DEF ConfirmState
<1>2. \A t \in Asks : [q EXCEPT !.phase = "read", !.reset = t] \in ConfirmState
  BY DEF ConfirmState
<1>3. [q EXCEPT !.phase = "matched"] \in ConfirmState
  BY DEF ConfirmState
<1> QED
  BY <1>1, <1>2, <1>3

\* A row stays a row when it is counted on or used.
LEMMA TokenTypes ==
  ASSUME NEW row \in Token
  PROVE  /\ \A b \in BOOLEAN : [row EXCEPT !.used = b] \in Token
         /\ row.attempts < MaxAttempts => [row EXCEPT !.attempts = row.attempts + 1] \in Token
<1>1. \A b \in BOOLEAN : [row EXCEPT !.used = b] \in Token
  BY DEF Token
<1>2. row.attempts < MaxAttempts => [row EXCEPT !.attempts = row.attempts + 1] \in Token
  <2>1. row.attempts < MaxAttempts => row.attempts + 1 \in 0..MaxAttempts
    BY ResetAssumption DEF Token
  <2> QED
    BY <2>1 DEF Token
<1> QED
  BY <1>1, <1>2

-----------------------------------------------------------------------------
(* What the steps that change the rows do                                   *)

\* What becomes of a row that is used, or counted on.
LEMMA RowFields ==
  ASSUME NEW row \in Token
  PROVE  /\ \A b \in BOOLEAN : \A new : new = [row EXCEPT !.used = b] =>
              /\ new \in Token
              /\ new.used = b /\ new.usuario_id = row.usuario_id /\ new.attempts = row.attempts
              /\ b = row.used => new = row
         /\ \A new : new = [row EXCEPT !.attempts = row.attempts + 1] /\ row.attempts < MaxAttempts =>
              /\ new \in Token
              /\ new.used = row.used /\ new.usuario_id = row.usuario_id /\ new.attempts = row.attempts + 1
         /\ row.attempts \in Nat /\ row.used \in BOOLEAN
<1>1. ASSUME NEW b \in BOOLEAN, NEW new, new = [row EXCEPT !.used = b]
      PROVE  /\ new \in Token
             /\ new.used = b /\ new.usuario_id = row.usuario_id /\ new.attempts = row.attempts
             /\ b = row.used => new = row
  BY <1>1 DEF Token
<1>2. ASSUME NEW new, new = [row EXCEPT !.attempts = row.attempts + 1], row.attempts < MaxAttempts
      PROVE  /\ new \in Token
             /\ new.used = row.used /\ new.usuario_id = row.usuario_id /\ new.attempts = row.attempts + 1
  BY <1>2, TokenTypes DEF Token
<1>3. row.attempts \in Nat /\ row.used \in BOOLEAN
  BY DEF Token
<1> QED
  BY <1>1, <1>2, <1>3

\* A new code: its row, and the previous ones used.
LEMMA CreateEffect ==
  ASSUME IInv, NEW r \in Asks, CreateCommit(r)
  PROVE  /\ r \notin DOMAIN token /\ DOMAIN token' = DOMAIN token \cup {r}
         /\ token'[r] \in Token /\ token'[r].attempts = 0
         /\ \A t \in DOMAIN token :
              /\ token'[t] \in Token
              /\ token'[t].usuario_id = token[t].usuario_id /\ token'[t].attempts = token[t].attempts
              /\ token[t].used => token'[t] = token[t]
<1>1. r \notin DOMAIN token /\ ask[r].user \in Accounts
  BY DEF CreateCommit, IInv, AskRemembers
<1>2. DOMAIN token' = DOMAIN token \cup {r}
  BY DEF CreateCommit
<1>3. token'[r] = [usuario_id |-> ask[r].user, created_at |-> ask[r].begun, expires_at |-> ask[r].now + CodeLife,
                   attempts |-> 0, used |-> FALSE]
  BY DEF CreateCommit
<1>4. ask[r] \in AskState
  BY DEF IInv, TypeOK, AskState
<1>5. ask[r].begun \in Nat /\ ask[r].now + CodeLife \in Nat
  BY <1>4, ResetAssumption DEF AskState
<1>6. token'[r] \in Token /\ token'[r].attempts = 0
  BY <1>1, <1>3, <1>5, ResetAssumption DEF Token
<1>7. ASSUME NEW t \in DOMAIN token
      PROVE  /\ token'[t] \in Token
             /\ token'[t].usuario_id = token[t].usuario_id /\ token'[t].attempts = token[t].attempts
             /\ token[t].used => token'[t] = token[t]
  <2>1. token[t] \in Token
    BY DEF IInv, TypeOK
  <2>2. token'[t] = [token[t] EXCEPT !.used = token[t].used \/ t \in ask[r].previous]
    BY <1>1 DEF CreateCommit
  <2>3. token[t].used \in BOOLEAN
    BY <2>1, RowFields
  <2>4. PICK b \in BOOLEAN : b = (token[t].used \/ t \in ask[r].previous)
    BY <2>3
  <2>5. token'[t] = [token[t] EXCEPT !.used = b]
    BY <2>2, <2>4
  <2>6. /\ token'[t] \in Token
        /\ token'[t].usuario_id = token[t].usuario_id /\ token'[t].attempts = token[t].attempts
        /\ b = token[t].used => token'[t] = token[t]
    BY <2>1, <2>5, RowFields
  <2>7. token[t].used => b = token[t].used
    BY <2>3, <2>4
  <2> QED
    BY <2>6, <2>7
<1> QED
  BY <1>1, <1>2, <1>6, <1>7

\* A counted attempt.
LEMMA AttemptEffect ==
  ASSUME IInv, NEW c \in Confirms, ConfirmAttempt(c), AttemptLeft(confirm[c].reset)
  PROVE  \E t \in DOMAIN token :
           /\ t = confirm[c].reset /\ t \in Asks /\ ~token[t].used
           /\ DOMAIN token' = DOMAIN token /\ \A x \in DOMAIN token : x # t => token'[x] = token[x]
           /\ token'[t] \in Token /\ token'[t].usuario_id = token[t].usuario_id /\ token'[t].used = token[t].used
           /\ token'[t].attempts = token[t].attempts + 1
           /\ compared' = compared \cup {[by |-> c, reset |-> t]}
<1>1. PICK t \in DOMAIN token : t = confirm[c].reset
  BY DEF ConfirmAttempt, IInv, ConfirmRemembers
<1>2. token[t] \in Token /\ t \in Asks
  BY <1>1 DEF IInv, TypeOK
<1>3. token' = [token EXCEPT ![t] = [token[t] EXCEPT !.attempts = token[t].attempts + 1]]
  BY <1>1 DEF ConfirmAttempt
<1>4. /\ DOMAIN token' = DOMAIN token /\ \A x \in DOMAIN token : x # t => token'[x] = token[x]
      /\ token'[t] = [token[t] EXCEPT !.attempts = token[t].attempts + 1]
  BY <1>1, <1>3 DEF IInv, TypeOK
<1>5. ~token[t].used /\ token[t].attempts < MaxAttempts
  BY <1>1 DEF AttemptLeft
<1>6. compared' = compared \cup {[by |-> c, reset |-> t]}
  BY <1>1 DEF ConfirmAttempt
<1>7. /\ token'[t] \in Token /\ token'[t].usuario_id = token[t].usuario_id /\ token'[t].used = token[t].used
      /\ token'[t].attempts = token[t].attempts + 1
  BY <1>2, <1>4, <1>5, RowFields
<1> QED
  BY <1>1, <1>2, <1>4, <1>5, <1>6, <1>7

\* A code that is consumed.
LEMMA CompleteEffect ==
  ASSUME IInv, NEW c \in Confirms, ConfirmComplete(c), Completable(confirm[c].reset, confirm[c].user)
  PROVE  \E t \in DOMAIN token :
           /\ t = confirm[c].reset /\ t = confirm[c].code /\ t \in Asks /\ confirm[c].user \in Accounts
           /\ token[t].usuario_id = confirm[c].user /\ ~token[t].used /\ token[t].expires_at > clock
           /\ DOMAIN token' = DOMAIN token /\ \A x \in DOMAIN token : x # t => token'[x] = token[x]
           /\ token'[t] \in Token /\ token'[t].usuario_id = token[t].usuario_id /\ token'[t].used
           /\ token'[t].attempts = token[t].attempts
           /\ changed' \in {changed, changed \cup {[by |-> c, reset |-> t]}}
<1>1. PICK t \in DOMAIN token : t = confirm[c].reset /\ t = confirm[c].code
  BY DEF ConfirmComplete, IInv, ConfirmRemembers
<1>2. token[t] \in Token /\ t \in Asks /\ confirm[c].user \in Accounts
  BY <1>1 DEF IInv, TypeOK, ConfirmComplete, ConfirmRemembers
<1>3. token' = [token EXCEPT ![t] = [token[t] EXCEPT !.used = TRUE]]
  BY <1>1 DEF ConfirmComplete
<1>4. /\ DOMAIN token' = DOMAIN token /\ \A x \in DOMAIN token : x # t => token'[x] = token[x]
      /\ token'[t] = [token[t] EXCEPT !.used = TRUE]
  BY <1>1, <1>3 DEF IInv, TypeOK
<1>5. token[t].usuario_id = confirm[c].user /\ ~token[t].used /\ token[t].expires_at > clock
  BY <1>1 DEF Completable
<1>6. changed' \in {changed, changed \cup {[by |-> c, reset |-> t]}}
  BY <1>1 DEF ConfirmComplete
<1>7. /\ token'[t] \in Token /\ token'[t].usuario_id = token[t].usuario_id /\ token'[t].used
      /\ token'[t].attempts = token[t].attempts
  BY <1>2, <1>4, RowFields
<1> QED
  BY <1>1, <1>2, <1>4, <1>5, <1>6, <1>7

\* Everything else leaves the rows, the passwords and the history alone.
LEMMA TablesChange ==
  ASSUME IInv, [Next]_vars
  PROVE  \/ UNCHANGED <<token, password, compared, changed>>
         \/ \E r \in Asks : CreateCommit(r) /\ UNCHANGED <<password, compared, changed>>
         \/ \E c \in Confirms : ConfirmAttempt(c) /\ AttemptLeft(confirm[c].reset) /\ UNCHANGED <<password, changed>>
         \/ \E c \in Confirms : ConfirmComplete(c) /\ Completable(confirm[c].reset, confirm[c].user)
                                /\ UNCHANGED compared
<1>1. CASE UNCHANGED vars
  BY <1>1 DEF vars, history
<1>2. CASE Tick \/ Lost \/ \E u \in Accounts : Delete(u)
  BY <1>2 DEF Tick, Lost, Delete, history
<1>3. ASSUME NEW r \in Asks, AskStep(r)
      PROVE  \/ UNCHANGED <<token, password, compared, changed>>
             \/ CreateCommit(r) /\ UNCHANGED <<password, compared, changed>>
  BY <1>3 DEF AskStep, AskArrive, AskReadClock, AskThrottle, CreateBegin, CreateCommit, history
<1>4. ASSUME NEW c \in Confirms, ConfirmStep(c)
      PROVE  \/ UNCHANGED <<token, password, compared, changed>>
             \/ ConfirmAttempt(c) /\ AttemptLeft(confirm[c].reset) /\ UNCHANGED <<password, changed>>
             \/ ConfirmComplete(c) /\ Completable(confirm[c].reset, confirm[c].user) /\ UNCHANGED compared
  <2>1. CASE ConfirmAttempt(c)
    BY <2>1 DEF ConfirmAttempt
  <2>2. CASE ConfirmComplete(c)
    BY <2>2 DEF ConfirmComplete
  <2>3. CASE ~ConfirmAttempt(c) /\ ~ConfirmComplete(c)
    BY <1>4, <2>3 DEF ConfirmStep, ConfirmArrive, ConfirmRead, history
  <2> QED
    BY <2>1, <2>2, <2>3
<1> QED
  BY <1>1, <1>2, <1>3, <1>4 DEF Next

\* The rows only grow: their account stays, their attempts add up, and one that is used never changes again.
LEMMA RowsGrow ==
  ASSUME IInv, [Next]_vars
  PROVE  /\ DOMAIN token \subseteq DOMAIN token'
         /\ DOMAIN token' \subseteq Asks /\ token' \in [DOMAIN token' -> Token]
         /\ \A t \in DOMAIN token :
              /\ token'[t].usuario_id = token[t].usuario_id /\ token'[t].attempts >= token[t].attempts
              /\ token[t].used => token'[t] = token[t]
<1>0. DOMAIN token \subseteq Asks /\ token \in [DOMAIN token -> Token] /\ \A t \in DOMAIN token : token[t].attempts \in Nat
  BY RowFields DEF IInv, TypeOK
<1>1. CASE UNCHANGED token
  BY <1>0, <1>1
<1>2. ASSUME NEW r \in Asks, CreateCommit(r)
      PROVE  /\ DOMAIN token \subseteq DOMAIN token'
             /\ DOMAIN token' \subseteq Asks /\ token' \in [DOMAIN token' -> Token]
             /\ \A t \in DOMAIN token :
                  /\ token'[t].usuario_id = token[t].usuario_id /\ token'[t].attempts >= token[t].attempts
                  /\ token[t].used => token'[t] = token[t]
  <2>1. token' = [t \in DOMAIN token' |-> token'[t]]
    BY <1>2 DEF CreateCommit
  <2>2. /\ DOMAIN token' = DOMAIN token \cup {r} /\ token'[r] \in Token
        /\ \A t \in DOMAIN token : /\ token'[t] \in Token /\ token'[t].usuario_id = token[t].usuario_id
                                   /\ token'[t].attempts = token[t].attempts
                                   /\ token[t].used => token'[t] = token[t]
    BY <1>2, CreateEffect
  <2>3. token' \in [DOMAIN token' -> Token]
    BY <2>1, <2>2
  <2> QED
    BY <1>0, <2>2, <2>3
<1>3. ASSUME NEW c \in Confirms, ConfirmAttempt(c), AttemptLeft(confirm[c].reset)
      PROVE  /\ DOMAIN token \subseteq DOMAIN token'
             /\ DOMAIN token' \subseteq Asks /\ token' \in [DOMAIN token' -> Token]
             /\ \A t \in DOMAIN token :
                  /\ token'[t].usuario_id = token[t].usuario_id /\ token'[t].attempts >= token[t].attempts
                  /\ token[t].used => token'[t] = token[t]
  <2>1. PICK t \in DOMAIN token :
          /\ t = confirm[c].reset /\ t \in Asks /\ ~token[t].used
          /\ DOMAIN token' = DOMAIN token /\ \A x \in DOMAIN token : x # t => token'[x] = token[x]
          /\ token'[t] \in Token /\ token'[t].usuario_id = token[t].usuario_id /\ token'[t].used = token[t].used
          /\ token'[t].attempts = token[t].attempts + 1
    BY <1>3, AttemptEffect
  <2>2. token' = [x \in DOMAIN token' |-> token'[x]]
    BY <1>3 DEF ConfirmAttempt
  <2>3. token' \in [DOMAIN token' -> Token]
    BY <1>0, <2>1, <2>2
  <2> QED
    BY <1>0, <2>1, <2>3
<1>4. ASSUME NEW c \in Confirms, ConfirmComplete(c), Completable(confirm[c].reset, confirm[c].user)
      PROVE  /\ DOMAIN token \subseteq DOMAIN token'
             /\ DOMAIN token' \subseteq Asks /\ token' \in [DOMAIN token' -> Token]
             /\ \A t \in DOMAIN token :
                  /\ token'[t].usuario_id = token[t].usuario_id /\ token'[t].attempts >= token[t].attempts
                  /\ token[t].used => token'[t] = token[t]
  <2>1. PICK t \in DOMAIN token :
          /\ ~token[t].used
          /\ DOMAIN token' = DOMAIN token /\ \A x \in DOMAIN token : x # t => token'[x] = token[x]
          /\ token'[t] \in Token /\ token'[t].usuario_id = token[t].usuario_id
          /\ token'[t].attempts = token[t].attempts
    BY <1>4, CompleteEffect
  <2>2. token' = [x \in DOMAIN token' |-> token'[x]]
    BY <1>4 DEF ConfirmComplete
  <2>3. token' \in [DOMAIN token' -> Token]
    BY <1>0, <2>1, <2>2
  <2> QED
    BY <1>0, <2>1, <2>3
<1> QED
  BY <1>1, <1>2, <1>3, <1>4, TablesChange

-----------------------------------------------------------------------------
(* The invariant is inductive                                               *)

\* Comparing one code more takes one attempt more.
LEMMA OneMore ==
  ASSUME NEW S, IsFiniteSet(S), NEW e
  PROVE  /\ IsFiniteSet(S \cup {e}) /\ Cardinality(S \cup {e}) \in Nat /\ Cardinality(S) \in Nat
         /\ Cardinality(S \cup {e}) <= Cardinality(S) + 1
<1>1. /\ IsFiniteSet(S \cup {e})
      /\ Cardinality(S \cup {e}) = IF e \in S THEN Cardinality(S) ELSE Cardinality(S) + 1
  BY FS_AddElement
<1>2. Cardinality(S) \in Nat
  BY FS_CardinalityType
<1> QED
  BY <1>1, <1>2

LEMMA NextCounted ==
  ASSUME IInv, [Next]_vars
  PROVE  Counted'
<1>0. /\ DOMAIN token \subseteq DOMAIN token' /\ DOMAIN token' \subseteq Asks
      /\ \A t \in DOMAIN token : token[t].attempts \in Nat /\ token'[t].attempts \in Nat /\ token'[t].attempts >= token[t].attempts
  BY RowsGrow, RowFields DEF IInv, TypeOK
<1>1. /\ IsFiniteSet(compared) /\ \A x \in compared : x.reset \in DOMAIN token
      /\ \A t \in DOMAIN token : Cardinality({x \in compared : x.reset = t}) <= token[t].attempts
  BY DEF IInv, Counted
<1>2. \A t : IsFiniteSet({x \in compared : x.reset = t}) /\ Cardinality({x \in compared : x.reset = t}) \in Nat
  <2> TAKE t
  <2>1. {x \in compared : x.reset = t} \subseteq compared
    OBVIOUS
  <2> QED
    BY <1>1, <2>1, FS_Subset, FS_CardinalityType
<1>3. CASE UNCHANGED compared /\ DOMAIN token' = DOMAIN token
  <2>1. \A t \in DOMAIN token' : Cardinality({x \in compared' : x.reset = t}) <= token'[t].attempts
    <3> TAKE t \in DOMAIN token'
    <3>1. {x \in compared' : x.reset = t} = {x \in compared : x.reset = t}
      BY <1>3
    <3>2. PICK n \in Nat : n = Cardinality({x \in compared : x.reset = t})
      BY <1>2
    <3>3. n <= token[t].attempts
      BY <1>1, <1>3, <3>2
    <3>4. n <= token'[t].attempts
      BY <1>0, <1>3, <3>3
    <3> QED
      BY <3>1, <3>2, <3>4
  <2> QED
    BY <1>1, <1>3, <2>1 DEF Counted
<1>4. ASSUME NEW r \in Asks, CreateCommit(r), UNCHANGED compared
      PROVE  Counted'
  <2>1. r \notin DOMAIN token /\ DOMAIN token' = DOMAIN token \cup {r} /\ token'[r].attempts = 0
    BY <1>4, CreateEffect
  <2>2. {x \in compared' : x.reset = r} = {}
    BY <1>1, <1>4, <2>1
  <2>3. Cardinality({x \in compared' : x.reset = r}) <= token'[r].attempts
    <3>1. Cardinality({x \in compared' : x.reset = r}) = 0
      BY <2>2, FS_EmptySet
    <3> QED
      BY <2>1, <3>1
  <2>4. \A t \in DOMAIN token : Cardinality({x \in compared' : x.reset = t}) <= token'[t].attempts
    <3> TAKE t \in DOMAIN token
    <3>1. {x \in compared' : x.reset = t} = {x \in compared : x.reset = t}
      BY <1>4
    <3>2. PICK n \in Nat : n = Cardinality({x \in compared : x.reset = t})
      BY <1>2
    <3>3. n <= token[t].attempts
      BY <1>1, <3>2
    <3>4. n <= token'[t].attempts
      BY <1>0, <3>3
    <3> QED
      BY <3>1, <3>2, <3>4
  <2>5. IsFiniteSet(compared') /\ \A x \in compared' : x.reset \in DOMAIN token'
    BY <1>1, <1>4, <2>1
  <2> QED
    BY <2>1, <2>3, <2>4, <2>5 DEF Counted
<1>5. ASSUME NEW c \in Confirms, ConfirmAttempt(c), AttemptLeft(confirm[c].reset)
      PROVE  Counted'
  <2>1. PICK t \in DOMAIN token :
          /\ DOMAIN token' = DOMAIN token /\ \A x \in DOMAIN token : x # t => token'[x] = token[x]
          /\ token'[t].attempts = token[t].attempts + 1
          /\ compared' = compared \cup {[by |-> c, reset |-> t]}
    BY <1>5, AttemptEffect
  <2>2. PICK e : e = [by |-> c, reset |-> t]
    OBVIOUS
  <2>3. compared' = compared \cup {e} /\ e.reset = t
    BY <2>1, <2>2
  <2>4. IsFiniteSet(compared')
    BY <1>1, <2>3, OneMore
  <2>5. \A x \in compared' : x.reset \in DOMAIN token'
    BY <1>1, <2>1, <2>3
  <2>6. Cardinality({x \in compared' : x.reset = t}) <= token'[t].attempts
    <3>1. {x \in compared' : x.reset = t} = {x \in compared : x.reset = t} \cup {e}
      BY <2>3
    <3>2. PICK S : S = {x \in compared : x.reset = t}
      OBVIOUS
    <3>3. /\ Cardinality(S \cup {e}) \in Nat /\ Cardinality(S) \in Nat
          /\ Cardinality(S \cup {e}) <= Cardinality(S) + 1 /\ Cardinality(S) <= token[t].attempts
      BY <1>1, <1>2, <3>2, OneMore
    <3>4. Cardinality({x \in compared' : x.reset = t}) = Cardinality(S \cup {e})
      BY <3>1, <3>2
    <3> QED
      BY <1>0, <2>1, <3>3, <3>4
  <2>7. ASSUME NEW y \in DOMAIN token, y # t
        PROVE  Cardinality({x \in compared' : x.reset = y}) <= token'[y].attempts
    <3>1. {x \in compared' : x.reset = y} = {x \in compared : x.reset = y}
      BY <2>3, <2>7
    <3>2. token'[y].attempts = token[y].attempts
      BY <2>1, <2>7
    <3> QED
      BY <1>1, <3>1, <3>2
  <2> QED
    BY <2>1, <2>4, <2>5, <2>6, <2>7 DEF Counted
<1>6. ASSUME NEW c \in Confirms, ConfirmComplete(c), Completable(confirm[c].reset, confirm[c].user)
      PROVE  DOMAIN token' = DOMAIN token
  BY <1>6, CompleteEffect
<1> QED
  BY <1>3, <1>4, <1>5, <1>6, TablesChange

\* A row that changed a password is used, so it changes none again.
LEMMA NextSpent ==
  ASSUME IInv, [Next]_vars
  PROVE  /\ Spent' /\ CodeUsedOnce'
         /\ \A t \in DOMAIN token : token[t].used => {x \in changed' : x.reset = t} = {x \in changed : x.reset = t}
<1>0. /\ DOMAIN token \subseteq DOMAIN token'
      /\ \A t \in DOMAIN token : token[t].used => token'[t] = token[t]
  BY RowsGrow
<1>1. \A x \in changed : x.reset \in DOMAIN token /\ token[x.reset].used
  BY DEF IInv, Spent
<1>2. \A x, y \in changed : x.reset = y.reset => x = y
  BY DEF IInv, CodeUsedOnce
<1>3. CASE UNCHANGED changed
  BY <1>0, <1>1, <1>2, <1>3 DEF Spent, CodeUsedOnce
<1>4. ASSUME NEW c \in Confirms, ConfirmComplete(c), Completable(confirm[c].reset, confirm[c].user)
      PROVE  /\ Spent' /\ CodeUsedOnce'
             /\ \A t \in DOMAIN token : token[t].used => {x \in changed' : x.reset = t} = {x \in changed : x.reset = t}
  <2>1. PICK t \in DOMAIN token : /\ ~token[t].used /\ token'[t].used /\ DOMAIN token' = DOMAIN token
                                  /\ changed' \in {changed, changed \cup {[by |-> c, reset |-> t]}}
    BY <1>4, CompleteEffect
  <2>2. PICK e : e = [by |-> c, reset |-> t]
    OBVIOUS
  <2>3. e.reset = t /\ changed' \in {changed, changed \cup {e}}
    BY <2>1, <2>2
  <2>4. Spent'
    BY <1>0, <1>1, <2>1, <2>3 DEF Spent
  <2>5. CodeUsedOnce'
    BY <1>1, <1>2, <2>1, <2>3 DEF CodeUsedOnce
  <2> QED
    BY <2>1, <2>3, <2>4, <2>5
<1>5. ASSUME NEW r \in Asks, CreateCommit(r)
      PROVE  UNCHANGED changed
  BY <1>5 DEF CreateCommit, history
<1> QED
  BY <1>3, <1>4, <1>5, TablesChange

\* What a step does to the requests for a code: at most one of them moves.
LEMMA AskChange ==
  ASSUME TypeOK, [Next]_vars
  PROVE  \/ UNCHANGED ask
         \/ \E r \in Asks, q \in AskState :
              /\ ask' = [ask EXCEPT ![r] = q]
              /\ q.phase # "done" => ask[r].phase \notin {"done", "creating"} /\ ~CreateCommit(r)
              /\ q.phase \in {"found", "timed", "allowed", "creating"} =>
                   \/ q.user \in Accounts
                   \/ q.user = ask[r].user /\ ask[r].phase \in {"found", "timed", "allowed"}
<1>1. CASE UNCHANGED vars
  BY <1>1 DEF vars
<1>2. CASE Tick \/ \E u \in Accounts : Delete(u)
  BY <1>2 DEF Tick, Delete
<1>3. CASE Lost
  <2>1. UNCHANGED ask \/ \E r \in Asks : FinishAsk(r)
    BY <1>3 DEF Lost
  <2>2. ASSUME NEW r \in Asks, FinishAsk(r)
        PROVE  \E q \in AskState : ask' = [ask EXCEPT ![r] = q] /\ q.phase = "done"
    BY <2>2, DoneTypes DEF FinishAsk, IdleAsk
  <2> QED
    BY <2>1, <2>2
<1>4. ASSUME NEW r \in Asks, AskStep(r)
      PROVE  \E q \in AskState :
               /\ ask' = [ask EXCEPT ![r] = q]
               /\ q.phase # "done" => ask[r].phase \notin {"done", "creating"} /\ ~CreateCommit(r)
               /\ q.phase \in {"found", "timed", "allowed", "creating"} =>
                    \/ q.user \in Accounts
                    \/ q.user = ask[r].user /\ ask[r].phase \in {"found", "timed", "allowed"}
  <2>0. ask[r] \in AskState /\ clock \in Nat /\ Unused(ask[r].user) \in SUBSET Asks
    BY DEF TypeOK, AskState, Unused
  <2>1. CASE FinishAsk(r)
    BY <2>1, DoneTypes DEF FinishAsk, IdleAsk
  <2>2. ASSUME NEW u \in Accounts, AskArrive(r, u), ~FinishAsk(r)
        PROVE  \E q \in AskState : /\ ask' = [ask EXCEPT ![r] = q] /\ q.phase = "found" /\ q.user = u
                                   /\ ask[r].phase = "idle"
    <3>1. PICK q \in AskState : q = [ask[r] EXCEPT !.phase = "found", !.user = u]
      BY <2>0, AskTypes
    <3>2. q.phase = "found" /\ q.user = u
      BY <2>0, <3>1 DEF AskState
    <3>3. ask' = [ask EXCEPT ![r] = q] /\ ask[r].phase = "idle"
      BY <2>2, <3>1 DEF AskArrive
    <3> QED
      BY <3>2, <3>3
  <2>3. CASE AskReadClock(r)
    <3>1. PICK q \in AskState : q = [ask[r] EXCEPT !.phase = "timed", !.now = clock]
      BY <2>0, AskTypes
    <3>2. q.phase = "timed" /\ q.user = ask[r].user
      BY <2>0, <3>1 DEF AskState
    <3>3. ask' = [ask EXCEPT ![r] = q] /\ ask[r].phase = "found"
      BY <2>3, <3>1 DEF AskReadClock
    <3> QED
      BY <3>2, <3>3 DEF CreateCommit
  <2>4. CASE AskThrottle(r) /\ ~FinishAsk(r)
    <3>1. PICK q \in AskState : q = [ask[r] EXCEPT !.phase = "allowed"]
      BY <2>0, AskTypes
    <3>2. q.phase = "allowed" /\ q.user = ask[r].user
      BY <2>0, <3>1 DEF AskState
    <3>3. ask' = [ask EXCEPT ![r] = q] /\ ask[r].phase = "timed"
      BY <2>4, <3>1 DEF AskThrottle
    <3> QED
      BY <3>2, <3>3 DEF CreateCommit
  <2>5. CASE CreateBegin(r)
    <3>1. PICK q \in AskState : q = [ask[r] EXCEPT !.phase = "creating", !.begun = clock, !.previous = Unused(ask[r].user)]
      BY <2>0, AskTypes
    <3>2. q.phase = "creating" /\ q.user = ask[r].user
      BY <2>0, <3>1 DEF AskState
    <3>3. ask' = [ask EXCEPT ![r] = q] /\ ask[r].phase = "allowed"
      BY <2>5, <3>1 DEF CreateBegin
    <3> QED
      BY <3>2, <3>3 DEF CreateCommit
  <2>6. CASE CreateCommit(r)
    BY <2>1, <2>6 DEF CreateCommit
  <2>7. ASSUME NEW u \in Accounts, AskArrive(r, u)
        PROVE  \/ FinishAsk(r)
               \/ \E q \in AskState : /\ ask' = [ask EXCEPT ![r] = q] /\ q.phase = "found" /\ q.user = u
                                      /\ ask[r].phase = "idle"
    BY <2>2, <2>7
  <2>8. ASSUME NEW u \in Accounts, AskArrive(r, u)
        PROVE  \E q \in AskState :
               /\ ask' = [ask EXCEPT ![r] = q]
               /\ q.phase # "done" => ask[r].phase \notin {"done", "creating"} /\ ~CreateCommit(r)
               /\ q.phase \in {"found", "timed", "allowed", "creating"} => q.user \in Accounts
    <3>1. CASE FinishAsk(r)
      BY <3>1, DoneTypes DEF FinishAsk, IdleAsk
    <3>2. CASE \E q \in AskState : /\ ask' = [ask EXCEPT ![r] = q] /\ q.phase = "found" /\ q.user = u
                                   /\ ask[r].phase = "idle"
      BY <3>2 DEF CreateCommit
    <3> QED
      BY <2>7, <2>8, <3>1, <3>2
  <2> QED
    BY <1>4, <2>1, <2>3, <2>4, <2>5, <2>6, <2>8 DEF AskStep
<1>5. ASSUME NEW c \in Confirms, ConfirmStep(c)
      PROVE  UNCHANGED ask
  BY <1>5 DEF ConfirmStep, ConfirmArrive, ConfirmRead, ConfirmAttempt, ConfirmComplete
<1> QED
  BY <1>1, <1>2, <1>3, <1>4, <1>5 DEF Next

\* What a step does to the confirmations: at most one of them moves, to a row of its account.
LEMMA ConfirmChange ==
  ASSUME IInv, [Next]_vars
  PROVE  \/ UNCHANGED confirm
         \/ \E c \in Confirms, q \in ConfirmState :
              /\ confirm' = [confirm EXCEPT ![c] = q]
              /\ q.phase \in {"found", "read", "matched"} => q.user \in Accounts
              /\ q.phase \in {"read", "matched"} => q.reset \in DOMAIN token /\ token[q.reset].usuario_id = q.user
              /\ q.phase = "matched" => q.code = q.reset
<1>0. TypeOK /\ ConfirmRemembers
  BY DEF IInv
<1>1. CASE UNCHANGED vars
  BY <1>1 DEF vars
<1>2. CASE Tick \/ \E u \in Accounts : Delete(u)
  BY <1>2 DEF Tick, Delete
<1>3. ASSUME NEW c \in Confirms, FinishConfirm(c)
      PROVE  \E q \in ConfirmState : confirm' = [confirm EXCEPT ![c] = q] /\ q.phase = "done"
  BY <1>3, DoneTypes DEF FinishConfirm, IdleConfirm
<1>4. CASE Lost
  <2>1. UNCHANGED confirm \/ \E c \in Confirms : FinishConfirm(c)
    BY <1>4 DEF Lost
  <2> QED
    BY <1>3, <2>1
<1>5. ASSUME NEW r \in Asks, AskStep(r)
      PROVE  UNCHANGED confirm
  BY <1>5 DEF AskStep, AskArrive, AskReadClock, AskThrottle, CreateBegin, CreateCommit
<1>6. ASSUME NEW c \in Confirms, ConfirmStep(c), ~FinishConfirm(c)
      PROVE  \E q \in ConfirmState :
               /\ confirm' = [confirm EXCEPT ![c] = q]
               /\ q.phase \in {"found", "read", "matched"} => q.user \in Accounts
               /\ q.phase \in {"read", "matched"} => q.reset \in DOMAIN token /\ token[q.reset].usuario_id = q.user
               /\ q.phase = "matched" => q.code = q.reset
  <2>0. confirm[c] \in ConfirmState /\ DOMAIN token \subseteq Asks
    BY <1>0 DEF TypeOK, ConfirmState
  <2>1. ASSUME NEW u \in Accounts, NEW code \in DOMAIN token \cup {NULL}, ConfirmArrive(c, u, code)
        PROVE  \E q \in ConfirmState : confirm' = [confirm EXCEPT ![c] = q] /\ q.phase = "found" /\ q.user = u
    <3>1. PICK q \in ConfirmState : q = [confirm[c] EXCEPT !.phase = "found", !.user = u, !.code = code]
      BY <2>0, ConfirmTypes
    <3>2. q.phase = "found" /\ q.user = u
      BY <2>0, <3>1 DEF ConfirmState
    <3>3. confirm' = [confirm EXCEPT ![c] = q]
      BY <1>6, <2>1, <3>1 DEF ConfirmArrive
    <3> QED
      BY <3>2, <3>3
  <2>2. CASE ConfirmRead(c)
    <3>1. PICK t \in LatestLive(confirm[c].user) :
            confirm' = [confirm EXCEPT ![c] = [confirm[c] EXCEPT !.phase = "read", !.reset = t]]
      BY <1>6, <2>2 DEF ConfirmRead
    <3>2. t \in DOMAIN token /\ token[t].usuario_id = confirm[c].user /\ confirm[c].user \in Accounts
      BY <1>0, <2>2, <3>1 DEF LatestLive, Live, Unused, ConfirmRead, ConfirmRemembers
    <3>3. PICK q \in ConfirmState : q = [confirm[c] EXCEPT !.phase = "read", !.reset = t]
      BY <2>0, <3>2, ConfirmTypes
    <3>4. q.phase = "read" /\ q.reset = t /\ q.user = confirm[c].user
      BY <2>0, <3>3 DEF ConfirmState
    <3>5. confirm' = [confirm EXCEPT ![c] = q]
      BY <3>1, <3>3
    <3> QED
      BY <3>2, <3>4, <3>5
  <2>3. CASE ConfirmAttempt(c)
    <3>1. confirm[c].phase = "read" /\ confirm[c].code = confirm[c].reset
      BY <1>6, <2>3 DEF ConfirmAttempt
    <3>2. confirm' = [confirm EXCEPT ![c] = [confirm[c] EXCEPT !.phase = "matched"]]
      BY <1>6, <2>3 DEF ConfirmAttempt
    <3>3. confirm[c].reset \in DOMAIN token /\ token[confirm[c].reset].usuario_id = confirm[c].user /\ confirm[c].user \in Accounts
      BY <1>0, <3>1 DEF ConfirmRemembers
    <3>4. PICK q \in ConfirmState : q = [confirm[c] EXCEPT !.phase = "matched"]
      BY <2>0, ConfirmTypes
    <3>5. q.phase = "matched" /\ q.reset = confirm[c].reset /\ q.user = confirm[c].user /\ q.code = confirm[c].code
      BY <2>0, <3>4 DEF ConfirmState
    <3>6. confirm' = [confirm EXCEPT ![c] = q]
      BY <3>2, <3>4
    <3> QED
      BY <3>1, <3>3, <3>5, <3>6
  <2>4. CASE ConfirmComplete(c)
    BY <1>6, <2>4 DEF ConfirmComplete
  <2> QED
    BY <1>6, <2>1, <2>2, <2>3, <2>4 DEF ConfirmStep
<1> QED
  BY <1>1, <1>2, <1>3, <1>4, <1>5, <1>6 DEF Next

LEMMA NextTypes ==
  ASSUME IInv, [Next]_vars
  PROVE  TypeOK'
<1>0. TypeOK
  BY DEF IInv
<1>1. (clock \in Nat)' /\ (is_active \in [Accounts -> BOOLEAN])'
  <2>1. CASE UNCHANGED vars
    BY <1>0, <2>1 DEF vars, TypeOK
  <2>2. CASE Tick
    BY <1>0, <2>2 DEF Tick, TypeOK
  <2>3. CASE \E u \in Accounts : Delete(u)
    BY <1>0, <2>3 DEF Delete, TypeOK
  <2>4. CASE Lost \/ (\E r \in Asks : AskStep(r)) \/ (\E c \in Confirms : ConfirmStep(c))
    BY <1>0, <2>4 DEF Lost, AskStep, AskArrive, AskReadClock, AskThrottle, CreateBegin, CreateCommit,
                      ConfirmStep, ConfirmArrive, ConfirmRead, ConfirmAttempt, ConfirmComplete, TypeOK
  <2> QED
    BY <2>1, <2>2, <2>3, <2>4 DEF Next
<1>2. (DOMAIN token \subseteq Asks /\ token \in [DOMAIN token -> Token])'
  BY RowsGrow
<1>3. (ask \in [Asks -> AskState])'
  <2>1. ask \in [Asks -> AskState]
    BY <1>0 DEF TypeOK, AskState
  <2>2. UNCHANGED ask \/ \E r \in Asks, q \in AskState : ask' = [ask EXCEPT ![r] = q]
    BY <1>0, AskChange
  <2> QED
    BY <2>1, <2>2
<1>4. (confirm \in [Confirms -> ConfirmState])'
  <2>1. confirm \in [Confirms -> ConfirmState]
    BY <1>0 DEF TypeOK, ConfirmState
  <2>2. UNCHANGED confirm \/ \E c \in Confirms, q \in ConfirmState : confirm' = [confirm EXCEPT ![c] = q]
    BY ConfirmChange
  <2> QED
    BY <2>1, <2>2
<1>5. (password \in [Accounts -> Confirms \cup {NULL}])'
  <2>1. UNCHANGED password \/ \E c \in Confirms : ConfirmComplete(c) /\ Completable(confirm[c].reset, confirm[c].user)
    BY TablesChange
  <2>2. ASSUME NEW c \in Confirms, ConfirmComplete(c)
        PROVE  password' \in [Accounts -> Confirms \cup {NULL}]
    BY <1>0, <2>2 DEF ConfirmComplete, TypeOK
  <2> QED
    BY <1>0, <2>1, <2>2 DEF TypeOK
<1>6. (compared \subseteq [by : Confirms, reset : Asks])'
  <2>1. UNCHANGED compared \/ \E c \in Confirms : ConfirmAttempt(c) /\ AttemptLeft(confirm[c].reset)
    BY TablesChange DEF CreateCommit, history
  <2>2. ASSUME NEW c \in Confirms, ConfirmAttempt(c), AttemptLeft(confirm[c].reset)
        PROVE  compared' \subseteq [by : Confirms, reset : Asks]
    BY <1>0, <2>2, AttemptEffect DEF TypeOK
  <2> QED
    BY <1>0, <2>1, <2>2 DEF TypeOK
<1>7. (changed \subseteq [by : Confirms, reset : Asks])'
  <2>1. UNCHANGED changed \/ \E c \in Confirms : ConfirmComplete(c) /\ Completable(confirm[c].reset, confirm[c].user)
    BY TablesChange DEF CreateCommit, history
  <2>2. ASSUME NEW c \in Confirms, ConfirmComplete(c), Completable(confirm[c].reset, confirm[c].user)
        PROVE  changed' \subseteq [by : Confirms, reset : Asks]
    BY <1>0, <2>2, CompleteEffect DEF TypeOK
  <2> QED
    BY <1>0, <2>1, <2>2 DEF TypeOK
<1> QED
  BY <1>1, <1>2, <1>3, <1>4, <1>5, <1>6, <1>7 DEF TypeOK, AskState, ConfirmState

LEMMA NextAskRemembers ==
  ASSUME IInv, [Next]_vars
  PROVE  AskRemembers'
<1>1. TypeOK /\ AskRemembers /\ ask \in [Asks -> AskState]
  BY DEF IInv, TypeOK, AskState
<1>2. DOMAIN token' = DOMAIN token \/ \E r \in Asks : CreateCommit(r) /\ DOMAIN token' = DOMAIN token \cup {r}
  BY TablesChange, CreateEffect, AttemptEffect, CompleteEffect
<1>3. ASSUME NEW r \in Asks, CreateCommit(r)
      PROVE  ask' = [ask EXCEPT ![r] = [IdleAsk EXCEPT !.phase = "done"]]
  BY <1>3 DEF CreateCommit, FinishAsk
<1>4. CASE UNCHANGED ask
  <2>1. ASSUME NEW r \in Asks, CreateCommit(r)
        PROVE  ask'[r].phase = "done" /\ ask[r].phase = "creating"
    BY <1>1, <1>3, <2>1 DEF IdleAsk, CreateCommit
  <2> QED
    BY <1>1, <1>2, <1>4, <2>1 DEF AskRemembers
<1>5. ASSUME NEW r \in Asks, NEW q \in AskState,
             ask' = [ask EXCEPT ![r] = q],
             q.phase # "done" => ask[r].phase \notin {"done", "creating"} /\ ~CreateCommit(r),
             q.phase \in {"found", "timed", "allowed", "creating"} =>
               \/ q.user \in Accounts
               \/ q.user = ask[r].user /\ ask[r].phase \in {"found", "timed", "allowed"}
      PROVE  AskRemembers'
  <2>1. ask'[r] = q /\ \A x \in Asks : x # r => ask'[x] = ask[x]
    BY <1>1, <1>5
  <2>2. ASSUME NEW x \in Asks, CreateCommit(x)
        PROVE  ask'[x].phase = "done"
    BY <1>1, <1>3, <2>2 DEF IdleAsk
  <2>3. \A x \in Asks : ask'[x].phase # "done" => x \notin DOMAIN token'
    <3> SUFFICES ASSUME NEW x \in Asks, ask'[x].phase # "done" PROVE x \notin DOMAIN token'
      OBVIOUS
    <3>1. ask[x].phase # "done"
      BY <1>5, <2>1
    <3>2. x \notin DOMAIN token
      BY <1>1, <3>1 DEF AskRemembers
    <3> QED
      BY <1>2, <2>2, <3>2
  <2>4. \A x \in Asks : ask'[x].phase \in {"found", "timed", "allowed", "creating"} => ask'[x].user \in Accounts
    BY <1>1, <1>5, <2>1 DEF AskRemembers
  <2> QED
    BY <2>3, <2>4 DEF AskRemembers
<1> QED
  BY <1>1, <1>4, <1>5, AskChange

LEMMA NextConfirmRemembers ==
  ASSUME IInv, [Next]_vars
  PROVE  ConfirmRemembers'
<1>1. ConfirmRemembers /\ confirm \in [Confirms -> ConfirmState]
  BY DEF IInv, TypeOK, ConfirmState
<1>2. \A t \in DOMAIN token : t \in DOMAIN token' /\ token'[t].usuario_id = token[t].usuario_id
  BY RowsGrow
<1>3. CASE UNCHANGED confirm
  BY <1>1, <1>2, <1>3 DEF ConfirmRemembers
<1>4. ASSUME NEW c \in Confirms, NEW q \in ConfirmState,
             confirm' = [confirm EXCEPT ![c] = q],
             q.phase \in {"found", "read", "matched"} => q.user \in Accounts,
             q.phase \in {"read", "matched"} => q.reset \in DOMAIN token /\ token[q.reset].usuario_id = q.user,
             q.phase = "matched" => q.code = q.reset
      PROVE  ConfirmRemembers'
  <2>1. confirm'[c] = q /\ \A x \in Confirms : x # c => confirm'[x] = confirm[x]
    BY <1>1, <1>4
  <2> QED
    BY <1>1, <1>2, <1>4, <2>1 DEF ConfirmRemembers
<1> QED
  BY <1>3, <1>4, ConfirmChange

-----------------------------------------------------------------------------
(* Theorems                                                                 *)

\* The invariant holds in every state: what each request remembers between two transactions stays true.
THEOREM Inductive == Spec => []IInv
<1>1. ASSUME IInv, [Next]_vars
      PROVE  IInv'
  <2>0. IInv /\ [Next]_vars
    BY <1>1
  <2>1. TypeOK'
    BY <2>0, NextTypes
  <2>2. AskRemembers'
    BY <2>0, NextAskRemembers
  <2>3. ConfirmRemembers'
    BY <2>0, NextConfirmRemembers
  <2>4. Counted'
    BY <2>0, NextCounted
  <2>5. Spent' /\ CodeUsedOnce'
    BY <2>0, NextSpent
  <2> QED
    BY <2>1, <2>2, <2>3, <2>4, <2>5 DEF IInv
<1> QED
  BY <1>1, InitIInv, PTL DEF Spec

\* Every row, request and confirmation has its type; no row counts more attempts than the limit.
THEOREM Types == Spec => []TypeOK
<1>1. IInv => TypeOK
  BY DEF IInv
<1> QED
  BY <1>1, Inductive, PTL

\* However many confirmations race, at most MaxAttempts of them compare their code with a row: each one
\* was counted on the row before, and the WHERE of the count stops at the limit.
THEOREM GuessesCounted == Spec => []GuessesLimited
<1>1. ASSUME IInv
      PROVE  GuessesLimited
  <2>1. TypeOK /\ Counted
    BY <1>1 DEF IInv
  <2> SUFFICES ASSUME NEW t \in DOMAIN token
               PROVE  Cardinality({x \in compared : x.reset = t}) <= MaxAttempts
    BY DEF GuessesLimited
  <2>2. token[t].attempts \in 0..MaxAttempts
    BY <2>1 DEF TypeOK, Token
  <2>3. {x \in compared : x.reset = t} \subseteq compared /\ IsFiniteSet(compared)
    BY <2>1 DEF Counted
  <2>4. PICK n \in Nat : n = Cardinality({x \in compared : x.reset = t})
    BY <2>3, FS_Subset, FS_CardinalityType
  <2>5. n <= token[t].attempts
    BY <2>1, <2>4 DEF Counted
  <2>6. n <= MaxAttempts
    BY <2>2, <2>5, ResetAssumption
  <2> QED
    BY <2>4, <2>6
<1> QED
  BY <1>1, Inductive, PTL

\* One code changes one password once, however many confirmations have matched it.
THEOREM OneChange == Spec => []CodeUsedOnce
<1>1. IInv => CodeUsedOnce
  BY DEF IInv
<1> QED
  BY <1>1, Inductive, PTL

\* A code another request invalidated, or that was consumed, stays so and changes nothing more.
THEOREM UsedIsUseless == Spec => SupersededUseless
<1>1. ASSUME IInv, [Next]_vars
      PROVE  [SupersededStep]_vars
  <2>0. IInv /\ [Next]_vars
    BY <1>1
  <2>1. \A t \in DOMAIN token : token[t].used => token'[t] = token[t]
    BY <2>0, RowsGrow
  <2>2. \A t \in DOMAIN token : token[t].used => {x \in changed' : x.reset = t} = {x \in changed : x.reset = t}
    BY <2>0, NextSpent
  <2> QED
    BY <2>1, <2>2 DEF SupersededStep
<1> QED
  BY <1>1, Inductive, PTL DEF Spec, SupersededUseless

\* A password changes only for an active account, by a code sent to it that lives at that very moment.
THEOREM OnlyByLiveCode == Spec => PasswordOnlyByLiveCode
<1>1. ASSUME IInv, [Next]_vars
      PROVE  [PasswordStep]_vars
  <2>0. IInv /\ [Next]_vars /\ password \in [Accounts -> Confirms \cup {NULL}]
    BY <1>1 DEF IInv, TypeOK
  <2>1. UNCHANGED password \/ \E c \in Confirms : ConfirmComplete(c) /\ Completable(confirm[c].reset, confirm[c].user)
    BY <2>0, TablesChange
  <2>2. ASSUME NEW c \in Confirms, ConfirmComplete(c), Completable(confirm[c].reset, confirm[c].user),
               NEW u \in Accounts, password'[u] # password[u]
        PROVE  /\ is_active[u]
               /\ password'[u] = c /\ confirm[c].user = u /\ confirm[c].code \in Live(u) /\ token'[confirm[c].code].used
    <3>1. PICK t \in DOMAIN token :
            /\ t = confirm[c].code /\ token[t].usuario_id = confirm[c].user /\ ~token[t].used
            /\ token[t].expires_at > clock /\ token'[t].used
      BY <2>0, <2>2, CompleteEffect
    <3>2. password' = [password EXCEPT ![confirm[c].user] =
                         IF is_active[confirm[c].user] THEN c ELSE password[confirm[c].user]]
      BY <2>2 DEF ConfirmComplete
    <3>3. u = confirm[c].user /\ is_active[u] /\ password'[u] = c
      BY <2>0, <2>2, <3>2
    <3>4. t \in Live(u)
      BY <3>1, <3>3 DEF Live, Unused
    <3> QED
      BY <3>1, <3>3, <3>4
  <2>3. PasswordStep
    BY <2>1, <2>2 DEF PasswordStep
  <2> QED
    BY <2>3
<1> QED
  BY <1>1, Inductive, PTL DEF Spec, PasswordOnlyByLiveCode
=============================================================================
