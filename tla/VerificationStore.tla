--------------------------- MODULE VerificationStore ---------------------------
(***************************************************************************)
(* What a repository promises about the codes that verify an address, as   *)
(* the mock repository does it: one dictionary behind one lock, with an    *)
(* entry for each account whose address is not verified.  Every method is  *)
(* one step.  EmailVerification implements it with rows, UPDATEs that      *)
(* repeat their conditions and requests that hold what they read before.   *)
(***************************************************************************)
EXTENDS Integers

CONSTANTS Accounts, Codes,
          MaxAttempts, CodeLife   \* settings

VARIABLES clock,     \* datetime.now(timezone.utc)
          pending,   \* _email_verifications
          verified   \* the accounts with email_verified

storeVars == <<pending, verified>>

StoreInit ==
  /\ pending = [u \in {} |-> 0]
  /\ verified = {}

\* create_user and restart_email_verification: a new code of the account, with no attempts, which lives CodeLife from
\* a moment before.
Put(u) ==
  /\ \E k \in Codes, expires_at \in 0 .. clock + CodeLife :
       pending' = [x \in DOMAIN pending \cup {u} |->
                     IF x = u THEN [code |-> k, expires_at |-> expires_at, sent_at |-> clock, attempts |-> 0]
                     ELSE pending[x]]
  /\ UNCHANGED verified

Create(u) == u \notin DOMAIN pending \cup verified /\ Put(u)
Restart(u) == u \in DOMAIN pending /\ Put(u)

\* register_email_verification_attempt
Attempt(u) ==
  /\ u \in DOMAIN pending
  /\ pending[u].attempts < MaxAttempts /\ pending[u].expires_at > clock
  /\ pending' = [pending EXCEPT ![u].attempts = @ + 1]
  /\ UNCHANGED verified

\* complete_email_verification: the entry of a verified account is gone.
Complete(u) ==
  /\ u \in DOMAIN pending
  /\ pending[u].expires_at > clock
  /\ pending' = [x \in DOMAIN pending \ {u} |-> pending[x]]
  /\ verified' = verified \cup {u}

StoreNext == \E u \in Accounts : Create(u) \/ Restart(u) \/ Attempt(u) \/ Complete(u)

StoreSpec == StoreInit /\ [][StoreNext]_storeVars
=============================================================================
