\* Three registrations or requests for a code, and three confirmations, of one address.
\* The requests of an instance are finite: when all are answered and time is up it stops.
SPECIFICATION Spec
CONSTANTS
  Accounts = {ana}
  Sends = {k1, k2, k3}
  Confirms = {c1, c2, c3}
  NULL = NULL
  MaxAttempts = 2
  CodeLife = 2
  Resend = 1
  AcceptAny = FALSE
  MaxTime = 2
SYMMETRY Symmetry
CHECK_DEADLOCK FALSE
INVARIANTS TypeOK GuessesLimited OneSignIn
PROPERTIES VerifiedByLastCode ResendSpaced StoreSpec
