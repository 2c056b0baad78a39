\* Two codes and three confirmations of one account, with one more guess than the limit.
\* The requests of an instance are finite: when all are answered and time is up it stops.
SPECIFICATION Spec
CONSTANTS
  Accounts = {ana}
  Asks = {k1, k2}
  Confirms = {c1, c2, c3}
  NULL = NULL
  MaxAttempts = 2
  CodeLife = 2
  Resend = 1
  MaxTime = 2
SYMMETRY Symmetry
CHECK_DEADLOCK FALSE
INVARIANTS TypeOK GuessesLimited CodeUsedOnce
PROPERTIES PasswordOnlyByLiveCode
