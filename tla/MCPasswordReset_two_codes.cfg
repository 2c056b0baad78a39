\* Two requests for a code at once.
SPECIFICATION Spec
CONSTANTS
  Accounts = {ana}
  Asks = {k1, k2}
  Confirms = {}
  NULL = NULL
  MaxAttempts = 1
  CodeLife = 2
  Resend = 1
  MaxTime = 2
CHECK_DEADLOCK FALSE
INVARIANTS OneActiveCode
