\* One report, of ana or of what ana made, a list that asks for the author, two decisions and a sanction of
\* either account that may cite it.  No symmetry: liveness.
\* The requests of an instance are finite: when all are answered and time is up it stops.
SPECIFICATION ModerationSpec
CONSTANTS
  ana = ana
  act = act
  Accounts = {ana, bob}
  Contents = {act}
  AuthorOf <- ByAna
  Posts = {p1}
  Lists = {l1}
  Reviews = {v1, v2}
  Applies = {s1}
  NULL = NULL
  MaxLookups = 1
  MaxTime = 1
  MaxDias = 1
CHECK_DEADLOCK FALSE
INVARIANTS SanctionTraceable
PROPERTIES TemporalEnds
