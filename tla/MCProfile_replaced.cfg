\* Three requests of any kind about one account, which may be deleted meanwhile.
\* The requests of an instance are finite: when all are over it stops.
SPECIFICATION Spec
CONSTANTS
  Requests = {r1, r2, r3}
  Registered = registered
  NULL = NULL
SYMMETRY Symmetry
CHECK_DEADLOCK FALSE
INVARIANTS TypeOK PreferencesWhole AnswersCurrent RevocationStands
