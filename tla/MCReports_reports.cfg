\* Two people report each other's contents or each other; the authors are asked for as the reports are saved and
\* by a list, while two decisions of administrators race on them.
\* The requests of an instance are finite: when all are answered it stops.
SPECIFICATION Spec
CONSTANTS
  ana = ana
  bob = bob
  act = act
  msg = msg
  Accounts = {ana, bob}
  Contents = {act, msg}
  AuthorOf <- Authors
  Posts = {p1, p2}
  Lists = {l1}
  Reviews = {v1, v2}
  NULL = NULL
  MaxLookups = 2
SYMMETRY Symmetry
CHECK_DEADLOCK FALSE
INVARIANTS TypeOK AuditTrail AuthorOfContent
