\* Two sanctions, the lifting of one and a call of the account or of an administrator race as the sanctions end.
\* The requests of an instance are finite: when all are answered and time is up it stops.
SPECIFICATION Spec
CONSTANTS
  Accounts = {ana, root}
  Admins = {root}
  Reports = {}
  Applies = {s1, s2}
  Lifts = {l1}
  Calls = {c1}
  NULL = NULL
  MaxTime = 2
  MaxDias = 2
SYMMETRY Symmetry
CHECK_DEADLOCK FALSE
INVARIANTS TypeOK OneActiveSanction AuditMatchesSanctions NoticesTruthful
PROPERTIES HistoryFrozen SuspendedNotServed SuspensionSpec
