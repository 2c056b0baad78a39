\* The athlete moves, stays still, removes the position, deletes the account and is searched for, all at once.
\* The requests of an instance are finite: when all are answered and time is up it stops.
SPECIFICATION Spec
CONSTANTS
  ana = ana
  admin = admin
  Accounts = {ana, admin}
  Athletes = {ana}
  Zona <- ZonaOf
  Places = {0, 1, 2}
  Requests = {r1, r2, r3}
  NULL = NULL
  MinMove = 2
  TouchAfter = 1
  MaxAge = 1
  MaxTime = 2
SYMMETRY Symmetry
CHECK_DEADLOCK FALSE
INVARIANTS
  TypeOK
  LocationFollowsOwner
  RemovedStaysRemoved
  StillPersonRenewed
  SearchSeesRemovals
