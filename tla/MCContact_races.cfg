\* Two people (and a third) block, unblock, look for and mute each other, and delete their accounts, all at once.
\* The requests of an instance are finite: when all are answered and every account is deleted it stops.
SPECIFICATION Spec
CONSTANTS
  ana = ana
  bob = bob
  eva = eva
  Accounts = {ana, bob, eva}
  Athletes = {ana, bob, eva}
  Requests = {r1, r2}
  NULL = NULL
  Past <- OneBlock
  Muted <- Circle
  MaxDeleted = 1
SYMMETRY Symmetry
CHECK_DEADLOCK FALSE
INVARIANTS
  TypeOK
  BlockCutsContact
  BlockStands
  MutesTogether
