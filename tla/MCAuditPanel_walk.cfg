\* A change of this service and an action of another one, sent at most twice, while an administrator reads.
\* The writers of an instance are finite: when all are over it stops.
SPECIFICATION Spec
CONSTANTS
  Writers = {w1}
  Posts = {p1}
  MaxTries = 2
  Shapes <- NewShapes
  OldRows <- OldReports
  Queries <- SomeQueries
  PorPagina = 2
  MaxReloj = 1
  MaxRows = 5
  NULL = NULL
CHECK_DEADLOCK FALSE
INVARIANTS WalkComplete FilterFollowsShown PostsRecorded
