SPECIFICATION FairPoolSpec
CONSTANTS
  Workers = {w1, w2}
  Clients = {c1, c2}
  Tasks = {k1, k2, k3}
  NoTask = NoTask
CHECK_DEADLOCK FALSE
INVARIANTS TasksConserved DestroyedMeansAllRun
PROPERTIES AcceptedRuns DestructorReturns
